------------------------------ MODULE Depacker ------------------------------
(***************************************************************************)
(* The depacker on the 6502: the files that main wrote are loaded into     *)
(* memory and the depacker is called.  A step is a piece of depacker.asm   *)
(* between two labels.  It knows addresses only: the pointers it keeps in  *)
(* the zeropage, and the store instruction whose high byte it increments.  *)
(*                                                                         *)
(* The stack is not part of the memory; ret is where the rts of copy goes. *)
(***************************************************************************)
EXTENDS Layout

VARIABLES
  pc,    \* "off", or the part of depacker.asm that comes next, or "done"
  mem,   \* the memory
  A, X, Y,
  Z,     \* the zero flag, where a branch depends on it
  ret    \* "bne" behind the jsr to copy, "done" in the caller of the depacker

cpuVars == <<pc, mem, A, X, Y, Z, ret>>
dvars == <<lvars, cpuVars>>

Addr == 0 .. ADDR_LIMIT - 1
Word(lo, hi) == (lo + PAGE * hi) % ADDR_LIMIT
Negative(b) == b >= PAGE \div 2

\* The symbols of depacker.asm.
ZP_TEMP == options.zpaddr

ADDR_TABLE_ARGTABLE == table_at["t"] - argtable_start
table_of_tables == table_at["d"] + tables_offset
smc_hi == table_at["d"] + smc_offset        \* smc_out + 2

InitCpu ==
  /\ pc = "off"
  /\ mem = <<>>
  /\ A = 0 /\ X = 0 /\ Y = 0 /\ Z = FALSE /\ ret = "done"

\* What a file puts at address a.
InFile(f, a) == f.addr <= a /\ a < f.addr + Len(f.bytes)

\* Mutant: one byte too many is copied to the zeropage.
CallOneMore ==
  /\ lay_pc = "accepted"
  /\ pc = "off"
  /\ 2 * PAGE <= program_addr
  /\ \E fill \in JunkBytes :
       mem' = [a \in Addr |->
                 IF \E f \in {1, 2} : InFile(files[f], a)
                 THEN LET f == CHOOSE f \in {1, 2} : InFile(files[f], a)
                      IN files[f].bytes[a - files[f].addr + 1]
                 ELSE fill]
  /\ X' = 2 * 6
  /\ pc' = "copyloop"
  /\ UNCHANGED <<lvars, A, Y, Z, ret>>

\* The files are loaded and the depacker is called.  A program below the third
\* page would overwrite the zeropage or the stack, which the documentation
\* leaves to the user.
Call ==
  /\ lay_pc = "accepted"
  /\ pc = "off"
  /\ 2 * PAGE <= program_addr
  /\ \E fill \in JunkBytes :
       mem' = [a \in Addr |->
                 IF \E f \in {1, 2} : InFile(files[f], a)
                 THEN LET f == CHOOSE f \in {1, 2} : InFile(files[f], a)
                      IN files[f].bytes[a - files[f].addr + 1]
                 ELSE fill]
  /\ X' = 2 * 6 - 1
  /\ pc' = "copyloop"
  /\ UNCHANGED <<lvars, A, Y, Z, ret>>

\* Copy a byte of table_of_tables; behind the loop load Y.
CopyPointer ==
  /\ pc = "copyloop"
  /\ A' = mem[table_of_tables + X]
  /\ mem' = [mem EXCEPT ![ZP_TEMP + X] = A']
  /\ X' = (X + PAGE - 1) % PAGE
  /\ IF Negative(X')
       THEN pc' = "mainloop" /\ Y' = program_addr % PAGE
       ELSE UNCHANGED <<pc, Y>>
  /\ UNCHANGED <<lvars, Z, ret>>

\* The memory after the pointer at x was incremented.
Incremented(m, x) ==
  LET lo == (m[x] + 1) % PAGE
  IN IF lo # 0 THEN [m EXCEPT ![x] = lo]
     ELSE [m EXCEPT ![x] = lo, ![x + 1] = (@ + 1) % PAGE]

\* Mutant: Y does not wrap.
ReadAndOutputWide(x) ==
  LET p == ZP_TEMP + x
  IN /\ A' = mem[Word(mem[p], mem[p + 1])]
     /\ Y' = Y + 1
     /\ mem' = [Incremented(mem, p) EXCEPT ![Word(Y, mem[smc_hi])] = A']
     /\ Z' = FALSE

\* read_and_output: read a byte from the table at pointer x, increment the
\* pointer, store the byte, increment Y and with it the store instruction.
ReadAndOutput(x) ==
  LET p == ZP_TEMP + x
      stored(m) == [m EXCEPT ![Word(Y, m[smc_hi])] = A']
      next == (Y + 1) % PAGE
      m2 == stored(Incremented(mem, p))
  IN /\ A' = mem[Word(mem[p], mem[p + 1])]
     /\ Y' = next
     /\ mem' = IF next # 0 THEN m2
               ELSE [m2 EXCEPT ![smc_hi] = (@ + 1) % PAGE]
     /\ Z' = (next = 0 /\ mem'[smc_hi] = 0)

\* The end check of the depacker for programs that use every opcode.
AtProgramEnd ==
  /\ eof_marker = PAGE
  /\ Y = program_end % PAGE
  /\ mem[smc_hi] = program_end \div PAGE

\* Mutant: the end check branches back to the loop.
ReturnAtProgramEndLoops ==
  /\ pc = "mainloop"
  /\ AtProgramEnd
  /\ UNCHANGED dvars

ReturnAtProgramEnd ==
  /\ pc = "mainloop"
  /\ AtProgramEnd
  /\ pc' = "done"
  /\ UNCHANGED <<lvars, mem, A, X, Y, Z, ret>>

OutputOpcode ==
  /\ pc = "mainloop"
  /\ ~AtProgramEnd
  /\ X' = 10
  /\ ReadAndOutput(10)
  /\ pc' = "tax"
  /\ UNCHANGED <<lvars, ret>>

\* Behind the opcode: return at the end marker, otherwise jsr copy.
TestOpcode ==
  /\ pc = "tax"
  /\ X' = A
  /\ IF A = eof_marker
       THEN pc' = "done" /\ UNCHANGED ret
       ELSE pc' = "copy" /\ ret' = "bne"
  /\ UNCHANGED <<lvars, mem, A, Y, Z>>

\* Look the opcode up; its mode is an offset for X, or negative.
LookupMode ==
  /\ pc = "copy"
  /\ A' = mem[ADDR_TABLE_ARGTABLE + X]
  /\ IF Negative(A')
       THEN pc' = ret /\ Z' = FALSE /\ UNCHANGED X
       ELSE /\ X' = A'
            /\ Z' = (A' = 0)
            /\ pc' = IF A' = 0 THEN "output_lo" ELSE "read_and_output"
  /\ UNCHANGED <<lvars, mem, Y, ret>>

\* Mutant: without the increments of X the low byte is output twice.
OutputLoTwice ==
  /\ pc = "output_lo"
  /\ ReadAndOutput(X)
  /\ pc' = "read_and_output"
  /\ UNCHANGED <<lvars, X, ret>>

\* The low byte of an absolute address, and on to the table of the high bytes.
OutputLo ==
  /\ pc = "output_lo"
  /\ ReadAndOutput(X)
  /\ X' = X + 2
  /\ pc' = "read_and_output"
  /\ UNCHANGED <<lvars, ret>>

\* The last argument byte; its rts is that of copy.
OutputArgument ==
  /\ pc = "read_and_output"
  /\ ReadAndOutput(X)
  /\ pc' = ret
  /\ UNCHANGED <<lvars, X, ret>>

\* The branch back; behind it is copy, and no return address of its own.
Branch ==
  /\ pc = "bne"
  /\ IF ~Z THEN pc' = "mainloop" /\ UNCHANGED ret
           ELSE pc' = "copy" /\ ret' = "done"
  /\ UNCHANGED <<lvars, mem, A, X, Y, Z>>

NextCpu ==
  \/ Call
  \/ CopyPointer
  \/ ReturnAtProgramEnd
  \/ OutputOpcode
  \/ TestOpcode
  \/ LookupMode
  \/ OutputLo
  \/ OutputArgument
  \/ Branch

DepackerNext ==
  \/ NextLayout /\ UNCHANGED cpuVars
  \/ NextCpu

\* The packed program is rejected, never called, or extracted.
AllDone ==
  \/ Exited /\ lay_pc # "accepted"
  \/ lay_pc = "accepted" /\ pc = "off" /\ program_addr < 2 * PAGE
  \/ pc = "done"

DepackerInit == InitMain /\ InitLayout /\ InitCpu

DepackerSpec ==
  /\ DepackerInit
  /\ [][DepackerNext \/ (AllDone /\ UNCHANGED dvars)]_dvars
  /\ WF_dvars(DepackerNext)
-----------------------------------------------------------------------------
(***************************************************************************)
(* Properties.                                                             *)
(***************************************************************************)
CpuTypeOK ==
  /\ LayoutTypeOK
  /\ pc \in {"off", "copyloop", "mainloop", "tax", "copy", "output_lo",
             "read_and_output", "bne", "done"}
  /\ pc # "off" => mem \in [Addr -> 0 .. CODE]
  /\ A \in 0 .. CODE /\ X \in Byte /\ Y \in Byte
  /\ Z \in BOOLEAN
  /\ ret \in {"bne", "done"}

\* When the depacker returns, the program is in memory.
Unpacked ==
  pc = "done" =>
    \A n \in 1 .. Len(body) : mem[program_addr + n - 1] = body[n]

\* The memory the depacker may write: its temporary pointers, the program and
\* what it trashes behind it, and the byte of its own code it increments.
Writable ==
  ZP_TEMP .. ZP_TEMP + 11 \cup program_addr .. program_end - 1 \cup {smc_hi}

\* It writes nowhere else, in particular not to tables it has yet to read or
\* to its other code.
WritesOnlyItsOwn ==
  [][pc # "off" => \A a \in Addr : mem'[a] # mem[a] => a \in Writable]_dvars

\* depacker.asm, line 62: "branches always!".
BranchesAlways == pc = "bne" => ~Z

\* main comes to an end, and every depacker that is called returns.
Returns == <>AllDone

-----------------------------------------------------------------------------
(***************************************************************************)
(* The refinement of Unsplitter.  The bytes taken from a table are those   *)
(* its pointer is behind its start, the bytes written are those between    *)
(* the load address of the program and the place of the next store.        *)
(* Unsplitter decides what comes next together with the output of the      *)
(* opcode, the depacker behind it.                                         *)
(***************************************************************************)
Started == pc \notin {"off", "copyloop"}

PointerOffset == [l |-> 0, h |-> 2, i |-> 4, r |-> 6, z |-> 8, o |-> 10]

takenBar ==
  [t \in Table |->
     IF ~Started THEN 0
     ELSE LET p == ZP_TEMP + PointerOffset[t]
          IN (Word(mem[p], mem[p + 1]) + ADDR_LIMIT - table_at[t]) % ADDR_LIMIT]

outBar ==
  IF ~Started THEN <<>>
  ELSE LET n == (Word(Y, mem[smc_hi]) + ADDR_LIMIT - program_addr) % ADDR_LIMIT
       IN [x \in 1 .. n |-> mem[(program_addr + x - 1) % ADDR_LIMIT]]

\* The tables of the argument bytes to come.
argsBar ==
  CASE pc = "tax" /\ A # eof_marker  -> ArgTables(mem[ADDR_TABLE_ARGTABLE + A])
    [] pc = "copy"                   -> ArgTables(mem[ADDR_TABLE_ARGTABLE + X])
    [] pc = "output_lo"              -> <<"l", "h">>
    [] pc = "read_and_output"        ->
         <<CHOOSE t \in Table : PointerOffset[t] = X>>
    [] OTHER                         -> <<>>

runBar ==
  CASE ~Started                                     -> "idle"
    [] pc = "done" \/ (pc = "tax" /\ A = eof_marker) -> "done"
    [] argsBar # <<>>                               -> "copy"
    [] OTHER                                        -> "loop"

Tables == INSTANCE Unsplitter
            WITH run <- runBar, taken <- takenBar, args <- argsBar, out <- outBar

\* The depacker on the 6502 implements the one that only sees the tables.
ImplementsUnsplitter == Tables!Spec
-----------------------------------------------------------------------------
(***************************************************************************)
(* The inductive invariant of the depacker in memory, for the calls that   *)
(* the documentation has in mind.  Where the pointers and the store        *)
(* instruction point to is not its business: takenBar and outBar are made  *)
(* of them, so that the invariant of Unsplitter speaks of them.            *)
(***************************************************************************)

\* Every table has an address, and the depacker stays below the end of memory.
Intended ==
  /\ EveryTablePlaced
  /\ lay_pc = "accepted" => program_end <= ADDR_LIMIT

\* The tables, and their addresses at the end of the depacker, are in memory.
TablesInMemory ==
  /\ \A id \in Id \ {"d"} : \A n \in 1 .. Size(id) :
       mem[table_at[id] + n - 1] = Content(id)[n]
  /\ \A n \in 0 .. 11 : mem[table_of_tables + n] = PointerByte(n)

\* The pointers above X are copied already.
Copying ==
  /\ X \in 0 .. 11
  /\ \A n \in X + 1 .. 11 : mem[ZP_TEMP + n] = PointerByte(n)
  /\ mem[smc_hi] = HighByte(program_addr)

InArgtable(b) == argtable_start <= b /\ b < argtable_start + count_argtable

\* What each piece of the depacker takes over in the registers.
Running ==
  /\ \A n \in 0 .. 11 : mem[ZP_TEMP + n] \in Byte
  /\ mem[smc_hi] \in Byte
  /\ pc = "tax" => A \in Byte /\ (A # eof_marker => InArgtable(A))
  /\ pc = "copy" => InArgtable(X)
  /\ pc = "output_lo" => X = PointerOffset["l"]
  /\ pc = "read_and_output" => \E t \in Table \ {"o", "l"} : X = PointerOffset[t]
  /\ pc \in {"copy", "output_lo", "read_and_output"} => ret = "bne"
  /\ BranchesAlways

CpuInv ==
  /\ CpuTypeOK
  /\ pc # "off" => /\ lay_pc = "accepted"
                   /\ 2 * PAGE <= program_addr
                   /\ TablesInMemory
  /\ pc = "copyloop" => Copying
  /\ Started => Running
=============================================================================
