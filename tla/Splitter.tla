------------------------------ MODULE Splitter ------------------------------
(***************************************************************************)
(* The first half of main: reading the program, splitting it into the      *)
(* opcode table and the argument tables, choosing the end marker and       *)
(* trimming the argument table.                                            *)
(*                                                                         *)
(* The C arrays data_xxx with their count_xxx are sequences, used_opcodes  *)
(* is the set of the opcodes whose flag is set.  program_data keeps only   *)
(* the bytes the loop can read: the program and the two bytes behind it,   *)
(* which are left over from the header or were never written.              *)
(***************************************************************************)
EXTENDS Opcodes, FiniteSets

CONSTANTS MAX_PRG_SIZE,  \* size of the program buffer
          MARGIN,        \* room that must stay free in it (100 in the code)
          ADDR_LIMIT,    \* first address behind the memory (0x10000)
          Addrs,         \* load addresses of the input files
          Bodies,        \* contents of the input files, without the header
          JunkBytes      \* values of stack bytes nobody wrote

ASSUME SizeAssumption ==
  /\ MAX_PRG_SIZE \in Nat
  /\ MARGIN \in Nat
  /\ 2 <= MARGIN
  /\ MARGIN <= MAX_PRG_SIZE
  /\ ADDR_LIMIT \in Nat
ASSUME FileAssumption ==
  /\ Addrs \subseteq Nat
  /\ Bodies \subseteq Seq(Byte)
  /\ JunkBytes \subseteq Byte

VARIABLES
  program_addr,    \* load address, from the header
  body,            \* the rest of the input file
  main_pc,         \* where main is
  program_len,
  program_data,
  i,
  used_opcodes,
  data,            \* the six tables
  eof_marker,      \* PAGE when every opcode is used
  argtable_start,
  count_argtable,
  starts           \* auxiliary, see below

(***************************************************************************)
(* starts is no variable of the program and no action reads it.  It keeps  *)
(* where the split loop was before each instruction and after the last     *)
(* one: the position in the program and the lengths of the tables.  The    *)
(* invariants need it to say that the depacker retraces those steps.       *)
(***************************************************************************)
fileVars == <<program_addr, body>>
loadVars == <<program_len, program_data>>
splitVars == <<i, used_opcodes, data, starts>>
tableVars == <<eof_marker, argtable_start, count_argtable>>
mainVars == <<fileVars, main_pc, loadVars, splitVars, tableVars>>

-----------------------------------------------------------------------------
InitMain ==
  /\ program_addr \in Addrs
  /\ body \in Bodies
  /\ main_pc = "read"
  /\ program_len = 0
  /\ program_data = <<>>
  /\ i = 0
  /\ used_opcodes = {}
  /\ data = [t \in Table |-> <<>>]
  /\ eof_marker = 0
  /\ argtable_start = 0
  /\ count_argtable = 0
  /\ starts = <<[at |-> 0, cnt |-> [t \in Table |-> 0]]>>

\* What fread leaves in the buffer after a header of bytes lo and hi: byte k
\* of a program of n bytes, or what was at that place before.
BufferByte(n, k, lo, hi, junk) ==
  CASE k < n             -> body[k + 1]
    [] k >= n /\ k = 0   -> lo
    [] k >= n /\ k = 1   -> hi
    [] OTHER             -> junk[k - n]

\* Mutant: without the margin behind the program.
ReadProgramNoMargin ==
  /\ main_pc = "read"
  /\ LET n == IF Len(body) < MAX_PRG_SIZE THEN Len(body) ELSE MAX_PRG_SIZE
         lo == program_addr % PAGE
         hi == (program_addr \div PAGE) % PAGE
     IN \E junk \in [0 .. 1 -> JunkBytes] :
          /\ program_len' = n
          /\ program_data' = [x \in 0 .. n + 1 |->
                                 BufferByte(n, x, lo, hi, junk)]
          /\ main_pc' = IF n >= MAX_PRG_SIZE \/ program_addr + n > ADDR_LIMIT
                        THEN "failed" ELSE "split"
  /\ UNCHANGED <<fileVars, splitVars, tableVars>>

\* Read the file and reject what is too long or does not fit into memory.
ReadProgram ==
  /\ main_pc = "read"
  /\ LET n == IF Len(body) < MAX_PRG_SIZE THEN Len(body) ELSE MAX_PRG_SIZE
         lo == program_addr % PAGE
         hi == (program_addr \div PAGE) % PAGE
     IN \E junk \in [0 .. 1 -> JunkBytes] :
          /\ program_len' = n
          /\ program_data' = [k \in 0 .. n + 1 |->
                                 BufferByte(n, k, lo, hi, junk)]
          /\ main_pc' = IF n >= MAX_PRG_SIZE - MARGIN
                             \/ program_addr + n > ADDR_LIMIT
                        THEN "failed" ELSE "split"
  /\ UNCHANGED <<fileVars, splitVars, tableVars>>

\* The file has no whole header, or it cannot be read.
ReadFails ==
  /\ main_pc = "read"
  /\ main_pc' = "failed"
  /\ UNCHANGED <<fileVars, loadVars, splitVars, tableVars>>

-----------------------------------------------------------------------------
Opcode == program_data[i]
OpcodeMode == opcode_to_mode[Opcode]

\* The head of the split loop: the next byte is an opcode.
TakeOpcode ==
  /\ main_pc = "split"
  /\ i < program_len
  /\ used_opcodes' = used_opcodes \cup {Opcode}
  /\ UNCHANGED <<fileVars, main_pc, loadVars, tableVars>>

Mark == [at : Nat, cnt : [Table -> Nat]]

\* Keep where the loop is after the instruction.
MarkStart ==
  starts' = Append(starts, [at |-> i', cnt |-> [t \in Table |-> Len(data'[t])]])

\* MODEimpl and MODEjam: no argument (a JAM opcode is only warned about).
SplitNone ==
  /\ TakeOpcode
  /\ OpcodeMode \in {MODEimpl, MODEjam}
  /\ data' = [data EXCEPT !["o"] = Append(@, Opcode)]
  /\ i' = i + 1
  /\ MarkStart

\* MODEimm, MODErel and MODEzp: one argument byte into the table t.
SplitOne(t, m) ==
  /\ TakeOpcode
  /\ OpcodeMode = m
  /\ data' = [data EXCEPT !["o"] = Append(@, Opcode),
                          ![t]   = Append(@, program_data[i + 1])]
  /\ i' = i + 2
  /\ MarkStart

\* MODEabs: the low byte and the high byte go to different tables.
SplitAbs ==
  /\ TakeOpcode
  /\ OpcodeMode = MODEabs
  /\ data' = [data EXCEPT !["o"] = Append(@, Opcode),
                          !["l"] = Append(@, program_data[i + 1]),
                          !["h"] = Append(@, program_data[i + 2])]
  /\ i' = i + 3
  /\ MarkStart

\* Mutant: the scan stops at a used opcode.
FirstUnusedEarly(m) == \A b \in Byte : b < m => b \in used_opcodes

\* The scan for the first opcode that is not used; m = PAGE if there is none.
FirstUnused(m) ==
  /\ \A b \in Byte : b < m => b \in used_opcodes
  /\ m \in Byte => m \notin used_opcodes

\* After the loop: find the end marker and, if there is one, place it.
PlaceEofMarker ==
  /\ main_pc = "split"
  /\ i >= program_len
  /\ \E m \in 0 .. PAGE :
       /\ FirstUnused(m)
       /\ eof_marker' = m
       /\ data' = IF m = PAGE THEN data
                  ELSE [data EXCEPT !["o"] = Append(@, m)]
  /\ main_pc' = "trim"
  /\ UNCHANGED <<fileVars, loadVars, i, used_opcodes, starts,
                 argtable_start, count_argtable>>

\* Mutant: the last used opcode is trimmed away.
TrimArgtableShort ==
  /\ main_pc = "trim"
  /\ \E first, last \in used_opcodes :
       /\ \A b \in used_opcodes : first <= b /\ b <= last
       /\ argtable_start' = first
       /\ count_argtable' = last - first
  /\ main_pc' = "tables"
  /\ UNCHANGED <<fileVars, loadVars, splitVars, eof_marker>>

\* Mutant: the second scan counts its last step twice.
TrimArgtableTwice ==
  /\ main_pc = "trim"
  /\ \E first, last \in used_opcodes :
       /\ \A b \in used_opcodes : first <= b /\ b <= last
       /\ argtable_start' = first
       /\ count_argtable' = last - first - 1
  /\ main_pc' = "tables"
  /\ UNCHANGED <<fileVars, loadVars, splitVars, eof_marker>>

\* Trim the argument table to the range of the used opcodes.
TrimArgtable ==
  /\ main_pc = "trim"
  /\ \E first, last \in used_opcodes :
       /\ \A b \in used_opcodes : first <= b /\ b <= last
       /\ argtable_start' = first
       /\ count_argtable' = last + 1 - first
  /\ main_pc' = "tables"
  /\ UNCHANGED <<fileVars, loadVars, splitVars, eof_marker>>

\* No opcode at all: both scans run out of used_opcodes, what happens then
\* is undefined.
TrimRunsWild ==
  /\ main_pc = "trim"
  /\ used_opcodes = {}
  /\ main_pc' = "undefined"
  /\ UNCHANGED <<fileVars, loadVars, splitVars, tableVars>>

NextMain ==
  \/ ReadProgram
  \/ ReadFails
  \/ SplitNone
  \/ SplitOne("i", MODEimm)
  \/ SplitOne("r", MODErel)
  \/ SplitOne("z", MODEzp)
  \/ SplitAbs
  \/ PlaceEofMarker
  \/ TrimArgtable
  \/ TrimRunsWild

SpecMain == InitMain /\ [][NextMain]_mainVars

-----------------------------------------------------------------------------
\* Length of what the tables hold, which is what the depacker will write.
real_program_len ==
  Len(data["o"]) + 2 * Len(data["l"]) + Len(data["i"]) + Len(data["r"])
    + Len(data["z"])

\* data_argtable: the low byte of the mode, or 0 for an opcode not used.
data_argtable ==
  [b \in Byte |-> IF b \in used_opcodes THEN opcode_to_mode[b] % PAGE ELSE 0]
=============================================================================
