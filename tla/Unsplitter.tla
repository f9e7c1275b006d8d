----------------------------- MODULE Unsplitter -----------------------------
(***************************************************************************)
(* The depacker seen through its tables: for every opcode it takes from    *)
(* the opcode table it looks the mode up in the argument table and takes   *)
(* the argument bytes from the tables of that mode.  Addresses, registers  *)
(* and the self-modified store are the business of module Depacker, which  *)
(* is shown to implement this one.                                         *)
(*                                                                         *)
(* The module extends Splitter, so one behaviour first splits a program    *)
(* and then puts it together again.                                        *)
(***************************************************************************)
EXTENDS Splitter

VARIABLES
  run,     \* where the depacker is: "idle", "loop", "copy", "done"
  taken,   \* number of bytes taken from each table
  args,    \* tables the current instruction still takes a byte from
  out      \* the bytes written so far

runVars == <<run, taken, args, out>>
uvars == <<mainVars, runVars>>

InitRun ==
  /\ run = "idle"
  /\ taken = [t \in Table |-> 0]
  /\ args = <<>>
  /\ out = <<>>

Start ==
  /\ main_pc = "tables"
  /\ run = "idle"
  /\ run' = "loop"
  /\ UNCHANGED <<mainVars, taken, args, out>>

\* Mutant: the end is found one byte early.
AtEndEarly == eof_marker = PAGE /\ Len(out) + 1 = real_program_len

\* The end check of the longer way: all opcodes are used, so the depacker
\* compares its output position before every instruction.
AtEnd == eof_marker = PAGE /\ Len(out) = real_program_len

\* Take the next byte of table t and output it.
CopyByte(t) ==
  /\ taken[t] < Len(data[t])
  /\ out' = Append(out, data[t][taken[t] + 1])
  /\ taken' = [taken EXCEPT ![t] = @ + 1]
  /\ UNCHANGED mainVars

ReturnAtEnd ==
  /\ run = "loop"
  /\ AtEnd
  /\ run' = "done"
  /\ UNCHANGED <<mainVars, taken, args, out>>

NextOpcode == data["o"][taken["o"] + 1]

\* The byte is output before it is compared with the marker.
TakeEofMarker ==
  /\ run = "loop"
  /\ ~AtEnd
  /\ CopyByte("o")
  /\ NextOpcode = eof_marker
  /\ run' = "done"
  /\ UNCHANGED args

TakeInstruction ==
  /\ run = "loop"
  /\ ~AtEnd
  /\ CopyByte("o")
  /\ NextOpcode # eof_marker
  /\ args' = ArgTables(data_argtable[NextOpcode])
  /\ run' = IF args' = <<>> THEN "loop" ELSE "copy"

CopyArgument ==
  /\ run = "copy"
  /\ CopyByte(Head(args))
  /\ args' = Tail(args)
  /\ run' = IF args' = <<>> THEN "loop" ELSE "copy"

NextRun ==
  \/ Start
  \/ ReturnAtEnd
  \/ TakeEofMarker
  \/ TakeInstruction
  \/ CopyArgument

\* main has ended, or the depacker has.
Terminated ==
  /\ main_pc \in {"failed", "undefined"} \/ run = "done"
  /\ UNCHANGED uvars

Init == InitMain /\ InitRun

Next ==
  \/ NextMain /\ UNCHANGED runVars
  \/ NextRun
  \/ Terminated

Spec == Init /\ [][Next]_uvars
-----------------------------------------------------------------------------
(***************************************************************************)
(* Properties.                                                             *)
(***************************************************************************)

\* Type invariant of both halves.
TypeOK ==
  /\ program_addr \in Nat
  /\ body \in Seq(Byte)
  /\ main_pc \in {"read", "split", "trim", "tables", "failed", "undefined"}
  /\ program_len \in Nat
  /\ main_pc \notin {"read", "failed"} => program_data \in [0 .. program_len + 1 -> Byte]
  /\ i \in 0 .. program_len + 2
  /\ used_opcodes \subseteq Byte
  /\ data \in [Table -> Seq(Byte)]
  /\ eof_marker \in 0 .. PAGE
  /\ argtable_start \in Nat
  /\ count_argtable \in Nat
  /\ starts \in Seq(Mark)
  /\ run \in {"idle", "loop", "copy", "done"}
  /\ taken \in [Table -> Nat]
  /\ args \in Seq(Table)
  /\ out \in Seq(Byte)

\* At every moment the extracted bytes agree with the program: the order in
\* which the depacker merges the tables is the order in which the split loop
\* of main distributed the bytes.
OutIsPrefix ==
  \A k \in 1 .. Len(out) : k <= Len(body) => out[k] = body[k]

\* When the depacker returns, the whole program is there and what was written
\* behind it is what main calls temporary: real_program_len - program_len
\* bytes, at most three.
ExtractsAll ==
  run = "done" => /\ Len(out) = real_program_len
                  /\ Len(body) <= Len(out)
                  /\ Len(out) <= Len(body) + 3

\* The depacker never reads a byte behind the end of a table, and it has read
\* every byte of every table when it returns.
NoUnderrun ==
  /\ run = "loop" /\ ~AtEnd => taken["o"] < Len(data["o"])
  /\ run = "copy" => taken[Head(args)] < Len(data[Head(args)])
  /\ run = "done" => \A t \in Table : taken[t] = Len(data[t])

\* The end marker occurs in the opcode table only as its last entry; no
\* instruction of the program is taken for the end.
MarkerOnlyAtEnd ==
  main_pc \in {"trim", "tables"} =>
    \A k \in 1 .. Len(data["o"]) :
       data["o"][k] = eof_marker => k = Len(data["o"])

\* Every opcode the depacker looks up lies in the trimmed argument table.
LookupInArgtable ==
  main_pc = "tables" =>
    \A k \in 1 .. Len(data["o"]) :
       data["o"][k] # eof_marker =>
         /\ argtable_start <= data["o"][k]
         /\ data["o"][k] < argtable_start + count_argtable

\* The split loop reads its arguments inside the program buffer even when the
\* last instruction is cut off, and the tables fit into arrays of that size.
StaysInBuffers ==
  main_pc \in {"split", "trim", "tables"} =>
    /\ i < program_len =>
          i + Len(ArgTables(OpcodeMode)) < MAX_PRG_SIZE
    /\ \A t \in Table : Len(data[t]) <= MAX_PRG_SIZE

\* The trimming scans leave used_opcodes only for a file without a program.
WildOnlyIfEmpty ==
  main_pc = "undefined" => body = <<>>

\* Nothing is read or written outside of an array, but for an empty program.
InBounds == StaysInBuffers /\ WildOnlyIfEmpty

\* The promise of the tool: see module Extraction.
Promise == INSTANCE Extraction WITH program <- body, done <- (run = "done")
Extracts == Promise!Spec
-----------------------------------------------------------------------------
(***************************************************************************)
(* The inductive invariant.  Its heart is Instruction(k), which says what  *)
(* the split loop did with the k-th instruction, and Retraces, which says  *)
(* that the depacker is at the same place of the same instruction.         *)
(***************************************************************************)
Count == Len(starts) - 1      \* number of instructions split so far
Last == starts[Len(starts)]   \* where the split loop is

\* The tables of the argument bytes of the k-th instruction.
ArgsOf(k) == ArgTables(opcode_to_mode[program_data[starts[k].at]])

\* d is c after one byte more for the opcode table and the tables of ts.
Advanced(c, d, ts) ==
  \A t \in Table : d[t] = IF t = "o" \/ \E j \in 1 .. Len(ts) : ts[j] = t
                          THEN c[t] + 1 ELSE c[t]

\* The k-th instruction was read at its start, and its bytes are at the places
\* of the tables that come next.
Instruction(k) ==
  LET s == starts[k]
      n == starts[k + 1]
      ts == ArgsOf(k)
  IN /\ s.at < program_len
     /\ program_data[s.at] \in used_opcodes
     /\ data["o"][k] = program_data[s.at]
     /\ \A j \in 1 .. Len(ts) :
          data[ts[j]][s.cnt[ts[j]] + 1] = program_data[s.at + j]
     /\ n.at = s.at + 1 + Len(ts)
     /\ Advanced(s.cnt, n.cnt, ts)

\* How many bytes of the program the tables hold when their lengths are c.
Place(c) == c["o"] + 2 * c["l"] + c["i"] + c["r"] + c["z"]

\* The lengths of the tables before the k-th instruction add up to its place.
Balanced(k) ==
  LET c == starts[k].cnt
  IN /\ c["o"] = k - 1
     /\ c["l"] = c["h"]
     /\ starts[k].at = Place(c)
     /\ \A t \in Table : c[t] <= Len(data[t])

\* What was read from the file.
Loaded ==
  /\ main_pc = "read" => program_len = 0 /\ run = "idle"
  /\ main_pc # "read" => \A k \in 0 .. program_len - 1 :
                            program_data[k] = body[k + 1]
  /\ main_pc \notin {"read", "failed"} =>
       /\ program_len = Len(body)
       /\ program_len < MAX_PRG_SIZE - MARGIN

\* The tables, up to the end marker.
Distributed ==
  /\ Len(starts) >= 1
  /\ starts[1].at = 0
  /\ \A t \in Table : starts[1].cnt[t] = 0
  /\ \A k \in 1 .. Len(starts) : Balanced(k)
  /\ \A k \in 1 .. Count : Instruction(k)
  /\ Last.at = i
  /\ \A t \in Table \ {"o"} : Last.cnt[t] = Len(data[t])
  /\ main_pc \in {"read", "split", "failed"} => Len(data["o"]) = Count
  /\ main_pc \in {"read", "failed"} => Count = 0

\* The end marker, and the range of the argument table.
Marked ==
  main_pc \in {"trim", "tables", "undefined"} =>
    /\ i >= program_len
    /\ eof_marker \notin used_opcodes
    /\ eof_marker # PAGE => /\ Len(data["o"]) = Count + 1
                            /\ data["o"][Count + 1] = eof_marker
    /\ eof_marker = PAGE => Len(data["o"]) = Count
    /\ main_pc = "undefined" => used_opcodes = {}
    /\ main_pc = "tables" =>
         \A b \in used_opcodes :
           argtable_start <= b /\ b < argtable_start + count_argtable

\* Between two instructions: the depacker is at the start of instruction k.
AtStart(k) ==
  /\ Len(out) = starts[k].at
  /\ \A t \in Table : taken[t] = starts[k].cnt[t]

\* Within instruction k the depacker has output the opcode and the arguments
\* that args does not hold any more.
WithinInstruction(k) ==
  LET ts == ArgsOf(k)
      j == Len(ts) - Len(args)
  IN /\ Len(args) \in 1 .. Len(ts)
     /\ \A x \in 1 .. Len(args) : args[x] = ts[j + x]
     /\ Len(out) = starts[k].at + 1 + j
     /\ Advanced(starts[k].cnt, taken, SubSeq(ts, 1, j))

\* The depacker retraces the split loop.
Retraces ==
  /\ run # "idle" => main_pc = "tables"
  /\ run = "idle" => out = <<>> /\ \A t \in Table : taken[t] = 0
  /\ run = "loop" => /\ taken["o"] + 1 \in 1 .. Len(starts)
                     /\ AtStart(taken["o"] + 1)
  /\ run = "copy" => /\ taken["o"] \in 1 .. Count
                     /\ WithinInstruction(taken["o"])
  /\ run = "done" => /\ Len(out) = real_program_len
                     /\ \A t \in Table : taken[t] = Len(data[t])
  /\ \A k \in 1 .. Len(out) : k <= i => out[k] = program_data[k - 1]

IInv ==
  /\ TypeOK
  /\ Loaded
  /\ Distributed
  /\ Marked
  /\ Retraces
=============================================================================
