------------------------------- MODULE Layout -------------------------------
(***************************************************************************)
(* The second half of main: the options, the loop that gives each table    *)
(* its address, the compilation of the depacker for these addresses, the   *)
(* loop that writes the tables to one or two files, and the checks of the  *)
(* memory ranges at the very end.                                          *)
(*                                                                         *)
(* It extends Splitter, whose steps run between the options and the        *)
(* layout.  A file is the address in its header and a sequence of bytes.   *)
(***************************************************************************)
EXTENDS Splitter, DepackerShape, TableOrder

CONSTANTS Options,    \* the settings of a call, see Setting
          JunkAddrs   \* values of stack words nobody wrote

VARIABLES
  options,       \* the settings of this call
  lay_pc,        \* where main is outside of Splitter
  k,             \* index of both loops over the table order
  cur_address,
  table_at,      \* the variables table_depack, table_argtable, ...
  part1_start, part1_end, part2_start, part2_end,
  compiled_program,
  current,       \* the file the write loop writes to
  files

partVars == <<part1_start, part1_end, part2_start, part2_end>>
layoutVars == <<cur_address, table_at, partVars>>
outputVars == <<compiled_program, current, files>>
layVars == <<options, lay_pc, k, layoutVars, outputVars>>
lvars == <<mainVars, layVars>>

-----------------------------------------------------------------------------
Setting == [order : Seq(Char), tempaddr : Nat, tempaddr2 : Nat,
            zpaddr : Nat, do_split : BOOLEAN]

ASSUME LayoutAssumption ==
  /\ Options \subseteq Setting
  /\ JunkAddrs \subseteq Nat
  /\ ADDR_LIMIT = PAGE * PAGE

ValidOptions ==
  /\ ValidOrder(options.order)
  /\ ValidTempaddr(options.tempaddr)
  /\ options.tempaddr2 = 0 \/ ValidTempaddr(options.tempaddr2)
  /\ ValidZpaddr(options.zpaddr)

-----------------------------------------------------------------------------
(***************************************************************************)
(* The depacker as gen_decruncher assembles it.  Its instructions are the  *)
(* business of module Depacker; here a byte of them is CODE, which is no   *)
(* byte of a table.  The bytes that matter are the high byte of the store  *)
(* instruction that the depacker increments, and the twelve bytes of       *)
(* table_of_tables at its end.                                             *)
(***************************************************************************)
CODE == PAGE + 1

count_depack == DepackerLength(eof_marker, PAGE)

smc_offset == SmcOffset(count_depack)
tables_offset == TablesOffset(count_depack)

\* Mutant: the tables for the bytes of addresses change places.
PointerOrderSwapped == <<"h", "l", "i", "r", "z", "o">>

PointerOrder == <<"l", "h", "i", "r", "z", "o">>

HighByte(a) == (a \div PAGE) % PAGE

\* The n-th byte of table_of_tables, counted from 0.
PointerByte(n) ==
  LET a == table_at[PointerOrder[(n \div 2) + 1]]
  IN IF n % 2 = 0 THEN a % PAGE ELSE HighByte(a)

Decruncher ==
  [n \in 1 .. count_depack |->
     CASE n - 1 = smc_offset     -> HighByte(program_addr)
       [] n - 1 >= tables_offset -> PointerByte(n - 1 - tables_offset)
       [] OTHER                  -> CODE]

\* The assembler refuses an operand that is too large: the end of the program
\* in the longer end check, and the addresses of three bytes instructions.
CompileFails ==
  \/ eof_marker = PAGE /\ program_addr + real_program_len >= ADDR_LIMIT
  \/ table_at["d"] + tables_offset >= ADDR_LIMIT
  \/ table_at["t"] < argtable_start
  \/ table_at["t"] - argtable_start >= ADDR_LIMIT

-----------------------------------------------------------------------------
Size(id) ==
  CASE id = "d" -> count_depack
    [] id = "t" -> count_argtable
    [] OTHER    -> Len(data[id])

Content(id) ==
  CASE id = "d" -> compiled_program
    [] id = "t" -> [n \in 1 .. count_argtable |->
                      data_argtable[argtable_start + n - 1]]
    [] OTHER    -> data[id]

NoFile == [addr |-> 0, bytes |-> <<>>]

InitLayout ==
  /\ options \in Options
  /\ lay_pc = "options"
  /\ k = 1
  /\ cur_address = 0
  /\ table_at \in {[id \in Id |-> junk] : junk \in JunkAddrs}
  /\ part1_start = 0 /\ part1_end = 0
  /\ part2_start = 0 /\ part2_end = 0
  /\ compiled_program = <<>>
  /\ current = 1
  /\ files = [f \in 1 .. 2 |-> NoFile]

CheckOptions ==
  /\ lay_pc = "options"
  /\ lay_pc' = IF ValidOptions THEN "packing" ELSE "rejected"
  /\ UNCHANGED <<mainVars, options, k, layoutVars, outputVars>>

\* The steps of Splitter.
Pack ==
  /\ lay_pc = "packing"
  /\ NextMain
  /\ UNCHANGED layVars

\* main has rejected the program.
Reject ==
  /\ lay_pc = "packing"
  /\ main_pc = "failed"
  /\ lay_pc' = "rejected"
  /\ UNCHANGED <<mainVars, options, k, layoutVars, outputVars>>

BeginLayout ==
  /\ lay_pc = "packing"
  /\ main_pc = "tables"
  /\ lay_pc' = "layout"
  /\ cur_address' = options.tempaddr
  /\ part1_start' = options.tempaddr /\ part1_end' = 0
  /\ part2_start' = options.tempaddr /\ part2_end' = 0
  /\ UNCHANGED <<mainVars, options, k, table_at, outputVars>>

-----------------------------------------------------------------------------
\* The two loops go through the table order.
AtEntry(pc) == lay_pc = pc /\ k <= TABLE_ORDER_LENGTH
AtLoopEnd(pc) == lay_pc = pc /\ k > TABLE_ORDER_LENGTH
Entry == options.order[k]

NextEntry == k' = k + 1 /\ UNCHANGED <<mainVars, options, lay_pc>>

PlaceTable ==
  /\ AtEntry("layout")
  /\ Entry \in Id
  /\ table_at' = [table_at EXCEPT ![Entry] = cur_address]
  /\ cur_address' = cur_address + Size(Entry)
  /\ NextEntry
  /\ UNCHANGED <<partVars, outputVars>>

PlaceSeparator ==
  /\ AtEntry("layout")
  /\ Entry = "."
  /\ options.do_split
  /\ part1_end' = cur_address
  /\ part2_start' = IF options.tempaddr2 # 0 THEN options.tempaddr2
                    ELSE cur_address
  /\ cur_address' = part2_start'
  /\ NextEntry
  /\ UNCHANGED <<table_at, part1_start, part2_end, outputVars>>

\* An entry without effect: a character that is no case of the switch, or the
\* separator when there is one file.
SkipEntry(pc) ==
  /\ AtEntry(pc)
  /\ Entry \notin Id
  /\ Entry = "." => ~options.do_split
  /\ NextEntry
  /\ UNCHANGED <<layoutVars, outputVars>>

\* The end of the layout, and the depacker compiled for it, which must be as
\* long as it was when it was measured.
Compile ==
  /\ AtLoopEnd("layout")
  /\ IF options.do_split
       THEN part2_end' = cur_address /\ UNCHANGED part1_end
       ELSE part1_end' = cur_address /\ UNCHANGED part2_end
  /\ IF CompileFails \/ Len(Decruncher) # count_depack
       THEN lay_pc' = "rejected" /\ UNCHANGED compiled_program
       ELSE lay_pc' = "open" /\ compiled_program' = Decruncher
  /\ UNCHANGED <<mainVars, options, k, cur_address, table_at,
                 part1_start, part2_start, current, files>>

-----------------------------------------------------------------------------
\* Open the first file, write its header, then the second one.
OpenOutputs ==
  /\ lay_pc = "open"
  /\ files' = [f \in 1 .. 2 |->
                 CASE f = 1            -> [addr |-> part1_start, bytes |-> <<>>]
                   [] options.do_split /\ f = 2
                                       -> [addr |-> part2_start, bytes |-> <<>>]
                   [] OTHER            -> NoFile]
  /\ lay_pc' = "write"
  /\ k' = 1
  /\ UNCHANGED <<mainVars, options, layoutVars, compiled_program, current>>

WriteTable ==
  /\ AtEntry("write")
  /\ Entry \in Id
  /\ files' = [files EXCEPT ![current].bytes = @ \o Content(Entry)]
  /\ NextEntry
  /\ UNCHANGED <<layoutVars, compiled_program, current>>

\* Mutant: all tables are written to the first file.
SwitchFileKeeps ==
  /\ AtEntry("write")
  /\ Entry = "."
  /\ options.do_split
  /\ NextEntry
  /\ UNCHANGED <<layoutVars, outputVars>>

SwitchFile ==
  /\ AtEntry("write")
  /\ Entry = "."
  /\ options.do_split
  /\ current' = 2
  /\ NextEntry
  /\ UNCHANGED <<layoutVars, compiled_program, files>>

\* A file cannot be opened, or a write is short.
OutputFails ==
  /\ lay_pc = "open" \/ AtEntry("write")
  /\ lay_pc' = "rejected"
  /\ UNCHANGED <<mainVars, options, k, layoutVars, outputVars>>

\* Mutant: only the range that starts first is looked at.
OverlapsOneWay(s1, e1, s2, e2) == s1 <= s2 /\ e1 > s2

\* What main calls overlapping.
Overlaps(s1, e1, s2, e2) ==
  \/ s1 <= s2 /\ e1 > s2
  \/ s1 >= s2 /\ e2 > s1

program_end == program_addr + real_program_len

\* The files are written by now.
CheckSpaces ==
  /\ AtLoopEnd("write")
  /\ lay_pc' =
       IF \/ Overlaps(part1_start, part1_end, program_addr, program_end)
          \/ options.do_split
               /\ Overlaps(program_addr, program_end, part2_start, part2_end)
          \/ part1_end > ADDR_LIMIT
          \/ part2_end > ADDR_LIMIT
          \/ options.do_split
               /\ Overlaps(part1_start, part1_end, part2_start, part2_end)
       THEN "rejected" ELSE "accepted"
  /\ UNCHANGED <<mainVars, options, k, layoutVars, outputVars>>

NextLayout ==
  \/ CheckOptions
  \/ Pack
  \/ Reject
  \/ BeginLayout
  \/ PlaceTable
  \/ PlaceSeparator
  \/ SkipEntry("layout")
  \/ Compile
  \/ OpenOutputs
  \/ WriteTable
  \/ SwitchFile
  \/ SkipEntry("write")
  \/ OutputFails
  \/ CheckSpaces

\* main has ended, or reads where nothing is defined.
Exited == lay_pc \in {"accepted", "rejected"} \/ main_pc = "undefined"

LayoutInit == InitMain /\ InitLayout

LayoutSpec ==
  /\ LayoutInit
  /\ [][NextLayout \/ (Exited /\ UNCHANGED lvars)]_lvars
  /\ WF_lvars(NextLayout)
-----------------------------------------------------------------------------
(***************************************************************************)
(* Properties.                                                             *)
(***************************************************************************)

LayoutTypeOK ==
  /\ options \in Options
  /\ lay_pc \in {"options", "packing", "layout", "open", "write",
                 "accepted", "rejected"}
  /\ k \in 1 .. TABLE_ORDER_LENGTH + 1
  /\ cur_address \in Nat
  /\ table_at \in [Id -> Nat]
  /\ part1_start \in Nat /\ part1_end \in Nat
  /\ part2_start \in Nat /\ part2_end \in Nat
  /\ compiled_program \in Seq(0 .. CODE)
  /\ current \in 1 .. 2
  /\ files \in [1 .. 2 -> [addr : Nat, bytes : Seq(0 .. CODE)]]

\* The ids that have a case in the switches of the two loops.
Placed == {options.order[n] : n \in 1 .. Len(options.order)} \cap Id

Apart(s1, e1, s2, e2) == e1 <= s2 \/ e2 <= s1

\* When main ends with success, the depacker and its tables lie in memory, do
\* not share a byte with each other, and none with the program and what the
\* depacker trashes behind it.
RangesApart ==
  lay_pc = "accepted" =>
    \A a \in Placed :
      LET s == table_at[a]
          e == s + Size(a)
      IN /\ e <= ADDR_LIMIT
         /\ Apart(s, e, program_addr, program_end)
         /\ \A b \in Placed \ {a} :
              Apart(s, e, table_at[b], table_at[b] + Size(b))

\* f loaded at the address in its header puts table id at its address.
Holds(f, id) ==
  LET offset == table_at[id] - f.addr
  IN /\ f.addr <= table_at[id]
     /\ offset + Size(id) <= Len(f.bytes)
     /\ SubSeq(f.bytes, offset + 1, offset + Size(id)) = Content(id)

\* When main ends with success, loading the files puts every table where the
\* compiled depacker looks for it: the write loop goes the way of the layout
\* loop, and changes the file where that one changed the part.
FilesHoldTables ==
  lay_pc = "accepted" =>
    /\ \A id \in Placed : \E f \in {1, 2} : Holds(files[f], id)
    /\ Len(files[1].bytes) = part1_end - part1_start
    /\ options.do_split => Len(files[2].bytes) = part2_end - part2_start
    /\ ~options.do_split => files[2] = NoFile

\* README.md, line 82, on -O: the characters of the list are accepted "just in any
\* order", and each names a table; so none is left without an address.
EveryTablePlaced ==
  lay_pc = "accepted" => Placed = Id
=============================================================================
