---------------------------- MODULE LayoutTheorems ----------------------------
(***************************************************************************)
(* What is proved of the layout, for every byte size, opcode table,        *)
(* program and setting: where the tables lie when main ends with success,  *)
(* and that the files put them there.                                      *)
(***************************************************************************)
EXTENDS Depacker, FiniteSetTheorems, SequenceTheorems, TLAPS

-----------------------------------------------------------------------------
(***************************************************************************)
(* The types of the first half of main, of which the layout sees only the  *)
(* lengths and the contents of the tables.                                 *)
(***************************************************************************)
SplitterOK ==
  /\ program_addr \in Nat
  /\ body \in Seq(Byte)
  /\ program_len \in Nat
  /\ main_pc \notin {"read", "failed"} => program_data \in [0 .. program_len + 1 -> Byte]
  /\ i \in Nat
  /\ used_opcodes \in SUBSET Byte
  /\ data \in [Table -> Seq(Byte)]
  /\ eof_marker \in 0 .. PAGE
  /\ argtable_start \in Nat
  /\ count_argtable \in Nat
  /\ argtable_start + count_argtable <= PAGE

\* The end marker, if there is one, is a byte.
LEMMA PageFacts ==
  /\ PAGE \in Nat /\ PAGE >= 22 /\ ADDR_LIMIT \in Nat /\ ADDR_LIMIT = PAGE * PAGE
  /\ 0 \in Byte /\ Byte \subseteq Nat
  /\ \A m \in 0 .. PAGE : m # PAGE => m \in Byte
  BY PageAssumption, SizeAssumption, LayoutAssumption DEF Byte

LEMMA SplitterInit == InitMain => SplitterOK
  BY FileAssumption, PageFacts DEF InitMain, SplitterOK

\* Appending bytes to tables.
LEMMA TableAppended ==
  ASSUME NEW d \in [Table -> Seq(Byte)], NEW t \in Table, NEW b \in Byte
  PROVE  [d EXCEPT ![t] = Append(@, b)] \in [Table -> Seq(Byte)]
  OBVIOUS

\* What the head of the split loop knows.
LEMMA SplitFacts ==
  ASSUME SplitterOK, TakeOpcode
  PROVE  /\ Opcode \in Byte
         /\ \A n \in 1 .. 2 : i + n <= program_len + 1 => program_data[i + n] \in Byte
         /\ i + 1 <= program_len + 1
         /\ i + 2 <= program_len + 1
         /\ main_pc = "split" /\ main_pc' = "split"
         /\ used_opcodes' \in SUBSET Byte
         /\ UNCHANGED <<program_addr, body, program_len, program_data, eof_marker,
                        argtable_start, count_argtable>>
<1>1. /\ program_data \in [0 .. program_len + 1 -> Byte]
      /\ i \in Nat /\ program_len \in Nat /\ i < program_len
  BY DEF SplitterOK, TakeOpcode
<1>2. Opcode \in Byte
  BY <1>1 DEF Opcode
<1>3. \A n \in 1 .. 2 : i + n <= program_len + 1 => program_data[i + n] \in Byte
  BY <1>1
<1> QED BY <1>1, <1>2, <1>3
     DEF SplitterOK, TakeOpcode, fileVars, loadVars, tableVars

\* A step of the first half keeps the types.
LEMMA SplitterHolds ==
  ASSUME SplitterOK, NextMain
  PROVE  SplitterOK'
<1>0. "o" \in Table /\ "l" \in Table /\ "h" \in Table /\ "i" \in Table
      /\ "r" \in Table /\ "z" \in Table
  BY DEF Table
<1>1. CASE ReadProgram
  <2> DEFINE n == IF Len(body) < MAX_PRG_SIZE THEN Len(body) ELSE MAX_PRG_SIZE
             lo == program_addr % PAGE
             hi == (program_addr \div PAGE) % PAGE
  <2>1. PICK junk \in [0 .. 1 -> JunkBytes] :
          /\ program_len' = n
          /\ program_data' = [x \in 0 .. n + 1 |-> BufferByte(n, x, lo, hi, junk)]
    BY <1>1 DEF ReadProgram
  <2>2. n \in Nat /\ n <= Len(body) /\ Len(body) \in Nat
    BY SizeAssumption DEF SplitterOK
  <2>3. lo \in Byte /\ hi \in Byte
    <3>1. program_addr \div PAGE \in Int
      BY PageFacts DEF SplitterOK
    <3> QED BY <3>1, PageFacts DEF SplitterOK, Byte
  <2>4. \A x \in 0 .. 1 : junk[x] \in Byte
    BY FileAssumption
  <2> HIDE DEF lo, hi, n
  <2>5. ASSUME NEW x \in 0 .. n + 1
        PROVE  BufferByte(n, x, lo, hi, junk) \in Byte
    <3>1. CASE x < n
      <4>1. x + 1 \in 1 .. Len(body)
        BY <2>2, <3>1
      <4>2. body[x + 1] \in Byte
        BY <4>1 DEF SplitterOK
      <4> QED BY <2>2, <3>1, <4>2 DEF BufferByte
    <3>2. CASE x >= n /\ x \in {0, 1}
      BY <2>2, <2>3, <3>2 DEF BufferByte
    <3>3. CASE x >= n /\ x > 1
      BY <2>2, <2>4, <3>3 DEF BufferByte
    <3> QED BY <2>2, <3>1, <3>2, <3>3
  <2>6. program_data' \in [0 .. program_len' + 1 -> Byte]
    BY <2>1, <2>5
  <2> QED BY <1>1, <2>1, <2>2, <2>6
       DEF ReadProgram, SplitterOK, fileVars, splitVars, tableVars
<1>2. CASE SplitNone
  <2>1. data' \in [Table -> Seq(Byte)] /\ i' \in Nat
    BY <1>0, <1>2, SplitFacts, TableAppended DEF SplitNone, SplitterOK
  <2> QED BY <1>2, <2>1, SplitFacts DEF SplitNone, SplitterOK
<1>3. ASSUME NEW t \in Table \ {"o"}, NEW m, SplitOne(t, m)
      PROVE  SplitterOK'
  <2>1. /\ TakeOpcode /\ i' = i + 2
        /\ data' = [data EXCEPT !["o"] = Append(@, Opcode),
                                ![t]   = Append(@, program_data[i + 1])]
    BY <1>3 DEF SplitOne
  <2>2. Opcode \in Byte /\ program_data[i + 1] \in Byte
    BY <2>1, SplitFacts
  <2>3. data' \in [Table -> Seq(Byte)] /\ i' \in Nat
    <3> DEFINE d1 == [data EXCEPT !["o"] = Append(@, Opcode)]
               d2 == [d1 EXCEPT ![t] = Append(@, program_data[i + 1])]
    <3>1. d1 \in [Table -> Seq(Byte)]
      BY <1>0, <2>2, TableAppended DEF SplitterOK
    <3>2. data' = d2
      BY <1>0, <2>1 DEF SplitterOK
    <3> HIDE DEF d1
    <3>3. d2 \in [Table -> Seq(Byte)]
      BY <2>2, <3>1, TableAppended
    <3>4. i' \in Nat
      BY <2>1 DEF SplitterOK
    <3> QED BY <3>2, <3>3, <3>4
  <2> QED BY <2>1, <2>3, SplitFacts DEF SplitterOK
<1>4. CASE SplitAbs
  <2>1. /\ TakeOpcode /\ i' = i + 3
        /\ data' = [data EXCEPT !["o"] = Append(@, Opcode),
                                !["l"] = Append(@, program_data[i + 1]),
                                !["h"] = Append(@, program_data[i + 2])]
    BY <1>4 DEF SplitAbs
  <2>2. Opcode \in Byte /\ program_data[i + 1] \in Byte /\ program_data[i + 2] \in Byte
    BY <2>1, SplitFacts
  <2>3. data' \in [Table -> Seq(Byte)] /\ i' \in Nat
    <3> DEFINE d1 == [data EXCEPT !["o"] = Append(@, Opcode)]
               d2 == [d1 EXCEPT !["l"] = Append(@, program_data[i + 1])]
               d3 == [d2 EXCEPT !["h"] = Append(@, program_data[i + 2])]
    <3>1. d1 \in [Table -> Seq(Byte)]
      BY <1>0, <2>2, TableAppended DEF SplitterOK
    <3>2. data' = d3
      BY <2>1
    <3> HIDE DEF d1
    <3>3. d2 \in [Table -> Seq(Byte)]
      BY <1>0, <2>2, <3>1, TableAppended
    <3> HIDE DEF d2
    <3>4. d3 \in [Table -> Seq(Byte)]
      BY <1>0, <2>2, <3>3, TableAppended
    <3>5. i' \in Nat
      BY <2>1 DEF SplitterOK
    <3> QED BY <3>2, <3>4, <3>5
  <2> QED BY <2>1, <2>3, SplitFacts DEF SplitterOK
<1>5. CASE PlaceEofMarker
  <2>1. PICK m \in 0 .. PAGE :
          /\ eof_marker' = m
          /\ data' = IF m = PAGE THEN data
                     ELSE [data EXCEPT !["o"] = Append(@, m)]
    BY <1>5 DEF PlaceEofMarker
  <2>2. data' \in [Table -> Seq(Byte)]
    BY <1>0, <2>1, PageFacts DEF SplitterOK
  <2> QED BY <1>5, <2>1, <2>2 DEF PlaceEofMarker, SplitterOK, fileVars, loadVars
<1>6. CASE TrimArgtable
  <2>1. PICK first, last \in used_opcodes :
          /\ \A b \in used_opcodes : first <= b /\ b <= last
          /\ argtable_start' = first
          /\ count_argtable' = last + 1 - first
    BY <1>6 DEF TrimArgtable
  <2>2. first \in Nat /\ last \in Nat /\ first <= last /\ last <= PAGE - 1
    BY <2>1, PageFacts DEF SplitterOK, Byte
  <2>3. /\ argtable_start' \in Nat /\ count_argtable' \in Nat
        /\ argtable_start' + count_argtable' <= PAGE
    BY <2>1, <2>2, PageFacts
  <2> QED BY <1>6, <2>3
       DEF TrimArgtable, SplitterOK, fileVars, loadVars, splitVars
<1>7. CASE TrimRunsWild \/ ReadFails
  BY <1>7 DEF TrimRunsWild, ReadFails, SplitterOK, fileVars, loadVars, splitVars, tableVars
<1> QED BY <1>0, <1>1, <1>2, <1>3, <1>4, <1>5, <1>6, <1>7 DEF NextMain

LEMMA SplitterKept ==
  ASSUME SplitterOK, UNCHANGED mainVars
  PROVE  SplitterOK'
  BY DEF SplitterOK, mainVars, fileVars, loadVars, splitVars, tableVars

-----------------------------------------------------------------------------
(***************************************************************************)
(* Sizes and contents of the tables.                                       *)
(***************************************************************************)
LEMMA SizeFacts ==
  ASSUME SplitterOK
  PROVE  /\ count_depack \in {68, 70, 77}
         /\ \A id \in Id : Size(id) \in Nat
<1>1. count_depack \in {68, 70, 77}
  BY DEF count_depack, DepackerLength
<1>2. \A id \in Table : Len(data[id]) \in Nat
  BY DEF SplitterOK
<1> QED BY <1>1, <1>2 DEF Size, Id, SplitterOK

\* A byte of table_of_tables is a byte.
LEMMA PointerByteOK ==
  ASSUME table_at \in [Id -> Nat], NEW n \in 0 .. 11
  PROVE  PointerByte(n) \in Byte
<1> DEFINE m == (n \div 2) + 1
<1>1. m \in 1 .. 6
  OBVIOUS
<1>2. PointerOrder[m] \in Id
  BY <1>1 DEF PointerOrder, Id, Table
<1> DEFINE a == table_at[PointerOrder[m]]
<1>3. a \in Nat
  BY <1>2
<1>4. a % PAGE \in Byte /\ HighByte(a) \in Byte
  <2>1. a \div PAGE \in Int
    BY <1>3, PageFacts
  <2> HIDE DEF a
  <2> QED BY <1>3, <2>1, PageFacts DEF HighByte, Byte
<1> QED BY <1>4 DEF PointerByte

\* A function on 1 .. n is a sequence of length n.
LEMMA FunctionIsSeq ==
  ASSUME NEW n \in Nat, NEW S, NEW f \in [1 .. n -> S]
  PROVE  f \in Seq(S) /\ Len(f) = n
<1>1. f \in Seq(S)
  BY SeqDef
<1> QED BY <1>1, LenProperties

LEMMA DecruncherOK ==
  ASSUME SplitterOK, table_at \in [Id -> Nat]
  PROVE  /\ Decruncher \in Seq(0 .. CODE)
         /\ Len(Decruncher) = count_depack
<1>1. /\ count_depack \in Nat
      /\ tables_offset = count_depack - 12 /\ tables_offset \in Nat
  BY SizeFacts DEF tables_offset, TablesOffset
<1>2. Byte \subseteq 0 .. CODE /\ CODE \in 0 .. CODE
  BY PageFacts DEF Byte, CODE
<1>3. HighByte(program_addr) \in Byte
  <2>1. program_addr \div PAGE \in Int
    BY PageFacts DEF SplitterOK
  <2> QED BY <2>1, PageFacts DEF HighByte, Byte
<1>4. \A n \in 1 .. count_depack :
        n - 1 >= tables_offset => PointerByte(n - 1 - tables_offset) \in Byte
  BY <1>1, PointerByteOK
<1>5. \A n \in 1 .. count_depack : Decruncher[n] \in 0 .. CODE
  BY <1>2, <1>3, <1>4 DEF Decruncher
<1>6. Decruncher \in [1 .. count_depack -> 0 .. CODE]
  BY <1>5 DEF Decruncher
<1> QED BY <1>1, <1>6, FunctionIsSeq

LEMMA ContentOK ==
  ASSUME SplitterOK, compiled_program \in Seq(0 .. CODE),
         Len(compiled_program) = count_depack, NEW id \in Id
  PROVE  /\ Content(id) \in Seq(0 .. CODE)
         /\ Len(Content(id)) = Size(id)
<1>1. Byte \subseteq 0 .. CODE
  BY PageFacts DEF Byte, CODE
<1>2. CASE id = "d"
  BY <1>2 DEF Content, Size
<1>3. CASE id = "t"
  <2>1. \A b \in Byte : data_argtable[b] \in Byte
    <3>1. \A b \in Byte : opcode_to_mode[b] \in Nat
      BY ModeAssumption, PageFacts
         DEF Mode, MODEabs, MODEimm, MODErel, MODEzp, MODEimpl, MODEjam
    <3>2. \A m \in Nat : m % PAGE \in Byte
      BY PageFacts DEF Byte
    <3> QED BY <3>1, <3>2, PageFacts DEF data_argtable
  <2>2. \A n \in 1 .. count_argtable : argtable_start + n - 1 \in Byte
    BY PageFacts DEF SplitterOK, Byte
  <2>3. Content(id) \in [1 .. count_argtable -> 0 .. CODE]
    BY <1>1, <1>3, <2>1, <2>2 DEF Content
  <2>4. Size(id) = count_argtable /\ count_argtable \in Nat
    BY <1>3 DEF Size, SplitterOK
  <2> QED BY <2>3, <2>4, FunctionIsSeq
<1>4. CASE id \in Table
  <2>1. id # "d" /\ id # "t"
    BY <1>4 DEF Table
  <2>2. data[id] \in Seq(Byte)
    BY <1>4 DEF SplitterOK
  <2>3. data[id] \in Seq(0 .. CODE)
    BY <1>1, <2>2, SeqMonotonic
  <2> QED BY <2>1, <2>3 DEF Content, Size
<1> QED BY <1>2, <1>3, <1>4 DEF Id

\* They do not change any more when main lays the tables out.
LEMMA SizeKept ==
  ASSUME UNCHANGED mainVars
  PROVE  /\ \A id \in Id : Size(id)' = Size(id)
         /\ count_depack' = count_depack
         /\ program_end' = program_end
<1>1. /\ eof_marker' = eof_marker /\ count_argtable' = count_argtable
      /\ data' = data /\ program_addr' = program_addr
  BY DEF mainVars, fileVars, splitVars, tableVars
<1>2. count_depack' = count_depack
  BY <1>1 DEF count_depack
<1> QED BY <1>1, <1>2 DEF Size, program_end, real_program_len

LEMMA ContentKept ==
  ASSUME UNCHANGED mainVars, compiled_program' = compiled_program
  PROVE  \A id \in Id : Content(id)' = Content(id)
<1>1. /\ argtable_start' = argtable_start /\ count_argtable' = count_argtable
      /\ data' = data /\ used_opcodes' = used_opcodes
  BY DEF mainVars, splitVars, tableVars
<1>2. data_argtable' = data_argtable
  BY <1>1 DEF data_argtable
<1> QED BY <1>1, <1>2 DEF Content

-----------------------------------------------------------------------------
(***************************************************************************)
(* The order of the tables.  ValidOrder asks for nine entries of which     *)
(* each of nine characters is one, so no character is there twice.         *)
(***************************************************************************)
Listed == Id \cup {"."}

LEMMA ListedCount == IsFiniteSet(Listed) /\ Cardinality(Listed) = 9
<1> DEFINE f == [n \in 1 .. 9 |-> CASE n = 1 -> "d" [] n = 2 -> "o" [] n = 3 -> "."
                                     [] n = 4 -> "t" [] n = 5 -> "l" [] n = 6 -> "i"
                                     [] n = 7 -> "r" [] n = 8 -> "z" [] OTHER -> "h"]
<1>1. f \in [1 .. 9 -> Listed]
  BY DEF Listed, Id, Table
<1>2. \A m, n \in 1 .. 9 : f[m] = f[n] => m = n
  OBVIOUS
<1>3. \A x \in Listed : \E n \in 1 .. 9 : f[n] = x
  <2>1. /\ f[1] = "d" /\ f[2] = "o" /\ f[3] = "." /\ f[4] = "t" /\ f[5] = "l"
        /\ f[6] = "i" /\ f[7] = "r" /\ f[8] = "z" /\ f[9] = "h"
    OBVIOUS
  <2> HIDE DEF f
  <2> QED BY <2>1 DEF Listed, Id, Table
<1> HIDE DEF f
<1>4. f \in Bijection(1 .. 9, Listed)
  BY <1>1, <1>2, <1>3 DEF Bijection, Injection, Surjection, IsInjective
<1>5. ExistsBijection(1 .. 9, Listed)
  BY <1>4 DEF ExistsBijection
<1> QED BY <1>5, FS_NatBijection, FS_CountingElements

\* A character is found for one of the characters of the list only.
LEMMA LettersDiffer ==
  ASSUME NEW c, NEW x \in Listed, NEW y \in Listed,
         SameLetter(c, x), SameLetter(c, y)
  PROVE  x = y
  BY DEF Listed, SameLetter, Id, Table, Upper

\* One of n + 1 elements is taken away.
LEMMA OneLess ==
  ASSUME NEW S, IsFiniteSet(S), NEW x \in S, NEW n \in Nat, Cardinality(S) = n + 1
  PROVE  IsFiniteSet(S \ {x}) /\ Cardinality(S \ {x}) = n
<1>1. IsFiniteSet(S \ {x}) /\ Cardinality(S \ {x}) = Cardinality(S) - 1
  BY FS_RemoveElement, Zenon
<1> QED BY <1>1

LEMMA PlacesCount == IsFiniteSet(1 .. 9) /\ Cardinality(1 .. 9) = 9
<1>1. 1 \in Int /\ 9 \in Int /\ ~(1 > 9) /\ 9 - 1 + 1 = 9
  OBVIOUS
<1>2. IsFiniteSet(1 .. 9) /\ Cardinality(1 .. 9) = IF 1 > 9 THEN 0 ELSE 9 - 1 + 1
  BY <1>1, FS_Interval, Zenon
<1> QED BY <1>1, <1>2

\* The places of a valid order hold different characters of the list.
LEMMA EntriesDiffer ==
  ASSUME NEW order, ValidOrder(order),
         NEW p \in 1 .. TABLE_ORDER_LENGTH, NEW q \in 1 .. TABLE_ORDER_LENGTH,
         p # q, order[p] \in Listed
  PROVE  order[p] # order[q]
<1> SUFFICES ASSUME order[p] = order[q] PROVE FALSE
  OBVIOUS
<1> DEFINE x0 == order[p]
           S == Listed \ {x0}
           T == ((1 .. 9) \ {p}) \ {q}
           f == [x \in S |-> CHOOSE n \in 1 .. 9 : SameLetter(order[n], x)]
<1>1. p \in 1 .. 9 /\ q \in 1 .. 9
  BY DEF TABLE_ORDER_LENGTH
<1>2. IsFiniteSet(S) /\ Cardinality(S) = 8
  <2>1. IsFiniteSet(Listed) /\ Cardinality(Listed) = 8 + 1 /\ x0 \in Listed
    BY ListedCount
  <2> HIDE DEF x0
  <2> QED BY <2>1, OneLess
<1>3. IsFiniteSet((1 .. 9) \ {p}) /\ Cardinality((1 .. 9) \ {p}) = 8
  BY <1>1, PlacesCount, OneLess
<1>4. IsFiniteSet(T) /\ Cardinality(T) = 7
  <2> DEFINE U == (1 .. 9) \ {p}
  <2>1. IsFiniteSet(U) /\ Cardinality(U) = 7 + 1 /\ q \in U
    BY <1>1, <1>3
  <2> HIDE DEF U
  <2>2. IsFiniteSet(U \ {q}) /\ Cardinality(U \ {q}) = 7
    BY <2>1, OneLess
  <2> QED BY <2>2 DEF U
<1>5. Cardinality(T) < Cardinality(S)
  BY <1>2, <1>4
<1>6. ASSUME NEW x \in S
      PROVE  f[x] \in T /\ SameLetter(order[f[x]], x)
  <2>1. \E n \in 1 .. 9 : SameLetter(order[n], x)
    BY DEF ValidOrder, Listed, TABLE_ORDER_LENGTH
  <2>2. f[x] \in 1 .. 9 /\ SameLetter(order[f[x]], x)
    BY <2>1
  <2>3. ~SameLetter(x0, x)
    BY LettersDiffer DEF SameLetter
  <2> QED BY <2>2, <2>3
<1>7. f \in [S -> T]
  BY <1>6
<1>8. \E x, y \in S : x # y /\ f[x] = f[y]
  <2> HIDE DEF f, S, T
  <2>1. \A g \in [S -> T] : \E x, y \in S : x # y /\ g[x] = g[y]
    BY <1>2, <1>4, <1>5, FS_PigeonHole
  <2> QED BY <1>7, <2>1
<1> QED BY <1>6, <1>8, LettersDiffer

-----------------------------------------------------------------------------
(***************************************************************************)
(* The inductive invariant of the layout loop.  Done are the tables that   *)
(* have their address, and Passed says that the loop is in the second      *)
(* part.  Each of the tables lies in the part it was placed in, and two of *)
(* them that may share a byte lie in different parts: only those main      *)
(* compares, at its end.                                                   *)
(***************************************************************************)
Laying == lay_pc \in {"layout", "open", "write", "accepted"}
Compiled == lay_pc \in {"open", "write", "accepted"}

Upto == IF lay_pc = "layout" THEN k ELSE TABLE_ORDER_LENGTH + 1

Done == {options.order[n] : n \in 1 .. Upto - 1} \cap Id
Passed == options.do_split /\ \E n \in 1 .. Upto - 1 : options.order[n] = "."

Within(a, s, e) == s <= table_at[a] /\ table_at[a] + Size(a) <= e

End1 == IF Passed THEN part1_end ELSE cur_address

InPart1(a) == Within(a, part1_start, End1)
InPart2(a) == Passed /\ Within(a, part2_start, cur_address)

Separate(a, b) ==
  \/ Apart(table_at[a], table_at[a] + Size(a), table_at[b], table_at[b] + Size(b))
  \/ InPart1(a) /\ InPart2(b)
  \/ InPart2(a) /\ InPart1(b)

Settled ==
  /\ part1_start <= End1
  /\ Passed => part2_start <= cur_address
  /\ \A a \in Done : InPart1(a) \/ InPart2(a)
  /\ \A a, b \in Done : a # b => Separate(a, b)

Progressed ==
  /\ lay_pc \in {"options", "packing"} => k = 1
  /\ lay_pc \in {"options", "packing", "layout", "open"} => current = 1
  /\ lay_pc = "packing" \/ Laying => ValidOptions
  /\ Laying => main_pc = "tables"
  /\ Compiled => /\ Len(compiled_program) = count_depack
                 /\ IF options.do_split
                    THEN part2_end = cur_address /\ Passed
                    ELSE part1_end = cur_address
  /\ lay_pc = "accepted" =>
       /\ ~Overlaps(part1_start, part1_end, program_addr, program_end)
       /\ options.do_split =>
            /\ ~Overlaps(program_addr, program_end, part2_start, part2_end)
            /\ ~Overlaps(part1_start, part1_end, part2_start, part2_end)
       /\ part1_end <= ADDR_LIMIT /\ part2_end <= ADDR_LIMIT

LayInv == SplitterOK /\ LayoutTypeOK /\ Progressed /\ (Laying => Settled)

LEMMA OptionsFacts ==
  ASSUME LayoutTypeOK
  PROVE  /\ options.order \in Seq(Char) /\ options.do_split \in BOOLEAN
         /\ options.tempaddr \in Nat /\ options.tempaddr2 \in Nat
  BY LayoutAssumption DEF LayoutTypeOK, Setting

\* The initial states satisfy the invariant.
LEMMA LayInit == LayoutInit => LayInv
<1> SUFFICES ASSUME LayoutInit PROVE LayInv
  OBVIOUS
<1>1. SplitterOK
  BY SplitterInit DEF LayoutInit
<1>2. LayoutTypeOK
  <2>1. table_at \in [Id -> Nat]
    BY LayoutAssumption DEF LayoutInit, InitLayout
  <2>2. <<>> \in Seq(0 .. CODE)
    OBVIOUS
  <2> QED BY <2>1, <2>2
       DEF LayoutInit, InitLayout, LayoutTypeOK, NoFile, TABLE_ORDER_LENGTH
<1>3. Progressed /\ ~Laying
  BY DEF LayoutInit, InitLayout, Progressed, Laying, Compiled
<1> QED BY <1>1, <1>2, <1>3 DEF LayInv

\* A step from one entry to the next.
LEMMA DoneGrows ==
  ASSUME LayoutTypeOK, AtEntry("layout"), NextEntry
  PROVE  /\ Done' = Done \cup ({Entry} \cap Id)
         /\ Passed' <=> Passed \/ (options.do_split /\ Entry = ".")
         /\ k' \in 1 .. TABLE_ORDER_LENGTH + 1 /\ Upto = k /\ Upto' = k + 1
<1>1. /\ lay_pc = "layout" /\ lay_pc' = "layout" /\ k' = k + 1
      /\ k \in 1 .. TABLE_ORDER_LENGTH /\ options' = options
  BY DEF AtEntry, NextEntry, LayoutTypeOK, TABLE_ORDER_LENGTH
<1>2. Upto = k /\ Upto' = k + 1
  BY <1>1 DEF Upto
<1>3. 1 .. Upto' - 1 = (1 .. Upto - 1) \cup {k}
  BY <1>1, <1>2 DEF TABLE_ORDER_LENGTH
<1>4. Done' = Done \cup ({Entry} \cap Id)
  BY <1>1, <1>3 DEF Done, Entry
<1>5. Passed' <=> Passed \/ (options.do_split /\ Entry = ".")
  BY <1>1, <1>3 DEF Passed, Entry
<1> QED BY <1>1, <1>2, <1>4, <1>5 DEF TABLE_ORDER_LENGTH

\* Nothing moves.
LEMMA SettledKept ==
  ASSUME SplitterOK, Settled, UNCHANGED mainVars,
         UNCHANGED <<options, cur_address, table_at, part1_start, part2_start>>,
         Done' = Done, Passed' <=> Passed, Passed => part1_end' = part1_end
  PROVE  Settled'
<1>1. \A a \in Done : a \in Id /\ Size(a)' = Size(a)
  BY SizeKept DEF Done
<1>2. End1' = End1
  BY DEF End1
<1>3. \A a \in Done : (InPart1(a)' <=> InPart1(a)) /\ (InPart2(a)' <=> InPart2(a))
  BY <1>1, <1>2 DEF InPart1, InPart2, Within
<1>4. \A a, b \in Done : Separate(a, b)' <=> Separate(a, b)
  BY <1>1, <1>3 DEF Separate, Apart
<1> QED BY <1>2, <1>3, <1>4 DEF Settled

-----------------------------------------------------------------------------
(***************************************************************************)
(* The steps up to the end of the layout loop.                             *)
(***************************************************************************)
LEMMA CheckOptionsHolds == ASSUME LayInv, CheckOptions PROVE LayInv'
<1>1. SplitterOK'
  BY SplitterKept DEF LayInv, CheckOptions
<1>2. LayoutTypeOK'
  BY DEF LayInv, CheckOptions, LayoutTypeOK, layoutVars, partVars, outputVars
<1>3. ValidOptions' <=> ValidOptions
  BY DEF CheckOptions, ValidOptions
<1>4. Progressed' /\ ~Laying'
  BY <1>3 DEF LayInv, CheckOptions, Progressed, Laying, Compiled, outputVars
<1> QED BY <1>1, <1>2, <1>4 DEF LayInv

LEMMA PackHolds == ASSUME LayInv, Pack PROVE LayInv'
<1>1. SplitterOK'
  BY SplitterHolds DEF LayInv, Pack
<1>2. LayoutTypeOK'
  BY DEF LayInv, Pack, LayoutTypeOK, layVars, layoutVars, partVars, outputVars
<1>3. ValidOptions' <=> ValidOptions
  BY DEF Pack, ValidOptions, layVars
<1>4. Progressed' /\ ~Laying'
  BY <1>3 DEF LayInv, Pack, Progressed, Laying, Compiled, layVars, outputVars
<1> QED BY <1>1, <1>2, <1>4 DEF LayInv

LEMMA RejectHolds ==
  ASSUME LayInv, Reject \/ OutputFails
  PROVE  LayInv'
<1>1. /\ lay_pc' = "rejected"
      /\ UNCHANGED <<mainVars, options, k, layoutVars, outputVars>>
  BY DEF Reject, OutputFails
<1>2. SplitterOK'
  BY <1>1, SplitterKept DEF LayInv
<1>3. LayoutTypeOK'
  BY <1>1 DEF LayInv, LayoutTypeOK, layoutVars, partVars, outputVars
<1>4. Progressed' /\ ~Laying'
  BY <1>1 DEF Progressed, Laying, Compiled
<1> QED BY <1>2, <1>3, <1>4 DEF LayInv

LEMMA BeginLayoutHolds == ASSUME LayInv, BeginLayout PROVE LayInv'
<1>1. SplitterOK'
  BY SplitterKept DEF LayInv, BeginLayout
<1>2. LayoutTypeOK'
  BY OptionsFacts DEF LayInv, BeginLayout, LayoutTypeOK, outputVars
<1>3. ValidOptions' <=> ValidOptions
  BY DEF BeginLayout, ValidOptions
<1>4. main_pc' = main_pc
  BY DEF BeginLayout, mainVars
<1>5. Progressed'
  BY <1>3, <1>4 DEF LayInv, BeginLayout, Progressed, Laying, Compiled, outputVars
<1>6. Upto' = 1
  BY DEF LayInv, BeginLayout, Progressed, Upto
<1>7. Done' = {} /\ ~Passed'
  BY <1>6 DEF Done, Passed
<1>8. Settled'
  BY <1>7, OptionsFacts DEF LayInv, BeginLayout, Settled, End1
<1> QED BY <1>1, <1>2, <1>5, <1>8 DEF LayInv

LEMMA PlaceTableHolds == ASSUME LayInv, PlaceTable PROVE LayInv'
<1> PICK e \in Id : e = Entry
  BY DEF PlaceTable
<1>0. /\ AtEntry("layout") /\ e \in Id /\ e = Entry /\ NextEntry
      /\ table_at' = [table_at EXCEPT ![e] = cur_address]
      /\ cur_address' = cur_address + Size(e)
      /\ UNCHANGED <<partVars, outputVars>>
      /\ UNCHANGED <<mainVars, options, lay_pc>>
      /\ lay_pc = "layout"
  BY DEF PlaceTable, NextEntry, AtEntry
<1>1. SplitterOK'
  BY <1>0, SplitterKept DEF LayInv
<1>2. /\ Size(e) \in Nat /\ cur_address \in Nat /\ table_at \in [Id -> Nat]
      /\ part1_start \in Nat /\ part1_end \in Nat /\ part2_start \in Nat
      /\ cur_address' \in Nat /\ cur_address <= cur_address'
  BY <1>0, SizeFacts DEF LayInv, LayoutTypeOK
<1>3. /\ Done' = Done \cup {e} /\ (Passed' <=> Passed)
      /\ k' \in 1 .. TABLE_ORDER_LENGTH + 1
  <2>1. e # "."
    BY <1>0 DEF Id, Table
  <2> QED BY <1>0, <2>1, DoneGrows DEF LayInv
<1>4. LayoutTypeOK'
  BY <1>0, <1>2, <1>3 DEF LayInv, LayoutTypeOK, partVars, outputVars
<1>5. Progressed'
  <2>1. ValidOptions' <=> ValidOptions
    BY <1>0 DEF ValidOptions
  <2>2. main_pc' = main_pc
    BY <1>0 DEF mainVars
  <2> QED BY <1>0, <2>1, <2>2 DEF LayInv, Progressed, Laying, Compiled, outputVars
<1>6. Settled'
  <2>0. Settled
    BY <1>0 DEF LayInv, Laying
  <2>1. /\ table_at'[e] = cur_address /\ Size(e)' = Size(e)
        /\ \A a \in Done : /\ a \in Id /\ Size(a)' = Size(a)
                           /\ table_at[a] \in Nat /\ Size(a) \in Nat
                           /\ a # e => table_at'[a] = table_at[a]
    BY <1>0, <1>2, SizeKept, SizeFacts DEF Done, LayInv
  <2>2. part1_start' = part1_start /\ part1_end' = part1_end /\ part2_start' = part2_start
    BY <1>0 DEF partVars
  <2>3. End1 <= End1' /\ part1_start <= End1 /\ End1 \in Nat /\ End1' \in Nat
    BY <1>2, <1>3, <2>0, <2>2 DEF End1, Settled
  <2>4. ASSUME NEW a \in Done, a # e
        PROVE  /\ InPart1(a) => InPart1(a)'
               /\ InPart2(a) => InPart2(a)'
    BY <1>2, <1>3, <2>1, <2>2, <2>3, <2>4 DEF InPart1, InPart2, Within
  <2>5. ASSUME NEW a \in Done, a # e
        PROVE  InPart1(a)' \/ InPart2(a)'
    BY <2>0, <2>4, <2>5 DEF Settled
  <2>6. IF Passed THEN InPart2(e)' ELSE InPart1(e)'
    BY <1>0, <1>2, <1>3, <2>0, <2>1, <2>2
       DEF InPart1, InPart2, Within, End1, Settled
  <2>7. ASSUME NEW a \in Done, a # e
        PROVE  Separate(a, e)' /\ Separate(e, a)'
    <3>1. CASE ~Passed
      <4>1. InPart1(a)
        BY <2>0, <2>7, <3>1 DEF Settled, InPart2
      <4>2. table_at[a] + Size(a) <= cur_address
        BY <3>1, <4>1 DEF InPart1, Within, End1
      <4> QED BY <2>1, <2>7, <4>2 DEF Separate, Apart
    <3>2. CASE Passed /\ InPart2(a)
      <4>1. table_at[a] + Size(a) <= cur_address
        BY <3>2 DEF InPart2, Within
      <4> QED BY <2>1, <2>7, <4>1 DEF Separate, Apart
    <3>3. CASE Passed /\ InPart1(a)
      BY <2>4, <2>6, <2>7, <3>3 DEF Separate
    <3> QED BY <2>0, <2>7, <3>1, <3>2, <3>3 DEF Settled
  <2>8. ASSUME NEW a \in Done, NEW b \in Done, a # e, b # e, a # b
        PROVE  Separate(a, b)'
    <3>1. Separate(a, b)
      BY <2>0, <2>8 DEF Settled
    <3>2. CASE Apart(table_at[a], table_at[a] + Size(a),
                     table_at[b], table_at[b] + Size(b))
      BY <2>1, <2>8, <3>2 DEF Separate, Apart
    <3> QED BY <2>4, <2>8, <3>1, <3>2 DEF Separate
  <2>9. part1_start' <= End1' /\ (Passed' => part2_start' <= cur_address')
    BY <1>2, <1>3, <2>0, <2>2, <2>3 DEF Settled
  <2> QED BY <1>3, <2>5, <2>6, <2>7, <2>8, <2>9 DEF Settled
<1> QED BY <1>1, <1>4, <1>5, <1>6 DEF LayInv

LEMMA PlaceSeparatorHolds == ASSUME LayInv, PlaceSeparator PROVE LayInv'
<1>0. /\ AtEntry("layout") /\ Entry = "." /\ options.do_split /\ NextEntry
      /\ part1_end' = cur_address
      /\ part2_start' = IF options.tempaddr2 # 0 THEN options.tempaddr2 ELSE cur_address
      /\ cur_address' = part2_start'
      /\ UNCHANGED <<table_at, part1_start, part2_end, outputVars>>
      /\ UNCHANGED <<mainVars, options, lay_pc>>
      /\ lay_pc = "layout" /\ k \in 1 .. TABLE_ORDER_LENGTH
  BY DEF PlaceSeparator, NextEntry, AtEntry, LayInv, LayoutTypeOK, TABLE_ORDER_LENGTH
<1>1. SplitterOK'
  BY <1>0, SplitterKept DEF LayInv
<1>2. cur_address \in Nat /\ cur_address' \in Nat /\ part2_start' \in Nat
  BY <1>0, OptionsFacts DEF LayInv, LayoutTypeOK
<1>3. Done' = Done /\ Passed' /\ k' \in 1 .. TABLE_ORDER_LENGTH + 1
  <2>1. "." \notin Id
    BY DEF Id, Table
  <2> QED BY <1>0, <2>1, DoneGrows DEF LayInv
<1>4. LayoutTypeOK'
  BY <1>0, <1>2, <1>3 DEF LayInv, LayoutTypeOK, outputVars
<1>5. Progressed'
  <2>1. ValidOptions' <=> ValidOptions
    BY <1>0 DEF ValidOptions
  <2>2. main_pc' = main_pc
    BY <1>0 DEF mainVars
  <2> QED BY <1>0, <2>1, <2>2 DEF LayInv, Progressed, Laying, Compiled, outputVars
<1>6. ~Passed
  <2>1. ValidOrder(options.order)
    BY <1>0 DEF LayInv, Progressed, ValidOptions, Laying
  <2>2. \A n \in 1 .. k - 1 : n \in 1 .. TABLE_ORDER_LENGTH /\ n # k
    BY <1>0 DEF TABLE_ORDER_LENGTH
  <2>3. \A n \in 1 .. k - 1 : options.order[n] # "."
    BY <1>0, <2>1, <2>2, EntriesDiffer DEF Entry, Listed
  <2> QED BY <1>0, <2>3 DEF Passed, Upto
<1>7. Settled'
  <2>0. Settled
    BY <1>0 DEF LayInv, Laying
  <2>1. \A a \in Done : Size(a)' = Size(a)
    BY <1>0, SizeKept DEF Done
  <2>2. End1 = cur_address /\ End1' = cur_address
    BY <1>0, <1>3, <1>6 DEF End1
  <2>3. \A a \in Done : InPart1(a) /\ InPart1(a)' /\ ~InPart2(a)
    BY <1>0, <1>6, <2>0, <2>1, <2>2 DEF Settled, InPart1, InPart2, Within
  <2>4. \A a, b \in Done : a # b => Separate(a, b)'
    BY <1>0, <2>0, <2>1, <2>3 DEF Settled, Separate, Apart
  <2> QED BY <1>0, <1>2, <1>3, <2>0, <2>2, <2>3, <2>4 DEF Settled
<1> QED BY <1>1, <1>4, <1>5, <1>7 DEF LayInv

LEMMA SkipInLayoutHolds == ASSUME LayInv, SkipEntry("layout") PROVE LayInv'
<1>0. /\ AtEntry("layout") /\ Entry \notin Id /\ NextEntry
      /\ Entry = "." => ~options.do_split
      /\ UNCHANGED <<mainVars, options, lay_pc, layoutVars, outputVars>>
      /\ lay_pc = "layout"
  BY DEF SkipEntry, NextEntry, AtEntry
<1>1. SplitterOK'
  BY <1>0, SplitterKept DEF LayInv
<1>2. Done' = Done /\ (Passed' <=> Passed) /\ k' \in 1 .. TABLE_ORDER_LENGTH + 1
  BY <1>0, DoneGrows DEF LayInv
<1>3. LayoutTypeOK'
  BY <1>0, <1>2 DEF LayInv, LayoutTypeOK, layoutVars, partVars, outputVars
<1>4. Progressed'
  <2>1. ValidOptions' <=> ValidOptions
    BY <1>0 DEF ValidOptions
  <2>2. main_pc' = main_pc
    BY <1>0 DEF mainVars
  <2> QED BY <1>0, <2>1, <2>2 DEF LayInv, Progressed, Laying, Compiled, outputVars
<1>5. Settled'
  <2>1. Settled
    BY <1>0 DEF LayInv, Laying
  <2> QED BY <1>0, <1>2, <2>1, SettledKept DEF LayInv, layoutVars, partVars
<1> QED BY <1>1, <1>3, <1>4, <1>5 DEF LayInv

LEMMA CompileHolds == ASSUME LayInv, Compile PROVE LayInv'
<1>0. /\ lay_pc = "layout" /\ k = TABLE_ORDER_LENGTH + 1
      /\ UNCHANGED <<mainVars, options, k, cur_address, table_at,
                     part1_start, part2_start, current, files>>
      /\ IF options.do_split
           THEN part2_end' = cur_address /\ part1_end' = part1_end
           ELSE part1_end' = cur_address /\ part2_end' = part2_end
      /\ \/ lay_pc' = "rejected" /\ compiled_program' = compiled_program
         \/ lay_pc' = "open" /\ compiled_program' = Decruncher
  BY DEF Compile, AtLoopEnd, LayInv, LayoutTypeOK, TABLE_ORDER_LENGTH
<1>1. SplitterOK'
  BY <1>0, SplitterKept DEF LayInv
<1>2. Decruncher \in Seq(0 .. CODE) /\ Len(Decruncher) = count_depack
  BY DecruncherOK DEF LayInv, LayoutTypeOK
<1>3. LayoutTypeOK'
  <2>1. part1_end' \in Nat /\ part2_end' \in Nat
    BY <1>0 DEF LayInv, LayoutTypeOK
  <2>2. compiled_program' \in Seq(0 .. CODE) /\ lay_pc' \in {"rejected", "open"}
    BY <1>0, <1>2 DEF LayInv, LayoutTypeOK
  <2> QED BY <1>0, <2>1, <2>2 DEF LayInv, LayoutTypeOK
<1>4. Upto = k /\ (lay_pc' = "open" => Upto' = k)
  BY <1>0 DEF Upto
<1>5. lay_pc' = "open" => Done' = Done /\ (Passed' <=> Passed)
  BY <1>0, <1>4 DEF Done, Passed
<1>6. ValidOptions
  BY <1>0 DEF LayInv, Progressed, Laying
<1>7. options.do_split => Passed
  <2>1. PICK n \in 1 .. Len(options.order) : SameLetter(options.order[n], ".")
    BY <1>6 DEF ValidOptions, ValidOrder
  <2>2. options.order[n] = "." /\ n \in 1 .. TABLE_ORDER_LENGTH
    BY <1>6, <2>1 DEF SameLetter, Id, Table, ValidOptions, ValidOrder
  <2>3. n \in 1 .. Upto - 1
    BY <1>0, <1>4, <2>2 DEF TABLE_ORDER_LENGTH
  <2> QED BY <2>2, <2>3 DEF Passed
<1>8. Progressed'
  <2>1. ValidOptions' <=> ValidOptions
    BY <1>0 DEF ValidOptions
  <2>2. main_pc' = main_pc /\ main_pc = "tables"
    BY <1>0 DEF mainVars, LayInv, Progressed, Laying
  <2>3. count_depack' = count_depack
    BY <1>0, SizeKept
  <2>4. current' = 1
    BY <1>0 DEF LayInv, Progressed
  <2> QED BY <1>0, <1>2, <1>5, <1>6, <1>7, <2>1, <2>2, <2>3, <2>4
       DEF Progressed, Laying, Compiled
<1>9. lay_pc' = "open" => Settled'
  <2>1. Settled
    BY <1>0 DEF LayInv, Laying
  <2>2. Passed => part1_end' = part1_end
    BY <1>0 DEF Passed
  <2> QED BY <1>0, <1>5, <2>1, <2>2, SettledKept DEF LayInv
<1>10. Laying' => lay_pc' = "open"
  BY <1>0 DEF Laying
<1> QED BY <1>1, <1>3, <1>8, <1>9, <1>10 DEF LayInv

-----------------------------------------------------------------------------
(***************************************************************************)
(* The steps behind the layout loop change files only, but for the last,   *)
(* which compares the parts.                                               *)
(***************************************************************************)
Behind ==
  /\ Compiled /\ Compiled'
  /\ UNCHANGED <<mainVars, options, layoutVars, compiled_program>>

LEMMA BehindKeeps ==
  ASSUME LayInv, Behind
  PROVE  /\ SplitterOK' /\ Settled'
         /\ Done' = Done /\ (Passed' <=> Passed)
<1>1. Settled /\ SplitterOK
  BY DEF LayInv, Behind, Laying, Compiled
<1>2. Upto' = Upto
  BY DEF Behind, Compiled, Upto
<1>3. Done' = Done /\ (Passed' <=> Passed)
  BY <1>2 DEF Behind, Done, Passed
<1>4. /\ UNCHANGED mainVars
      /\ UNCHANGED <<options, cur_address, table_at, part1_start, part2_start>>
      /\ part1_end' = part1_end
  BY DEF Behind, layoutVars, partVars
<1> QED BY <1>1, <1>3, <1>4, SettledKept, SplitterKept

LEMMA BehindProgresses ==
  ASSUME LayInv, Behind, lay_pc' # "accepted", lay_pc' = "open" => current' = 1
  PROVE  Progressed'
<1>1. Passed' <=> Passed
  BY BehindKeeps
<1>2. ValidOptions' <=> ValidOptions
  BY DEF ValidOptions, Behind
<1>3. main_pc' = main_pc /\ count_depack' = count_depack
  BY SizeKept DEF mainVars, Behind
<1> QED BY <1>1, <1>2, <1>3
     DEF LayInv, Progressed, Behind, Laying, Compiled, layoutVars, partVars

LEMMA OpenOutputsHolds == ASSUME LayInv, OpenOutputs PROVE LayInv'
<1>1. Behind /\ lay_pc' = "write" /\ Laying'
  BY DEF OpenOutputs, Behind, Compiled, Laying
<1>2. SplitterOK' /\ Settled' /\ Progressed'
  BY <1>1, BehindKeeps, BehindProgresses
<1>3. LayoutTypeOK'
  <2>1. files' \in [1 .. 2 -> [addr : Nat, bytes : Seq(0 .. CODE)]]
    <3>1. <<>> \in Seq(0 .. CODE) /\ NoFile \in [addr : Nat, bytes : Seq(0 .. CODE)]
      BY DEF NoFile
    <3>2. part1_start \in Nat /\ part2_start \in Nat
      BY DEF LayInv, LayoutTypeOK
    <3> QED BY <3>1, <3>2 DEF OpenOutputs
  <2> QED BY <2>1
       DEF LayInv, OpenOutputs, LayoutTypeOK, layoutVars, partVars, TABLE_ORDER_LENGTH
<1> QED BY <1>1, <1>2, <1>3 DEF LayInv

LEMMA WriteTableHolds == ASSUME LayInv, WriteTable PROVE LayInv'
<1>1. Behind /\ lay_pc = "write" /\ lay_pc' = "write" /\ Laying'
  BY DEF WriteTable, AtEntry, NextEntry, Behind, Compiled, Laying
<1>2. SplitterOK' /\ Settled' /\ Progressed'
  BY <1>1, BehindKeeps, BehindProgresses
<1>3. LayoutTypeOK'
  <2>1. Content(Entry) \in Seq(0 .. CODE)
    BY <1>1, ContentOK DEF WriteTable, LayInv, LayoutTypeOK, Progressed, Compiled
  <2>2. files' \in [1 .. 2 -> [addr : Nat, bytes : Seq(0 .. CODE)]]
    <3> DEFINE g == [files[current] EXCEPT !.bytes = @ \o Content(Entry)]
    <3>1. files \in [1 .. 2 -> [addr : Nat, bytes : Seq(0 .. CODE)]] /\ current \in 1 .. 2
      BY DEF LayInv, LayoutTypeOK
    <3>2. files[current].bytes \o Content(Entry) \in Seq(0 .. CODE)
      BY <2>1, <3>1, ConcatProperties
    <3>3. g \in [addr : Nat, bytes : Seq(0 .. CODE)]
      BY <3>1, <3>2
    <3>4. files' = [files EXCEPT ![current] = g]
      BY DEF WriteTable
    <3> HIDE DEF g
    <3> QED BY <3>1, <3>3, <3>4
  <2>3. k' \in 1 .. TABLE_ORDER_LENGTH + 1
    BY SMTT(30) DEF WriteTable, AtEntry, NextEntry, LayInv, LayoutTypeOK, TABLE_ORDER_LENGTH
  <2> QED BY <2>2, <2>3
       DEF LayInv, WriteTable, NextEntry, LayoutTypeOK, layoutVars, partVars
<1> QED BY <1>1, <1>2, <1>3 DEF LayInv

LEMMA SkipInWriteHolds ==
  ASSUME LayInv, SwitchFile \/ SkipEntry("write")
  PROVE  LayInv'
<1>0. /\ AtEntry("write") /\ NextEntry /\ current' \in {current, 2}
      /\ UNCHANGED <<layoutVars, compiled_program, files>>
  BY DEF SwitchFile, SkipEntry, outputVars
<1>1. Behind /\ lay_pc = "write" /\ lay_pc' = "write" /\ Laying'
  BY <1>0 DEF AtEntry, NextEntry, Behind, Compiled, Laying
<1>2. SplitterOK' /\ Settled' /\ Progressed'
  BY <1>1, BehindKeeps, BehindProgresses
<1>3. LayoutTypeOK'
  <2>1. k' \in 1 .. TABLE_ORDER_LENGTH + 1
    BY <1>0 DEF AtEntry, NextEntry, LayInv, LayoutTypeOK, TABLE_ORDER_LENGTH
  <2> QED BY <1>0, <2>1
       DEF LayInv, NextEntry, LayoutTypeOK, layoutVars, partVars
<1> QED BY <1>1, <1>2, <1>3 DEF LayInv

LEMMA CheckSpacesHolds == ASSUME LayInv, CheckSpaces PROVE LayInv'
<1>0. /\ lay_pc = "write" /\ lay_pc' \in {"rejected", "accepted"}
      /\ UNCHANGED <<mainVars, options, k, layoutVars, outputVars>>
  BY DEF CheckSpaces, AtLoopEnd
<1>1. LayoutTypeOK'
  BY <1>0 DEF LayInv, LayoutTypeOK, layoutVars, partVars, outputVars
<1>2. CASE lay_pc' = "rejected"
  <2>1. SplitterOK'
    BY <1>0, SplitterKept DEF LayInv
  <2>2. Progressed' /\ ~Laying'
    BY <1>2 DEF Progressed, Laying, Compiled
  <2> QED BY <1>1, <2>1, <2>2 DEF LayInv
<1>3. CASE lay_pc' = "accepted"
  <2>1. Behind /\ Compiled
    BY <1>0, <1>3 DEF Behind, Compiled, outputVars
  <2>2. SplitterOK' /\ Settled' /\ (Passed' <=> Passed)
    BY <2>1, BehindKeeps
  <2>3. /\ ~Overlaps(part1_start, part1_end, program_addr, program_end)
        /\ options.do_split =>
             /\ ~Overlaps(program_addr, program_end, part2_start, part2_end)
             /\ ~Overlaps(part1_start, part1_end, part2_start, part2_end)
        /\ part1_end <= ADDR_LIMIT /\ part2_end <= ADDR_LIMIT
    BY <1>3, PageFacts DEF CheckSpaces, LayInv, LayoutTypeOK
  <2>4. /\ part1_start' = part1_start /\ part1_end' = part1_end
        /\ part2_start' = part2_start /\ part2_end' = part2_end
        /\ program_addr' = program_addr /\ program_end' = program_end
        /\ main_pc' = main_pc /\ count_depack' = count_depack
        /\ cur_address' = cur_address /\ compiled_program' = compiled_program
        /\ options' = options
    BY <1>0, SizeKept DEF layoutVars, partVars, mainVars, fileVars, outputVars
  <2>5. ValidOptions' <=> ValidOptions
    BY <2>4 DEF ValidOptions
  <2>6. Progressed'
    BY <1>3, <2>1, <2>2, <2>3, <2>4, <2>5
       DEF LayInv, Progressed, Laying, Compiled, Overlaps
  <2> QED BY <1>1, <2>2, <2>6 DEF LayInv
<1> QED BY <1>0, <1>2, <1>3

-----------------------------------------------------------------------------
\* A step of main, and no step, preserves the invariant.
LEMMA LayoutHolds ==
  ASSUME LayInv, NextLayout
  PROVE  LayInv'
<1>1. CASE CheckOptions \/ Pack
  BY <1>1, CheckOptionsHolds, PackHolds
<1>2. CASE Reject \/ OutputFails
  BY <1>2, RejectHolds
<1>3. CASE BeginLayout
  BY <1>3, BeginLayoutHolds
<1>4. CASE PlaceTable
  BY <1>4, PlaceTableHolds
<1>5. CASE PlaceSeparator
  BY <1>5, PlaceSeparatorHolds
<1>6. CASE SkipEntry("layout")
  BY <1>6, SkipInLayoutHolds
<1>7. CASE Compile
  BY <1>7, CompileHolds
<1>8. CASE OpenOutputs
  BY <1>8, OpenOutputsHolds
<1>9. CASE WriteTable
  BY <1>9, WriteTableHolds
<1>10. CASE SwitchFile \/ SkipEntry("write")
  BY <1>10, SkipInWriteHolds
<1>11. CASE CheckSpaces
  BY <1>11, CheckSpacesHolds
<1> QED BY <1>1, <1>2, <1>3, <1>4, <1>5, <1>6, <1>7, <1>8, <1>9, <1>10, <1>11
     DEF NextLayout

LEMMA LayoutStutters ==
  ASSUME LayInv, UNCHANGED lvars
  PROVE  LayInv'
<1>1. /\ UNCHANGED mainVars
      /\ UNCHANGED <<options, lay_pc, k, layoutVars, outputVars>>
      /\ UNCHANGED <<cur_address, table_at, part1_start, part1_end, part2_start, part2_end>>
      /\ UNCHANGED <<compiled_program, current, files>>
      /\ main_pc' = main_pc /\ program_addr' = program_addr
  BY DEF lvars, layVars, layoutVars, partVars, outputVars, mainVars, fileVars
<1>2. SplitterOK'
  BY <1>1, SplitterKept DEF LayInv
<1>3. LayoutTypeOK'
  BY <1>1 DEF LayInv, LayoutTypeOK
<1>4. Done' = Done /\ (Passed' <=> Passed)
  <2>1. Upto' = Upto
    BY <1>1 DEF Upto
  <2> QED BY <1>1, <2>1 DEF Done, Passed
<1>5. Progressed'
  <2>1. ValidOptions' <=> ValidOptions
    BY <1>1 DEF ValidOptions
  <2>2. count_depack' = count_depack /\ program_end' = program_end
    BY <1>1, SizeKept
  <2> QED BY <1>1, <1>4, <2>1, <2>2
       DEF LayInv, Progressed, Laying, Compiled, Overlaps
<1>6. Laying' => Settled'
  BY <1>1, <1>4, SettledKept DEF LayInv, Laying
<1> QED BY <1>2, <1>3, <1>5, <1>6 DEF LayInv

\* The depacker runs when main has ended.
LEMMA CpuLeavesMain == NextCpu => UNCHANGED lvars
  BY DEF NextCpu, Call, CopyPointer, ReturnAtProgramEnd, OutputOpcode, TestOpcode,
         LookupMode, OutputLo, OutputArgument, Branch

\* The invariant holds in every reachable state, while the tables are laid out
\* as well as when the depacker runs.
THEOREM LayoutInvariance == DepackerSpec => []LayInv
<1>1. DepackerInit => LayInv
  BY LayInit DEF DepackerInit, LayoutInit
<1>2. LayInv /\ [DepackerNext \/ (AllDone /\ UNCHANGED dvars)]_dvars => LayInv'
  <2> SUFFICES ASSUME LayInv, [DepackerNext \/ (AllDone /\ UNCHANGED dvars)]_dvars
               PROVE  LayInv'
    OBVIOUS
  <2>1. CASE NextLayout
    BY <2>1, LayoutHolds
  <2>2. CASE NextCpu
    BY <2>2, CpuLeavesMain, LayoutStutters
  <2>3. CASE UNCHANGED dvars
    BY <2>3, LayoutStutters DEF dvars
  <2> QED BY <2>1, <2>2, <2>3 DEF DepackerNext
<1> QED BY <1>1, <1>2, PTL DEF DepackerSpec

\* Every variable of the layout keeps its type: the files hold bytes and those
\* of the depacker, and no loop leaves the order of the tables.
THEOREM LayoutTypeCorrect == DepackerSpec => []LayoutTypeOK
<1>1. LayInv => LayoutTypeOK
  BY DEF LayInv
<1> QED BY <1>1, LayoutInvariance, PTL

\* The checks at the very end keep all ranges apart.
LEMMA RangesHold == LayInv => RangesApart
<1> SUFFICES ASSUME LayInv, lay_pc = "accepted", NEW a \in Placed
             PROVE  LET s == table_at[a]
                        e == s + Size(a)
                    IN  /\ e <= ADDR_LIMIT
                        /\ Apart(s, e, program_addr, program_end)
                        /\ \A b \in Placed \ {a} :
                             Apart(s, e, table_at[b], table_at[b] + Size(b))
  BY DEF RangesApart
<1>1. Settled /\ Progressed /\ Compiled /\ LayoutTypeOK /\ SplitterOK
  BY DEF LayInv, Laying, Compiled
<1>2. Done = Placed
  <2>1. Len(options.order) = TABLE_ORDER_LENGTH
    BY DEF LayInv, Progressed, Laying, ValidOptions, ValidOrder
  <2>2. Upto - 1 = TABLE_ORDER_LENGTH
    BY DEF Upto, TABLE_ORDER_LENGTH
  <2> QED BY <2>1, <2>2 DEF Done, Placed
<1>3. End1 = part1_end /\ (Passed => cur_address = part2_end /\ options.do_split)
  BY <1>1 DEF Progressed, End1, Passed
<1>4. \A b \in Placed : table_at[b] \in Nat /\ Size(b) \in Nat
  BY <1>1, SizeFacts DEF LayoutTypeOK, Placed
<1>5. /\ part1_start \in Nat /\ part1_end \in Nat
      /\ part2_start \in Nat /\ part2_end \in Nat
      /\ program_addr \in Nat /\ program_end \in Nat /\ ADDR_LIMIT \in Nat
  <2>1. /\ Len(data["o"]) \in Nat /\ Len(data["l"]) \in Nat /\ Len(data["i"]) \in Nat
        /\ Len(data["r"]) \in Nat /\ Len(data["z"]) \in Nat
    BY <1>1, SizeFacts DEF SplitterOK, Table
  <2>2. real_program_len \in Nat
    <3>1. PICK o, l, im, r, z \in Nat :
            /\ Len(data["o"]) = o /\ Len(data["l"]) = l /\ Len(data["i"]) = im
            /\ Len(data["r"]) = r /\ Len(data["z"]) = z
      BY <2>1
    <3>2. real_program_len = o + 2 * l + im + r + z
      BY <3>1 DEF real_program_len
    <3> QED BY <3>2
  <2> QED BY <1>1, <2>2, PageFacts DEF LayoutTypeOK, SplitterOK, program_end
<1>6. \A b \in Placed : InPart1(b) \/ InPart2(b)
  BY <1>1, <1>2 DEF Settled
<1>7. /\ table_at[a] + Size(a) <= ADDR_LIMIT
      /\ Apart(table_at[a], table_at[a] + Size(a), program_addr, program_end)
  <2>1. CASE InPart1(a)
    BY <1>1, <1>3, <1>4, <1>5, <2>1
       DEF InPart1, Within, Progressed, Overlaps, Apart
  <2>2. CASE InPart2(a)
    BY <1>1, <1>3, <1>4, <1>5, <2>2
       DEF InPart2, Within, Progressed, Overlaps, Apart
  <2> QED BY <1>6, <2>1, <2>2
<1>8. ASSUME NEW b \in Placed \ {a}
      PROVE  Apart(table_at[a], table_at[a] + Size(a),
                   table_at[b], table_at[b] + Size(b))
  <2>1. Separate(a, b)
    BY <1>1, <1>2 DEF Settled
  <2>2. ASSUME NEW c \in Placed, NEW d \in Placed, InPart1(c), InPart2(d)
        PROVE  Apart(table_at[c], table_at[c] + Size(c),
                     table_at[d], table_at[d] + Size(d))
    <3>1. ~Overlaps(part1_start, part1_end, part2_start, part2_end)
      BY <1>1, <1>3, <2>2 DEF Progressed, InPart2
    <3> QED BY <1>3, <1>4, <1>5, <2>2, <3>1
         DEF InPart1, InPart2, Within, Overlaps, Apart
  <2>3. CASE InPart1(a) /\ InPart2(b)
    BY <2>2, <2>3
  <2>4. CASE InPart2(a) /\ InPart1(b)
    BY <2>2, <2>4, <1>4 DEF Apart
  <2> QED BY <2>1, <2>3, <2>4 DEF Separate
<1> QED BY <1>7, <1>8

\* When main ends with success, the depacker and its tables lie apart from each
\* other and from the program, below the end of the memory: main compares only
\* the two parts and the program, at the very end.
THEOREM RangesCorrect == DepackerSpec => []RangesApart
  BY RangesHold, LayoutInvariance, PTL

-----------------------------------------------------------------------------
(***************************************************************************)
(* The write loop goes the way of the layout loop: there are addresses,    *)
(* one before each entry and one at the end, that the layout loop went     *)
(* through, and the next byte of the current file is loaded to the address *)
(* that belongs to the entry.                                              *)
(***************************************************************************)
Addresses == [1 .. TABLE_ORDER_LENGTH + 1 -> Nat]

Path(addr) ==
  /\ addr[1] = part1_start
  /\ addr[Upto] = cur_address
  /\ \A n \in 1 .. Upto - 1 :
       /\ options.order[n] \in Id =>
            /\ table_at[options.order[n]] = addr[n]
            /\ addr[n + 1] = addr[n] + Size(options.order[n])
       /\ options.order[n] = "." /\ options.do_split =>
            part1_end = addr[n] /\ addr[n + 1] = part2_start
       /\ options.order[n] \notin Id /\ (options.order[n] = "." => ~options.do_split) =>
            addr[n + 1] = addr[n]

WrittenUpto == IF lay_pc = "write" THEN k ELSE TABLE_ORDER_LENGTH + 1

Switched == options.do_split /\ \E n \in 1 .. WrittenUpto - 1 : options.order[n] = "."

Written(addr) ==
  /\ current = IF Switched THEN 2 ELSE 1
  /\ files[1].addr = part1_start
  /\ IF options.do_split THEN files[2].addr = part2_start ELSE files[2] = NoFile
  /\ files[current].addr + Len(files[current].bytes) = addr[WrittenUpto]
  /\ current = 2 => part1_start + Len(files[1].bytes) = part1_end
  /\ current = 1 /\ options.do_split => files[2].bytes = <<>>
  /\ \A n \in 1 .. WrittenUpto - 1 :
       options.order[n] \in Id => \E f \in 1 .. 2 : Holds(files[f], options.order[n])

Routed ==
  \E addr \in Addresses : Path(addr) /\ (lay_pc \in {"write", "accepted"} => Written(addr))

RouteInv == LayInv /\ (Laying => Routed)

File == [addr : Nat, bytes : Seq(0 .. CODE)]

\* What is appended to a sequence is its end, and its beginning stays.
LEMMA EndOfConcat ==
  ASSUME NEW S, NEW s \in Seq(S), NEW t \in Seq(S)
  PROVE  SubSeq(s \o t, Len(s) + 1, Len(s) + Len(t)) = t
<1>1. Len(s) \in Nat /\ Len(t) \in Nat
  OBVIOUS
<1>2. CASE Len(t) = 0
  <2>1. SubSeq(s \o t, Len(s) + 1, Len(s) + Len(t)) = <<>>
    BY <1>1, <1>2, SubSeqEmpty
  <2> QED BY <1>2, <2>1, EmptySeq
<1>3. CASE Len(t) # 0
  <2> DEFINE m == Len(s) + 1
             n == Len(s) + Len(t)
  <2>1. m \in Len(s) + 1 .. Len(s) + Len(t) /\ n \in Len(s) + 1 .. Len(s) + Len(t)
    BY <1>1, <1>3
  <2>2. m - Len(s) = 1 /\ n - Len(s) = Len(t)
    BY <1>1
  <2> HIDE DEF m, n
  <2>3. SubSeq(s \o t, m, n) = SubSeq(t, m - Len(s), n - Len(s))
    BY <2>1, SubSeqOfConcat2
  <2>4. SubSeq(t, 1, Len(t)) = t
    BY SubSeqFull
  <2> QED BY <2>2, <2>3, <2>4 DEF m, n
<1> QED BY <1>2, <1>3

LEMMA BeginOfConcat ==
  ASSUME NEW S, NEW s \in Seq(S), NEW t \in Seq(S), NEW a \in Nat, NEW n \in Nat,
         a + n <= Len(s)
  PROVE  SubSeq(s \o t, a + 1, a + n) = SubSeq(s, a + 1, a + n)
<1>1. CASE n = 0
  <2>1. a + 1 \in Int /\ a + n \in Int /\ a + n < a + 1
    BY <1>1
  <2> QED BY <2>1, SubSeqEmpty
<1>2. CASE n # 0
  <2>1. a + 1 \in 1 .. Len(s) /\ a + n \in 1 .. Len(s)
    BY <1>2
  <2> QED BY <2>1, SubSeqOfConcat1
<1> QED BY <1>1, <1>2

\* Bytes are appended to a file.
LEMMA FileLonger ==
  ASSUME NEW f \in File, NEW c \in Seq(0 .. CODE),
         NEW g, g = [f EXCEPT !.bytes = @ \o c]
  PROVE  /\ g \in File /\ g.addr = f.addr /\ g.bytes = f.bytes \o c
         /\ f.bytes \in Seq(0 .. CODE) /\ f.addr \in Nat
         /\ Len(f.bytes) \in Nat /\ Len(c) \in Nat
         /\ Len(g.bytes) = Len(f.bytes) + Len(c)
<1>1. f.bytes \in Seq(0 .. CODE) /\ f.addr \in Nat
  BY DEF File
<1>2. f.bytes \o c \in Seq(0 .. CODE) /\ Len(f.bytes \o c) = Len(f.bytes) + Len(c)
  BY <1>1, ConcatProperties
<1>3. Len(f.bytes) \in Nat /\ Len(c) \in Nat
  BY <1>1
<1> QED BY <1>1, <1>2, <1>3 DEF File

\* A table that is written behind the file is held by it.
LEMMA HoldsWritten ==
  ASSUME NEW f \in File, NEW e, NEW g,
         table_at[e] \in Nat, Content(e) \in Seq(0 .. CODE), Len(Content(e)) = Size(e),
         f.addr + Len(f.bytes) = table_at[e],
         g = [f EXCEPT !.bytes = @ \o Content(e)]
  PROVE  Holds(g, e)
<1> PICK c \in Seq(0 .. CODE) : c = Content(e)
  OBVIOUS
<1>1. /\ g.addr = f.addr /\ g.bytes = f.bytes \o c
      /\ f.bytes \in Seq(0 .. CODE) /\ f.addr \in Nat
      /\ Len(f.bytes) \in Nat /\ Len(c) \in Nat
      /\ Len(g.bytes) = Len(f.bytes) + Len(c)
  BY FileLonger
<1>2. table_at[e] - g.addr = Len(f.bytes) /\ g.addr <= table_at[e] /\ Size(e) = Len(c)
  BY <1>1
<1>3. SubSeq(g.bytes, Len(f.bytes) + 1, Len(f.bytes) + Len(c)) = c
  BY <1>1, EndOfConcat, ZenonT(30)
<1>4. Len(f.bytes) + Len(c) <= Len(g.bytes)
  BY <1>1
<1> QED BY <1>2, <1>3, <1>4 DEF Holds

\* And what a file holds, it holds when more is written behind it.
LEMMA HoldsLonger ==
  ASSUME NEW f \in File, NEW e, NEW c \in Seq(0 .. CODE), NEW g,
         table_at[e] \in Nat, Size(e) \in Nat, Holds(f, e),
         g = [f EXCEPT !.bytes = @ \o c]
  PROVE  Holds(g, e)
<1>1. /\ g.addr = f.addr /\ g.bytes = f.bytes \o c
      /\ f.bytes \in Seq(0 .. CODE) /\ f.addr \in Nat
      /\ Len(f.bytes) \in Nat /\ Len(c) \in Nat
      /\ Len(g.bytes) = Len(f.bytes) + Len(c)
  BY FileLonger
<1>2. f.addr <= table_at[e]
  BY DEF Holds
<1> PICK o \in Nat : o = table_at[e] - f.addr
  BY <1>1, <1>2
<1> PICK n \in Nat : n = Size(e)
  OBVIOUS
<1>3. o + n <= Len(f.bytes) /\ SubSeq(f.bytes, o + 1, o + n) = Content(e)
  BY DEF Holds
<1>4. SubSeq(g.bytes, o + 1, o + n) = Content(e)
  BY <1>1, <1>3, BeginOfConcat
<1>5. o + n <= Len(g.bytes)
  BY <1>1, <1>3
<1> QED BY <1>1, <1>2, <1>4, <1>5 DEF Holds

\* An entry that was passed is not the one that comes next, if that is on the list.
LEMMA EarlierDiffer ==
  ASSUME LayInv, Laying, k \in 1 .. TABLE_ORDER_LENGTH, options.order[k] \in Listed
  PROVE  \A n \in 1 .. k - 1 : /\ n \in 1 .. TABLE_ORDER_LENGTH
                              /\ options.order[n] # options.order[k]
<1>1. ValidOrder(options.order)
  BY DEF LayInv, Progressed, ValidOptions
<1>2. \A n \in 1 .. k - 1 : n \in 1 .. TABLE_ORDER_LENGTH /\ n # k
  BY DEF TABLE_ORDER_LENGTH
<1> QED BY <1>1, <1>2, EntriesDiffer

\* A step of the layout loop leads the path on, to the address it has then.
LEMMA PathGrows ==
  ASSUME LayInv, Routed, AtEntry("layout"), NextEntry, part1_start' = part1_start,
         cur_address' \in Nat,
         \A n \in 1 .. k - 1 :
           /\ options.order[n] \in Id => table_at'[options.order[n]] = table_at[options.order[n]]
           /\ options.order[n] = "." /\ options.do_split =>
                part1_end' = part1_end /\ part2_start' = part2_start,
         options.order[k] \in Id =>
           /\ table_at'[options.order[k]] = cur_address
           /\ cur_address' = cur_address + Size(options.order[k]),
         options.order[k] = "." /\ options.do_split =>
           part1_end' = cur_address /\ cur_address' = part2_start',
         options.order[k] \notin Id /\ (options.order[k] = "." => ~options.do_split) =>
           cur_address' = cur_address
  PROVE  Routed'
<1>1. /\ lay_pc = "layout" /\ lay_pc' = "layout" /\ k' = k + 1 /\ Upto = k /\ Upto' = k + 1
      /\ k \in 1 .. TABLE_ORDER_LENGTH /\ options' = options /\ UNCHANGED mainVars
  BY DEF AtEntry, NextEntry, LayInv, LayoutTypeOK, TABLE_ORDER_LENGTH, Upto
<1>2. PICK addr \in Addresses : Path(addr)
  BY DEF Routed
<1>3. PICK next \in Addresses :
        /\ next[k + 1] = cur_address'
        /\ \A n \in 1 .. k : next[n] = addr[n]
  <2> DEFINE a == [addr EXCEPT ![k + 1] = cur_address']
  <2>1. a \in Addresses /\ a[k + 1] = cur_address' /\ \A n \in 1 .. k : a[n] = addr[n]
    BY <1>1 DEF Addresses, TABLE_ORDER_LENGTH
  <2> QED BY <2>1
<1>4. next[1] = part1_start' /\ next[Upto'] = cur_address' /\ addr[k] = cur_address
  BY <1>1, <1>2, <1>3 DEF Path
<1>5. ASSUME NEW n \in 1 .. k
      PROVE  /\ options.order[n] \in Id =>
                  /\ table_at'[options.order[n]] = next[n]
                  /\ next[n + 1] = next[n] + Size(options.order[n])
             /\ options.order[n] = "." /\ options.do_split =>
                  part1_end' = next[n] /\ next[n + 1] = part2_start'
             /\ options.order[n] \notin Id /\ (options.order[n] = "." => ~options.do_split) =>
                  next[n + 1] = next[n]
  <2>1. CASE n = k
    BY <1>1, <1>3, <1>4, <2>1
  <2>2. CASE n # k
    <3>1. n \in 1 .. k - 1 /\ n + 1 \in 1 .. k
      BY <1>1, <2>2
    <3>2. next[n] = addr[n] /\ next[n + 1] = addr[n + 1]
      BY <1>3, <3>1
    <3>3. /\ options.order[n] \in Id =>
               /\ table_at[options.order[n]] = addr[n]
               /\ addr[n + 1] = addr[n] + Size(options.order[n])
          /\ options.order[n] = "." /\ options.do_split =>
               part1_end = addr[n] /\ addr[n + 1] = part2_start
          /\ options.order[n] \notin Id /\ (options.order[n] = "." => ~options.do_split) =>
               addr[n + 1] = addr[n]
      BY <1>1, <1>2, <3>1 DEF Path
    <3> QED BY <3>1, <3>2, <3>3
  <2> QED BY <2>1, <2>2
<1>6. 1 .. Upto' - 1 = 1 .. k
  BY <1>1 DEF TABLE_ORDER_LENGTH
<1>7. \A id \in Id : Size(id)' = Size(id)
  BY <1>1, SizeKept
<1>8. Path(next)'
  BY <1>1, <1>4, <1>5, <1>6, <1>7 DEF Path
<1>9. lay_pc' \notin {"write", "accepted"}
  BY <1>1
<1> QED BY <1>3, <1>8, <1>9 DEF Routed, Addresses

LEMMA PlaceTableRoutes ==
  ASSUME LayInv, Routed, PlaceTable
  PROVE  Routed'
<1> PICK e \in Id : e = Entry
  BY DEF PlaceTable
<1>1. /\ AtEntry("layout") /\ NextEntry /\ UNCHANGED partVars
      /\ table_at' = [table_at EXCEPT ![e] = cur_address]
      /\ cur_address' = cur_address + Size(e)
  BY DEF PlaceTable
<1>2. k \in 1 .. TABLE_ORDER_LENGTH /\ options.order[k] = e /\ Laying
  BY <1>1 DEF AtEntry, Entry, Laying, LayInv, LayoutTypeOK, TABLE_ORDER_LENGTH
<1>3. \A n \in 1 .. k - 1 : options.order[n] # e
  BY <1>2, EarlierDiffer DEF Listed
<1>4. /\ Size(e) \in Nat /\ cur_address \in Nat /\ table_at \in [Id -> Nat]
      /\ e # "."
  BY SizeFacts DEF LayInv, LayoutTypeOK, Id, Table
<1>5. table_at'[e] = cur_address /\ \A id \in Id : id # e => table_at'[id] = table_at[id]
  BY <1>1, <1>4
<1>6. cur_address' \in Nat
  BY <1>1, <1>4
<1> QED BY <1>1, <1>2, <1>3, <1>4, <1>5, <1>6, PathGrows DEF partVars

LEMMA PlaceSeparatorRoutes ==
  ASSUME LayInv, Routed, PlaceSeparator
  PROVE  Routed'
<1>1. /\ AtEntry("layout") /\ NextEntry /\ options.do_split
      /\ part1_end' = cur_address /\ cur_address' = part2_start'
      /\ part2_start' = IF options.tempaddr2 # 0 THEN options.tempaddr2 ELSE cur_address
      /\ table_at' = table_at /\ part1_start' = part1_start
  BY DEF PlaceSeparator
<1>2. k \in 1 .. TABLE_ORDER_LENGTH /\ options.order[k] = "." /\ Laying
  BY <1>1 DEF PlaceSeparator, AtEntry, Entry, Laying, LayInv, LayoutTypeOK, TABLE_ORDER_LENGTH
<1>3. \A n \in 1 .. k - 1 : options.order[n] # "."
  BY <1>2, EarlierDiffer DEF Listed
<1>4. "." \notin Id
  BY DEF Id, Table
<1>5. cur_address' \in Nat
  BY <1>1, OptionsFacts DEF LayInv, LayoutTypeOK
<1> QED BY <1>1, <1>2, <1>3, <1>4, <1>5, PathGrows

LEMMA SkipInLayoutRoutes ==
  ASSUME LayInv, Routed, SkipEntry("layout")
  PROVE  Routed'
<1>1. /\ AtEntry("layout") /\ NextEntry
      /\ UNCHANGED <<cur_address, table_at, part1_start, part1_end, part2_start, part2_end>>
      /\ options.order[k] \notin Id /\ (options.order[k] = "." => ~options.do_split)
  BY DEF SkipEntry, layoutVars, partVars, Entry
<1>2. cur_address' \in Nat
  BY <1>1 DEF LayInv, LayoutTypeOK
<1> QED BY <1>1, <1>2, PathGrows

LEMMA BeginLayoutRoutes ==
  ASSUME LayInv, BeginLayout
  PROVE  Routed'
<1> DEFINE addr == [n \in 1 .. TABLE_ORDER_LENGTH + 1 |-> options.tempaddr]
<1>1. options.tempaddr \in Nat
  BY OptionsFacts DEF LayInv
<1>2. addr \in Addresses
  BY <1>1 DEF Addresses
<1>3. Upto' = 1 /\ lay_pc' = "layout"
  BY DEF LayInv, BeginLayout, Progressed, Upto
<1>4. addr[1] = options.tempaddr /\ 1 .. Upto' - 1 = {}
  BY <1>3 DEF TABLE_ORDER_LENGTH
<1>5. \E a \in Addresses : a[1] = options.tempaddr
  BY <1>2, <1>4
<1> HIDE DEF addr
<1>6. PICK a \in Addresses : a[1] = options.tempaddr
  BY <1>5
<1>7. Path(a)'
  BY <1>3, <1>4, <1>6 DEF Path, BeginLayout
<1> QED BY <1>3, <1>6, <1>7 DEF Routed, Addresses

\* The path stays behind the layout loop.
LEMMA PathKept ==
  ASSUME NEW addr \in Addresses, Path(addr), UNCHANGED mainVars,
         UNCHANGED <<options, cur_address, table_at, part1_start, part2_start>>,
         options.do_split => part1_end' = part1_end,
         Upto' = Upto
  PROVE  Path(addr)'
<1>1. \A id \in Id : Size(id)' = Size(id)
  BY SizeKept
<1> QED BY <1>1 DEF Path

LEMMA CompileRoutes ==
  ASSUME LayInv, Routed, Compile, Laying'
  PROVE  Routed'
<1>1. /\ lay_pc = "layout" /\ lay_pc' = "open" /\ k = TABLE_ORDER_LENGTH + 1
      /\ UNCHANGED mainVars
      /\ UNCHANGED <<options, cur_address, table_at, part1_start, part2_start>>
      /\ options.do_split => part1_end' = part1_end
  BY DEF Compile, AtLoopEnd, LayInv, LayoutTypeOK, TABLE_ORDER_LENGTH, Laying
<1>2. Upto' = Upto
  BY <1>1 DEF Upto
<1> QED BY <1>1, <1>2, PathKept DEF Routed, Addresses

LEMMA BehindPath ==
  ASSUME Behind, NEW addr \in Addresses, Path(addr)
  PROVE  Path(addr)' /\ Upto = TABLE_ORDER_LENGTH + 1
<1>1. Upto' = Upto /\ Upto = TABLE_ORDER_LENGTH + 1
  BY DEF Behind, Compiled, Upto
<1> QED BY <1>1, PathKept DEF Behind, layoutVars, partVars

LEMMA OpenOutputsRoutes ==
  ASSUME LayInv, Routed, OpenOutputs
  PROVE  Routed'
<1>1. Behind /\ lay_pc' = "write" /\ lay_pc = "open" /\ k' = 1 /\ current' = 1
  BY DEF OpenOutputs, Behind, Compiled, LayInv, Progressed
<1>2. PICK addr \in Addresses : Path(addr)
  BY DEF Routed
<1>3. /\ files'[1] = [addr |-> part1_start, bytes |-> <<>>]
      /\ files'[2] = IF options.do_split THEN [addr |-> part2_start, bytes |-> <<>>] ELSE NoFile
  BY DEF OpenOutputs
<1>4. WrittenUpto' = 1 /\ ~Switched' /\ 1 .. WrittenUpto' - 1 = {}
  BY <1>1 DEF WrittenUpto, Switched
<1>5. /\ part1_start' = part1_start /\ part2_start' = part2_start /\ options' = options
      /\ part1_start \in Nat
  BY <1>1 DEF Behind, layoutVars, partVars, LayInv, LayoutTypeOK
<1>6. addr[1] = part1_start
  BY <1>2 DEF Path
<1>7. Len(files'[1].bytes) = 0
  BY <1>3, EmptySeq
<1>8. Written(addr)'
  BY <1>1, <1>3, <1>4, <1>5, <1>6, <1>7 DEF Written
<1> QED BY <1>1, <1>2, <1>8, BehindPath DEF Routed, Addresses

\* What a step of the write loop finds.
LEMMA WriteFacts ==
  ASSUME LayInv, AtEntry("write")
  PROVE  /\ Laying /\ lay_pc = "write" /\ WrittenUpto = k
         /\ k \in 1 .. TABLE_ORDER_LENGTH /\ k \in 1 .. Upto - 1
         /\ files \in [1 .. 2 -> File] /\ current \in 1 .. 2
         /\ table_at \in [Id -> Nat] /\ \A id \in Id : Size(id) \in Nat
         /\ \A id \in Id : /\ Content(id) \in Seq(0 .. CODE)
                           /\ Len(Content(id)) = Size(id)
         /\ Upto = TABLE_ORDER_LENGTH + 1
<1>1. /\ lay_pc = "write" /\ Laying /\ WrittenUpto = k /\ Upto = TABLE_ORDER_LENGTH + 1
      /\ k \in 1 .. TABLE_ORDER_LENGTH
  BY DEF AtEntry, Laying, WrittenUpto, Upto, LayInv, LayoutTypeOK, TABLE_ORDER_LENGTH
<1>2. k \in 1 .. Upto - 1
  BY <1>1 DEF TABLE_ORDER_LENGTH
<1>3. files \in [1 .. 2 -> File] /\ current \in 1 .. 2 /\ table_at \in [Id -> Nat]
  BY DEF LayInv, LayoutTypeOK, File
<1>4. \A id \in Id : /\ Content(id) \in Seq(0 .. CODE)
                    /\ Len(Content(id)) = Size(id)
  BY <1>1, ContentOK DEF LayInv, LayoutTypeOK, Progressed, Compiled
<1>5. \A id \in Id : Size(id) \in Nat
  BY SizeFacts DEF LayInv
<1> QED BY <1>1, <1>2, <1>3, <1>4, <1>5

\* A step from one entry to the next; the sizes and contents stay.
LEMMA WriteAdvances ==
  ASSUME LayInv, AtEntry("write"), NextEntry, UNCHANGED <<layoutVars, compiled_program>>
  PROVE  /\ Behind /\ lay_pc' = "write" /\ WrittenUpto' = k + 1
         /\ 1 .. WrittenUpto' - 1 = (1 .. WrittenUpto - 1) \cup {k}
         /\ Switched' <=> Switched \/ (options.do_split /\ options.order[k] = ".")
         /\ options' = options /\ table_at' = table_at
         /\ part1_start' = part1_start /\ part1_end' = part1_end
         /\ part2_start' = part2_start
         /\ \A id \in Id : Size(id)' = Size(id) /\ Content(id)' = Content(id)
<1>1. /\ lay_pc = "write" /\ WrittenUpto = k /\ k \in 1 .. TABLE_ORDER_LENGTH
      /\ k' = k + 1 /\ lay_pc' = "write" /\ UNCHANGED mainVars /\ options' = options
  BY WriteFacts DEF NextEntry
<1>2. Behind
  BY <1>1 DEF Behind, Compiled
<1>3. WrittenUpto' = k + 1
  BY <1>1 DEF WrittenUpto
<1>4. 1 .. WrittenUpto' - 1 = (1 .. WrittenUpto - 1) \cup {k}
  BY <1>1, <1>3 DEF TABLE_ORDER_LENGTH
<1>5. Switched' <=> Switched \/ (options.do_split /\ options.order[k] = ".")
  BY <1>1, <1>4 DEF Switched
<1>6. \A id \in Id : Size(id)' = Size(id) /\ Content(id)' = Content(id)
  BY <1>1, SizeKept, ContentKept
<1> QED BY <1>1, <1>2, <1>3, <1>4, <1>5, <1>6 DEF layoutVars, partVars

LEMMA WriteTableRoutes ==
  ASSUME LayInv, Routed, WriteTable
  PROVE  Routed'
<1> PICK e \in Id : e = options.order[k]
  BY DEF WriteTable, Entry
<1> PICK c \in 1 .. 2 : c = current
  BY DEF LayInv, LayoutTypeOK
<1>0. AtEntry("write") /\ NextEntry /\ UNCHANGED <<layoutVars, compiled_program, current>>
  BY DEF WriteTable
<1>2. /\ Laying /\ lay_pc = "write" /\ WrittenUpto = k
      /\ k \in 1 .. TABLE_ORDER_LENGTH /\ k \in 1 .. Upto - 1
      /\ files \in [1 .. 2 -> File] /\ table_at \in [Id -> Nat]
      /\ \A id \in Id : Size(id) \in Nat
      /\ Content(e) \in Seq(0 .. CODE) /\ Len(Content(e)) = Size(e)
  BY <1>0, WriteFacts
<1> PICK f0 \in File, ct \in Seq(0 .. CODE) : f0 = files[c] /\ ct = Content(e)
  BY <1>2
<1> PICK g : g = [f0 EXCEPT !.bytes = @ \o ct]
  OBVIOUS
<1>1. files' = [files EXCEPT ![c] = g]
  BY DEF WriteTable, Entry
<1>3. /\ Behind /\ lay_pc' = "write" /\ WrittenUpto' = k + 1
      /\ 1 .. WrittenUpto' - 1 = (1 .. WrittenUpto - 1) \cup {k}
      /\ Switched' <=> Switched \/ (options.do_split /\ options.order[k] = ".")
      /\ options' = options /\ table_at' = table_at
      /\ part1_start' = part1_start /\ part1_end' = part1_end
      /\ part2_start' = part2_start
      /\ \A id \in Id : Size(id)' = Size(id) /\ Content(id)' = Content(id)
  BY <1>0, WriteAdvances
<1>4. PICK addr \in Addresses : Path(addr) /\ Written(addr)
  BY <1>2 DEF Routed
<1>5. /\ table_at[e] = addr[k] /\ addr[k + 1] = addr[k] + Size(e)
      /\ f0.addr + Len(f0.bytes) = addr[k]
  BY <1>2, <1>4 DEF Path, Written
<1>6. /\ g \in File /\ g.addr = f0.addr
      /\ Len(g.bytes) = Len(f0.bytes) + Size(e)
      /\ Len(f0.bytes) \in Nat /\ f0.addr \in Nat
  <2>1. /\ g \in File /\ g.addr = f0.addr
        /\ Len(g.bytes) = Len(f0.bytes) + Len(ct)
        /\ Len(f0.bytes) \in Nat /\ f0.addr \in Nat
    BY ONLY g = [f0 EXCEPT !.bytes = @ \o ct], f0 \in File, ct \in Seq(0 .. CODE),
            FileLonger
  <2> QED BY <1>2, <2>1
<1>7. g.addr + Len(g.bytes) = addr[k + 1]
  <2> PICK a, l, z \in Nat : a = f0.addr /\ l = Len(f0.bytes) /\ z = Size(e)
    BY <1>2, <1>6
  <2>1. addr[k + 1] = (a + l) + z /\ g.addr + Len(g.bytes) = a + (l + z)
    BY <1>5, <1>6
  <2>2. (a + l) + z = a + (l + z)
    OBVIOUS
  <2> QED BY <2>1, <2>2, Zenon
<1>8. Holds(g, e)
  BY <1>2, <1>5, HoldsWritten
<1>9. /\ files'[c] = g /\ \A f \in 1 .. 2 : f # c => files'[f] = files[f]
      /\ current' = c
  BY <1>1, <1>2 DEF WriteTable
<1>10. e # "." /\ (Switched' <=> Switched)
  BY <1>3 DEF Id, Table
<1>11. ASSUME NEW id \in Id, NEW f \in 1 .. 2, Holds(files[f], id)
       PROVE  Holds(files[f], id)'
  <2>1. CASE f = c
    <3>1. Holds(f0, id) /\ table_at[id] \in Nat /\ Size(id) \in Nat
      BY <1>2, <1>11, <2>1
    <3>3. \A h : h = [f0 EXCEPT !.bytes = @ \o ct] => Holds(h, id)
      BY <3>1, HoldsLonger
    <3>4. Holds(g, id)
      BY <3>3
    <3>2. Holds(files[f], id)' <=> Holds(g, id)
      BY <1>3, <1>9, <2>1 DEF Holds
    <3> QED BY <3>2, <3>4
  <2>2. CASE f # c
    BY <1>3, <1>9, <1>11, <2>2 DEF Holds
  <2> QED BY <2>1, <2>2
<1>12. Holds(files[c], e)'
  BY <1>3, <1>8, <1>9 DEF Holds
<1>13. ASSUME NEW n \in 1 .. WrittenUpto' - 1, options'.order[n] \in Id
       PROVE  \E f \in 1 .. 2 : Holds(files[f], options.order[n])'
  <2> PICK id \in Id : id = options.order[n] /\ id = options'.order[n]
    BY <1>3, <1>13
  <2>1. \E f \in 1 .. 2 : Holds(files[f], id)'
    <3>1. CASE n = k
      BY <1>12, <3>1
    <3>2. CASE n # k
      <4>1. PICK f \in 1 .. 2 : Holds(files[f], id)
        BY <1>3, <1>4, <3>2 DEF Written
      <4> QED BY <1>11, <4>1
    <3> QED BY <3>1, <3>2
  <2> QED BY <2>1 DEF Holds
<1>14. Written(addr)'
  <2>1. /\ current' = IF Switched' THEN 2 ELSE 1
        /\ files'[1].addr = part1_start'
        /\ files'[current'].addr + Len(files'[current'].bytes) = addr[WrittenUpto']
    <3>1. current = IF Switched THEN 2 ELSE 1
      BY <1>4 DEF Written
    <3>2. files'[1].addr = part1_start'
      <4>1. files[1].addr = part1_start
        BY <1>4 DEF Written
      <4>2. CASE c = 1
        BY <1>3, <1>6, <1>9, <4>1, <4>2
      <4>3. CASE c # 1
        BY <1>3, <1>9, <4>1, <4>3
      <4> QED BY <4>2, <4>3
    <3> QED BY <1>3, <1>7, <1>9, <1>10, <3>1, <3>2
  <2>2. IF options.do_split THEN files'[2].addr = part2_start' ELSE files'[2] = NoFile
    <3>1. c = 2 => options.do_split
      BY <1>4 DEF Written, Switched
    <3>2. IF options.do_split THEN files[2].addr = part2_start ELSE files[2] = NoFile
      BY <1>4 DEF Written
    <3>3. CASE c = 2
      BY <1>3, <1>6, <1>9, <3>1, <3>2, <3>3
    <3>4. CASE c # 2
      BY <1>3, <1>9, <3>2, <3>4
    <3> QED BY <3>3, <3>4
  <2>3. /\ current' = 2 => part1_start' + Len(files'[1].bytes) = part1_end'
        /\ current' = 1 /\ options.do_split => files'[2].bytes = <<>>
    <3>1. /\ c = 2 => part1_start + Len(files[1].bytes) = part1_end
          /\ c = 1 /\ options.do_split => files[2].bytes = <<>>
      BY <1>4 DEF Written
    <3> QED BY <1>3, <1>9, <3>1
  <2> QED BY <1>3, <1>13, <2>1, <2>2, <2>3 DEF Written
<1>15. Path(addr)'
  BY <1>3, <1>4, BehindPath
<1> QED BY <1>14, <1>15 DEF Routed, Addresses

\* What is held stays so when no file changes.
LEMMA HeldKept ==
  ASSUME UNCHANGED <<files, table_at>>,
         NEW id, Size(id)' = Size(id), Content(id)' = Content(id),
         NEW f \in 1 .. 2, Holds(files[f], id)
  PROVE  Holds(files[f], id)'
  BY DEF Holds

LEMMA SwitchFileRoutes ==
  ASSUME LayInv, Routed, SwitchFile
  PROVE  Routed'
<1>0. /\ AtEntry("write") /\ NextEntry /\ UNCHANGED <<layoutVars, compiled_program>>
      /\ files' = files /\ current' = 2 /\ options.order[k] = "." /\ options.do_split
  BY DEF SwitchFile, Entry
<1>1. /\ Laying /\ lay_pc = "write" /\ WrittenUpto = k
      /\ k \in 1 .. TABLE_ORDER_LENGTH /\ k \in 1 .. Upto - 1
      /\ files \in [1 .. 2 -> File]
  BY <1>0, WriteFacts
<1>2. /\ Behind /\ lay_pc' = "write" /\ WrittenUpto' = k + 1
      /\ 1 .. WrittenUpto' - 1 = (1 .. WrittenUpto - 1) \cup {k}
      /\ Switched'
      /\ options' = options /\ table_at' = table_at
      /\ part1_start' = part1_start /\ part1_end' = part1_end
      /\ part2_start' = part2_start
      /\ \A id \in Id : Size(id)' = Size(id) /\ Content(id)' = Content(id)
  BY <1>0, WriteAdvances
<1>3. PICK addr \in Addresses : Path(addr) /\ Written(addr)
  BY <1>1 DEF Routed
<1>4. part1_end = addr[k] /\ addr[k + 1] = part2_start
  BY <1>0, <1>1, <1>3 DEF Path
<1>5. ~Switched /\ current = 1
  <2>1. \A n \in 1 .. k - 1 : options.order[n] # "."
    BY <1>0, <1>1, EarlierDiffer DEF Listed
  <2> QED BY <1>1, <1>3, <2>1 DEF Switched, Written
<1>6. files[1].addr = part1_start /\ files[1].addr + Len(files[1].bytes) = part1_end
  BY <1>1, <1>3, <1>4, <1>5 DEF Written
<1>7. files[2].addr = part2_start /\ files[2].bytes = <<>> /\ part2_start \in Nat
  BY <1>0, <1>3, <1>5 DEF Written, LayInv, LayoutTypeOK
<1>8. files[2].addr + Len(files[2].bytes) = part2_start
  <2>1. Len(files[2].bytes) = 0
    BY <1>7, EmptySeq
  <2> QED BY <1>7, <2>1
<1>9. ASSUME NEW n \in 1 .. WrittenUpto' - 1, options'.order[n] \in Id
      PROVE  \E f \in 1 .. 2 : Holds(files[f], options.order[n])'
  <2> PICK id \in Id : id = options.order[n] /\ id = options'.order[n]
    BY <1>2, <1>9
  <2>1. n # k
    BY <1>0 DEF Id, Table
  <2>2. PICK f \in 1 .. 2 : Holds(files[f], id)
    BY <1>2, <1>3, <2>1 DEF Written
  <2>3. Holds(files[f], id)'
    BY <1>0, <1>2, <2>2, HeldKept
  <2> QED BY <2>3 DEF Holds
<1>10. Written(addr)'
  BY <1>0, <1>2, <1>4, <1>6, <1>7, <1>8, <1>9 DEF Written
<1>11. Path(addr)'
  BY <1>2, <1>3, BehindPath
<1> QED BY <1>10, <1>11 DEF Routed, Addresses

LEMMA SkipInWriteRoutes ==
  ASSUME LayInv, Routed, SkipEntry("write")
  PROVE  Routed'
<1>0. /\ AtEntry("write") /\ NextEntry /\ UNCHANGED <<layoutVars, compiled_program>>
      /\ files' = files /\ current' = current /\ options.order[k] \notin Id
      /\ options.order[k] = "." => ~options.do_split
  BY DEF SkipEntry, Entry, outputVars
<1>1. /\ Laying /\ lay_pc = "write" /\ WrittenUpto = k
      /\ k \in 1 .. TABLE_ORDER_LENGTH /\ k \in 1 .. Upto - 1
  BY <1>0, WriteFacts
<1>2. /\ Behind /\ lay_pc' = "write" /\ WrittenUpto' = k + 1
      /\ 1 .. WrittenUpto' - 1 = (1 .. WrittenUpto - 1) \cup {k}
      /\ (Switched' <=> Switched)
      /\ options' = options /\ table_at' = table_at
      /\ part1_start' = part1_start /\ part1_end' = part1_end
      /\ part2_start' = part2_start
      /\ \A id \in Id : Size(id)' = Size(id) /\ Content(id)' = Content(id)
  BY <1>0, WriteAdvances
<1>3. PICK addr \in Addresses : Path(addr) /\ Written(addr)
  BY <1>1 DEF Routed
<1>4. addr[k + 1] = addr[k]
  BY <1>0, <1>1, <1>3 DEF Path
<1>5. ASSUME NEW n \in 1 .. WrittenUpto' - 1, options'.order[n] \in Id
      PROVE  \E f \in 1 .. 2 : Holds(files[f], options.order[n])'
  <2> PICK id \in Id : id = options.order[n] /\ id = options'.order[n]
    BY <1>2, <1>5
  <2>1. n # k
    BY <1>0
  <2>2. PICK f \in 1 .. 2 : Holds(files[f], id)
    BY <1>2, <1>3, <2>1 DEF Written
  <2>3. Holds(files[f], id)'
    BY <1>0, <1>2, <2>2, HeldKept
  <2> QED BY <2>3 DEF Holds
<1>6. Written(addr)'
  BY <1>0, <1>1, <1>2, <1>3, <1>4, <1>5 DEF Written
<1>7. Path(addr)'
  BY <1>2, <1>3, BehindPath
<1> QED BY <1>6, <1>7 DEF Routed, Addresses

LEMMA CheckSpacesRoutes ==
  ASSUME LayInv, Routed, CheckSpaces, Laying'
  PROVE  Routed'
<1>1. /\ lay_pc = "write" /\ k = TABLE_ORDER_LENGTH + 1 /\ lay_pc' = "accepted"
      /\ UNCHANGED <<mainVars, options, k, layoutVars, outputVars>>
  BY DEF CheckSpaces, AtLoopEnd, Laying, LayInv, LayoutTypeOK, TABLE_ORDER_LENGTH
<1>2. PICK addr \in Addresses : Path(addr) /\ Written(addr)
  BY <1>1 DEF Routed
<1>3. Behind
  BY <1>1 DEF Behind, Compiled, outputVars
<1>4. WrittenUpto' = WrittenUpto /\ (Switched' <=> Switched)
  <2>1. WrittenUpto' = WrittenUpto
    BY <1>1 DEF WrittenUpto
  <2> QED BY <1>1, <2>1 DEF Switched
<1>5. \A id \in Id : Size(id)' = Size(id) /\ Content(id)' = Content(id)
  BY <1>1, SizeKept, ContentKept DEF outputVars
<1>6. /\ UNCHANGED <<options, files, current, table_at>>
      /\ UNCHANGED <<part1_start, part1_end, part2_start>>
  BY <1>1 DEF outputVars, layoutVars, partVars
<1>7. ASSUME NEW n \in 1 .. WrittenUpto' - 1, options'.order[n] \in Id
      PROVE  \E f \in 1 .. 2 : Holds(files[f], options.order[n])'
  <2> PICK id \in Id : id = options.order[n] /\ id = options'.order[n]
    BY <1>6, <1>7
  <2>1. PICK f \in 1 .. 2 : Holds(files[f], id)
    BY <1>2, <1>4 DEF Written
  <2>2. Holds(files[f], id)'
    BY <1>5, <1>6, <2>1, HeldKept
  <2> QED BY <2>2 DEF Holds
<1>8. Written(addr)'
  BY <1>2, <1>4, <1>6, <1>7 DEF Written
<1>9. Path(addr)'
  BY <1>2, <1>3, BehindPath
<1> QED BY <1>8, <1>9 DEF Routed, Addresses

LEMMA RouteStutters ==
  ASSUME LayInv, Routed, UNCHANGED lvars
  PROVE  Routed'
<1>1. /\ UNCHANGED mainVars
      /\ UNCHANGED <<options, lay_pc, k, cur_address, table_at>>
      /\ UNCHANGED <<part1_start, part1_end, part2_start, part2_end>>
      /\ UNCHANGED <<compiled_program, current, files>>
  BY DEF lvars, layVars, layoutVars, partVars, outputVars
<1>2. PICK addr \in Addresses :
        Path(addr) /\ (lay_pc \in {"write", "accepted"} => Written(addr))
  BY DEF Routed
<1>3. Upto' = Upto /\ WrittenUpto' = WrittenUpto
  BY <1>1 DEF Upto, WrittenUpto
<1>4. Path(addr)'
  BY <1>1, <1>2, <1>3, PathKept
<1>5. ASSUME Written(addr) PROVE Written(addr)'
  <2>1. \A id \in Id : Size(id)' = Size(id) /\ Content(id)' = Content(id)
    BY <1>1, SizeKept, ContentKept
  <2>2. Switched' <=> Switched
    BY <1>1, <1>3 DEF Switched
  <2>3. ASSUME NEW n \in 1 .. WrittenUpto' - 1, options'.order[n] \in Id
        PROVE  \E f \in 1 .. 2 : Holds(files[f], options.order[n])'
    <3> PICK id \in Id : id = options.order[n] /\ id = options'.order[n]
      BY <1>1, <2>3
    <3>1. PICK f \in 1 .. 2 : Holds(files[f], id)
      BY <1>3, <1>5 DEF Written
    <3>2. Holds(files[f], id)'
      BY <1>1, <2>1, <3>1, HeldKept
    <3> QED BY <3>2 DEF Holds
  <2> QED BY <1>1, <1>3, <1>5, <2>2, <2>3 DEF Written
<1> QED BY <1>1, <1>2, <1>4, <1>5 DEF Routed, Addresses

LEMMA LayoutRoutes ==
  ASSUME RouteInv, NextLayout
  PROVE  RouteInv'
<1>1. LayInv /\ LayInv'
  BY LayoutHolds DEF RouteInv
<1> SUFFICES ASSUME Laying' PROVE Routed'
  BY <1>1 DEF RouteInv
<1>2. CASE CheckOptions \/ Pack \/ Reject \/ OutputFails
  BY <1>2 DEF CheckOptions, Pack, Reject, OutputFails, Laying, layVars
<1>3. CASE BeginLayout
  BY <1>1, <1>3, BeginLayoutRoutes
<1>4. CASE PlaceTable
  BY <1>1, <1>4, PlaceTableRoutes DEF RouteInv, PlaceTable, AtEntry, Laying
<1>5. CASE PlaceSeparator
  BY <1>1, <1>5, PlaceSeparatorRoutes DEF RouteInv, PlaceSeparator, AtEntry, Laying
<1>6. CASE SkipEntry("layout")
  BY <1>1, <1>6, SkipInLayoutRoutes DEF RouteInv, SkipEntry, AtEntry, Laying
<1>7. CASE Compile
  BY <1>1, <1>7, CompileRoutes DEF RouteInv, Compile, AtLoopEnd, Laying
<1>8. CASE OpenOutputs
  BY <1>1, <1>8, OpenOutputsRoutes DEF RouteInv, OpenOutputs, Laying
<1>9. CASE WriteTable
  BY <1>1, <1>9, WriteTableRoutes DEF RouteInv, WriteTable, AtEntry, Laying
<1>10. CASE SwitchFile
  BY <1>1, <1>10, SwitchFileRoutes DEF RouteInv, SwitchFile, AtEntry, Laying
<1>11. CASE SkipEntry("write")
  BY <1>1, <1>11, SkipInWriteRoutes DEF RouteInv, SkipEntry, AtEntry, Laying
<1>12. CASE CheckSpaces
  BY <1>1, <1>12, CheckSpacesRoutes DEF RouteInv, CheckSpaces, AtLoopEnd, Laying
<1> QED BY <1>2, <1>3, <1>4, <1>5, <1>6, <1>7, <1>8, <1>9, <1>10, <1>11, <1>12
     DEF NextLayout

\* What the layout and the two loops over the order keep to holds in every
\* reachable state.
THEOREM RouteInvariance == DepackerSpec => []RouteInv
<1>1. DepackerInit => RouteInv
  BY LayInit DEF DepackerInit, LayoutInit, InitLayout, RouteInv, Laying
<1>2. RouteInv /\ [DepackerNext \/ (AllDone /\ UNCHANGED dvars)]_dvars => RouteInv'
  <2> SUFFICES ASSUME RouteInv, [DepackerNext \/ (AllDone /\ UNCHANGED dvars)]_dvars
               PROVE  RouteInv'
    OBVIOUS
  <2>1. CASE NextLayout
    BY <2>1, LayoutRoutes
  <2>2. CASE UNCHANGED lvars
    <3>1. LayInv' /\ (Laying' => Laying)
      BY <2>2, LayoutStutters DEF RouteInv, Laying, lvars, layVars
    <3> QED BY <2>2, <3>1, RouteStutters DEF RouteInv
  <2>3. CASE NextCpu
    BY <2>2, <2>3, CpuLeavesMain
  <2>4. CASE UNCHANGED dvars
    BY <2>2, <2>4 DEF dvars
  <2> QED BY <2>1, <2>3, <2>4 DEF DepackerNext
<1> QED BY <1>1, <1>2, PTL DEF DepackerSpec

\* At the end of the write loop the files hold the tables.
LEMMA FilesHold == RouteInv => FilesHoldTables
<1> SUFFICES ASSUME RouteInv, lay_pc = "accepted"
             PROVE  /\ \A id \in Placed : \E f \in {1, 2} : Holds(files[f], id)
                    /\ Len(files[1].bytes) = part1_end - part1_start
                    /\ options.do_split => Len(files[2].bytes) = part2_end - part2_start
                    /\ ~options.do_split => files[2] = NoFile
  BY DEF FilesHoldTables
<1>1. /\ LayInv /\ Progressed /\ Compiled /\ LayoutTypeOK
      /\ WrittenUpto = TABLE_ORDER_LENGTH + 1 /\ Upto = TABLE_ORDER_LENGTH + 1
      /\ Len(options.order) = TABLE_ORDER_LENGTH
  BY DEF RouteInv, LayInv, Compiled, Progressed, Laying, WrittenUpto, Upto,
         ValidOptions, ValidOrder
<1>2. PICK addr \in Addresses : Path(addr) /\ Written(addr)
  BY DEF RouteInv, Laying, Routed
<1>3. \A id \in Placed : \E f \in {1, 2} : Holds(files[f], id)
  <2> SUFFICES ASSUME NEW id \in Placed PROVE \E f \in {1, 2} : Holds(files[f], id)
    OBVIOUS
  <2>1. PICK n \in 1 .. TABLE_ORDER_LENGTH : id = options.order[n] /\ id \in Id
    BY <1>1 DEF Placed
  <2>2. n \in 1 .. WrittenUpto - 1
    BY <1>1 DEF TABLE_ORDER_LENGTH
  <2>3. \E f \in 1 .. 2 : Holds(files[f], id)
    BY <1>2, <2>1, <2>2 DEF Written
  <2>4. 1 .. 2 = {1, 2}
    OBVIOUS
  <2> QED BY <2>3, <2>4
<1>4. addr[WrittenUpto] = cur_address
  BY <1>1, <1>2 DEF Path
<1>5. /\ part1_start \in Nat /\ part1_end \in Nat /\ part2_start \in Nat
      /\ cur_address \in Nat
      /\ Len(files[1].bytes) \in Nat /\ Len(files[2].bytes) \in Nat
  <2>1. files[1].bytes \in Seq(0 .. CODE) /\ files[2].bytes \in Seq(0 .. CODE)
    BY <1>1 DEF LayoutTypeOK
  <2>2. Len(files[1].bytes) \in Nat /\ Len(files[2].bytes) \in Nat
    BY <2>1
  <2> QED BY <1>1, <2>2 DEF LayoutTypeOK
<1>6. CASE options.do_split
  <2>1. Switched
    BY <1>1, <1>6 DEF Progressed, Passed, Switched
  <2>2. /\ current = 2 /\ part1_start + Len(files[1].bytes) = part1_end
        /\ files[2].addr = part2_start
        /\ files[2].addr + Len(files[2].bytes) = cur_address
    BY <1>2, <1>4, <1>6, <2>1 DEF Written
  <2>3. part2_end = cur_address
    BY <1>1, <1>6 DEF Progressed
  <2>4. /\ Len(files[1].bytes) = part1_end - part1_start
        /\ Len(files[2].bytes) = part2_end - part2_start
    BY <1>5, <2>2, <2>3
  <2> QED BY <1>3, <1>6, <2>4
<1>7. CASE ~options.do_split
  <2>1. /\ current = 1 /\ files[1].addr = part1_start /\ files[2] = NoFile
        /\ files[1].addr + Len(files[1].bytes) = cur_address
    BY <1>2, <1>4, <1>7 DEF Written, Switched
  <2>2. part1_end = cur_address
    BY <1>1, <1>7 DEF Progressed
  <2>3. Len(files[1].bytes) = part1_end - part1_start
    BY <1>5, <2>1, <2>2
  <2> QED BY <1>3, <1>7, <2>1, <2>3
<1> QED BY <1>6, <1>7

\* When main ends with success, the files hold every table at the address that
\* was compiled into the depacker: the write loop goes the way of the layout
\* loop, whatever the order is and wherever the separator stands.
THEOREM FilesCorrect == DepackerSpec => []FilesHoldTables
  BY FilesHold, RouteInvariance, PTL

=============================================================================
