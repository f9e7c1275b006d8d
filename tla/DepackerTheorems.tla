--------------------------- MODULE DepackerTheorems ---------------------------
(***************************************************************************)
(* What is proved of the depacker on the 6502, for every byte size, opcode *)
(* table, program and setting that is Intended: it unpacks the program,    *)
(* writes nowhere else, and implements the depacker that sees only the     *)
(* tables.                                                                 *)
(*                                                                         *)
(* U is that one with what is proved of it, for the bytes taken and        *)
(* written that the memory of the 6502 shows: its invariant says where the *)
(* pointers and the store instruction point to.                            *)
(***************************************************************************)
EXTENDS LayoutTheorems

U == INSTANCE UnsplitterTheorems
       WITH run <- runBar, taken <- takenBar, args <- argsBar, out <- outBar

-----------------------------------------------------------------------------
(***************************************************************************)
(* Bytes, words and distances.                                             *)
(***************************************************************************)

\* The last page ends with the memory.
LEMMA LimitFacts ==
  /\ PAGE \in Nat /\ PAGE >= 22 /\ ADDR_LIMIT \in Nat /\ ADDR_LIMIT = PAGE * PAGE
  /\ ADDR_LIMIT > 2 * PAGE
  /\ \A h \in Byte : PAGE * h \in Nat /\ PAGE * h + PAGE <= ADDR_LIMIT
<1>1. PAGE \in Nat /\ PAGE >= 22 /\ ADDR_LIMIT \in Nat /\ ADDR_LIMIT = PAGE * PAGE
  BY PageFacts
<1>2. PAGE * PAGE >= 22 * PAGE
  BY <1>1
<1>3. ASSUME NEW h \in Byte
      PROVE  PAGE * h \in Nat /\ PAGE * h + PAGE <= PAGE * PAGE
  <2>1. h \in Nat /\ h + 1 <= PAGE
    BY <1>1 DEF Byte
  <2>2. PAGE * (h + 1) <= PAGE * PAGE
    BY <1>1, <2>1
  <2> QED BY <1>1, <2>1, <2>2
<1> QED BY <1>1, <1>2, <1>3

\* The remainder of numbers that are not twice as large.
LEMMA Remainder ==
  ASSUME NEW n \in Nat, n > 0, NEW a \in Nat
  PROVE  /\ a < n => a % n = a
         /\ n <= a /\ a < 2 * n => a % n = a - n
         /\ a % n \in 0 .. n - 1
  OBVIOUS

\* An address is its own remainder.
LEMMA WithinLimit ==
  ASSUME NEW a \in Nat, a < ADDR_LIMIT
  PROVE  a % ADDR_LIMIT = a
<1>1. PICK n \in Nat : n = ADDR_LIMIT /\ n > 0
  BY LimitFacts
<1> QED BY <1>1, Remainder

\* The word of two bytes.
LEMMA WordFacts ==
  ASSUME NEW lo \in Byte, NEW hi \in Byte
  PROVE  Word(lo, hi) = lo + PAGE * hi /\ Word(lo, hi) \in Addr
<1>1. /\ lo \in Nat /\ lo < PAGE /\ PAGE * hi \in Nat
      /\ PAGE * hi + PAGE <= ADDR_LIMIT
  BY LimitFacts DEF Byte
<1>2. lo + PAGE * hi \in Nat /\ lo + PAGE * hi < ADDR_LIMIT
  BY <1>1, LimitFacts
<1>3. (lo + PAGE * hi) % ADDR_LIMIT = lo + PAGE * hi
  BY <1>2, LimitFacts, Remainder
<1> QED BY <1>2, <1>3, LimitFacts DEF Word, Addr

\* The word after an increment of its bytes.
LEMMA WordNext ==
  ASSUME NEW lo \in Byte, NEW hi \in Byte
  PROVE  LET next == (lo + 1) % PAGE
         IN  /\ next \in Byte /\ (hi + 1) % PAGE \in Byte
             /\ Word(next, IF next # 0 THEN hi ELSE (hi + 1) % PAGE)
                  = (Word(lo, hi) + 1) % ADDR_LIMIT
<1> DEFINE w == Word(lo, hi)
<1>1. /\ lo \in Nat /\ lo < PAGE /\ hi \in Nat /\ hi < PAGE
      /\ PAGE * hi \in Nat /\ PAGE * hi + PAGE <= ADDR_LIMIT
      /\ w = lo + PAGE * hi /\ w \in Addr
  BY LimitFacts, WordFacts DEF Byte
<1>2. (lo + 1) % PAGE \in Byte /\ (hi + 1) % PAGE \in Byte
  BY <1>1, LimitFacts DEF Byte
<1>3. CASE lo + 1 < PAGE
  <2>1. (lo + 1) % PAGE = lo + 1 /\ lo + 1 \in Byte
    BY <1>1, <1>3, LimitFacts DEF Byte
  <2>2. Word(lo + 1, hi) = w + 1 /\ w + 1 \in Addr
    BY <1>1, <2>1, WordFacts
  <2>3. (w + 1) % ADDR_LIMIT = w + 1
    BY <2>2, LimitFacts, Remainder DEF Addr
  <2> QED BY <1>1, <1>2, <2>1, <2>2, <2>3
<1>4. CASE lo + 1 = PAGE /\ hi + 1 < PAGE
  <2>1. /\ (lo + 1) % PAGE = 0 /\ (hi + 1) % PAGE = hi + 1
        /\ 0 \in Byte /\ hi + 1 \in Byte
    BY <1>1, <1>4, LimitFacts DEF Byte
  <2>2. Word(0, hi + 1) = PAGE * (hi + 1) /\ Word(0, hi + 1) \in Addr
    BY <2>1, WordFacts, LimitFacts
  <2>3. PAGE * (hi + 1) = w + 1
    BY <1>1, <1>4, LimitFacts
  <2>4. (w + 1) % ADDR_LIMIT = w + 1
    BY <2>2, <2>3, LimitFacts, Remainder DEF Addr
  <2> QED BY <2>1, <2>2, <2>3, <2>4
<1>5. CASE lo + 1 = PAGE /\ hi + 1 = PAGE
  <2>1. (lo + 1) % PAGE = 0 /\ (hi + 1) % PAGE = 0 /\ 0 \in Byte
    BY <1>5, LimitFacts DEF Byte
  <2>2. Word(0, 0) = 0
    BY <2>1, WordFacts, LimitFacts
  <2>3. w + 1 = ADDR_LIMIT
    <3>1. PAGE * (hi + 1) = PAGE * hi + PAGE
      BY <1>1, LimitFacts
    <3> QED BY <1>1, <1>5, <3>1, LimitFacts
  <2>4. (w + 1) % ADDR_LIMIT = 0
    BY <2>3, LimitFacts, Remainder
  <2> QED BY <2>1, <2>2, <2>4
<1>6. (lo + 1 < PAGE \/ lo + 1 = PAGE) /\ (hi + 1 < PAGE \/ hi + 1 = PAGE)
  BY <1>1, LimitFacts
<1> QED BY <1>3, <1>4, <1>5, <1>6

\* An address and its bytes.
LEMMA WordDigits ==
  ASSUME NEW a \in 0 .. ADDR_LIMIT
  PROVE  /\ a % PAGE \in Byte /\ HighByte(a) \in Byte
         /\ Word(a % PAGE, HighByte(a)) = a % ADDR_LIMIT
<1>1. a \in Nat /\ a <= PAGE * PAGE
  BY LimitFacts
<1>2. PICK q \in Int : q = a \div PAGE
  BY <1>1, LimitFacts
<1>3. PICK r \in Nat : r = a % PAGE /\ r < PAGE
  BY <1>1, LimitFacts
<1>4. a = PAGE * q + r
  BY <1>1, <1>2, <1>3, LimitFacts
<1>5. 0 <= q /\ q <= PAGE
  BY <1>1, <1>2, LimitFacts
<1>6. CASE q < PAGE
  <2>1. q % PAGE = q /\ q \in Byte /\ r \in Byte
    BY <1>3, <1>5, <1>6, LimitFacts DEF Byte
  <2>2. Word(r, q) = a /\ Word(r, q) \in Addr
    BY <1>4, <2>1, WordFacts, LimitFacts
  <2>3. a % ADDR_LIMIT = a
    BY <2>2, LimitFacts, Remainder DEF Addr
  <2> QED BY <1>2, <1>3, <2>1, <2>2, <2>3 DEF HighByte
<1>7. CASE q = PAGE
  <2>1. r = 0 /\ a = ADDR_LIMIT
    BY <1>1, <1>3, <1>4, <1>7, LimitFacts
  <2>2. q % PAGE = 0 /\ 0 \in Byte
    BY <1>7, LimitFacts DEF Byte
  <2>3. Word(0, 0) = 0
    BY <2>2, WordFacts, LimitFacts
  <2>4. a % ADDR_LIMIT = 0
    BY <2>1, LimitFacts
  <2> QED BY <1>2, <1>3, <2>1, <2>2, <2>3, <2>4 DEF HighByte
<1> QED BY <1>2, <1>5, <1>6, <1>7, LimitFacts

\* There is one way to divide.
LEMMA DivisionUnique ==
  ASSUME NEW n \in Nat, NEW p \in Int, NEW q \in Int,
         NEW r \in 0 .. n - 1, NEW s \in 0 .. n - 1,
         n * p + r = n * q + s
  PROVE  p = q /\ r = s
<1>1. ASSUME NEW x \in Int, NEW y \in Int, x < y PROVE n * x + n <= n * y
  <2>1. n * (x + 1) <= n * y
    BY <1>1
  <2>2. n * (x + 1) = n * x + n
    OBVIOUS
  <2>3. n * x \in Int /\ n * y \in Int /\ n * (x + 1) \in Int
    OBVIOUS
  <2> QED BY <2>1, <2>2, <2>3
<1>2. n * p \in Int /\ n * q \in Int
  OBVIOUS
<1>3. ~(p < q)
  BY <1>1, <1>2
<1>4. ~(q < p)
  BY <1>1, <1>2
<1>5. p = q
  BY <1>3, <1>4
<1> QED BY <1>2, <1>5

\* The bytes of a word tell which it is.
LEMMA WordIs ==
  ASSUME NEW lo \in Byte, NEW hi \in Byte, NEW e \in Addr
  PROVE  Word(lo, hi) = e <=> lo = e % PAGE /\ hi = e \div PAGE
<1>1. e \in Nat /\ e < ADDR_LIMIT
  BY LimitFacts DEF Addr
<1>2. lo \in 0 .. PAGE - 1 /\ hi \in Int
  BY LimitFacts DEF Byte
<1>3. PICK q \in Int, r \in 0 .. PAGE - 1 : q = e \div PAGE /\ r = e % PAGE
  BY <1>1, LimitFacts
<1>4. e = PAGE * q + r
  BY <1>1, <1>3, LimitFacts
<1>5. Word(lo, hi) = PAGE * hi + lo
  BY <1>2, WordFacts, LimitFacts
<1>6. PAGE * hi + lo = PAGE * q + r => hi = q /\ lo = r
  BY <1>2, LimitFacts, DivisionUnique
<1> QED BY <1>3, <1>4, <1>5, <1>6

\* How far the address w is behind t, around the end of the memory.
Distance(w, t) == (w + ADDR_LIMIT - t) % ADDR_LIMIT

\* How a pointer moves away from where it started.
LEMMA DistanceFacts ==
  ASSUME NEW w \in Addr, NEW t \in 1 .. ADDR_LIMIT
  PROVE  LET c == Distance(w, t)
         IN  /\ c \in Nat
             /\ t + c < ADDR_LIMIT => /\ w = t + c
                                      /\ Distance((w + 1) % ADDR_LIMIT, t) = c + 1
             /\ t + c = ADDR_LIMIT => w = 0
<1> DEFINE c == Distance(w, t)
<1>1. w \in Nat /\ w < ADDR_LIMIT /\ t \in Nat /\ t >= 1 /\ t <= ADDR_LIMIT
  BY LimitFacts DEF Addr
<1>2. CASE w >= t
  <2>1. c = w - t
    BY <1>1, <1>2, LimitFacts, Remainder DEF Distance
  <2>2. CASE w + 1 < ADDR_LIMIT
    <3>1. (w + 1) % ADDR_LIMIT = w + 1
      BY <1>1, <2>2, LimitFacts, Remainder
    <3>2. Distance(w + 1, t) = w + 1 - t
      BY <1>1, <1>2, <2>2, LimitFacts, Remainder DEF Distance
    <3> QED BY <1>1, <1>2, <2>1, <3>1, <3>2
  <2>3. CASE w + 1 = ADDR_LIMIT
    <3>1. (w + 1) % ADDR_LIMIT = 0
      BY <1>1, <2>3, LimitFacts, Remainder
    <3>2. Distance(0, t) = ADDR_LIMIT - t
      BY <1>1, LimitFacts, Remainder DEF Distance
    <3> QED BY <1>1, <1>2, <2>1, <2>3, <3>1, <3>2
  <2> QED BY <1>1, <2>2, <2>3, LimitFacts
<1>3. CASE w < t
  <2>1. c = w + ADDR_LIMIT - t
    BY <1>1, <1>3, LimitFacts, Remainder DEF Distance
  <2> QED BY <1>1, <1>3, <2>1, LimitFacts
<1> QED BY <1>1, <1>2, <1>3, LimitFacts

-----------------------------------------------------------------------------
(***************************************************************************)
(* What main leaves behind: no part lies in the first two pages, and the   *)
(* depacker was compiled for the addresses the tables have.                *)
(***************************************************************************)

\* Nothing is laid out below the third page.
PartsAbove ==
  Laying => /\ 2 * PAGE <= part1_start /\ 2 * PAGE <= part2_start
            /\ 2 * PAGE <= cur_address

\* What was compiled is the depacker for the tables as they are.
CompiledFor == Compiled => compiled_program = Decruncher /\ ~CompileFails

\* The invariant of main.
MainInv == RouteInv /\ PartsAbove /\ CompiledFor

\* All of it holds at the start.
LEMMA MainInit == LayoutInit => MainInv
  BY LayInit DEF LayoutInit, InitLayout, MainInv, RouteInv, PartsAbove, CompiledFor,
     Laying, Compiled

\* The addresses only grow from where the parts start.
LEMMA PartsAboveHolds ==
  ASSUME LayInv, PartsAbove, NextLayout
  PROVE  PartsAbove'
<1> SUFFICES ASSUME Laying'
             PROVE  /\ 2 * PAGE <= part1_start' /\ 2 * PAGE <= part2_start'
                    /\ 2 * PAGE <= cur_address'
  BY DEF PartsAbove
<1>1. CASE BeginLayout
  <2>1. ValidOptions
    BY <1>1 DEF BeginLayout, LayInv, Progressed
  <2> QED BY <1>1, <2>1 DEF BeginLayout, ValidOptions, ValidTempaddr
<1>2. ASSUME NextLayout, ~BeginLayout
      PROVE  Laying
  BY <1>2 DEF NextLayout, CheckOptions, Pack, Reject, PlaceTable, PlaceSeparator,
     SkipEntry, Compile, OpenOutputs, WriteTable, SwitchFile, OutputFails,
     CheckSpaces, AtEntry, AtLoopEnd, NextEntry, Laying, layVars
<1>3. CASE PlaceTable
  <2>1. Laying /\ Entry \in Id /\ UNCHANGED partVars
        /\ cur_address' = cur_address + Size(Entry)
    BY <1>3 DEF PlaceTable, AtEntry, Laying
  <2>2. PICK n \in Nat : n = Size(Entry)
    BY <2>1, SizeFacts DEF LayInv
  <2>3. cur_address \in Nat
    BY DEF LayInv, LayoutTypeOK
  <2> QED BY <2>1, <2>2, <2>3, PageFacts DEF PartsAbove, partVars
<1>4. CASE PlaceSeparator
  <2>1. Laying /\ ValidOptions
    BY <1>4 DEF PlaceSeparator, AtEntry, Laying, LayInv, Progressed
  <2>2. options.tempaddr2 # 0 => 2 * PAGE <= options.tempaddr2
    BY <2>1 DEF ValidOptions, ValidTempaddr
  <2> QED BY <1>4, <2>1, <2>2 DEF PlaceSeparator, PartsAbove
<1>5. CASE UNCHANGED <<part1_start, part2_start, cur_address>> /\ ~BeginLayout
  BY <1>2, <1>5 DEF PartsAbove
<1>6. CASE Compile \/ OpenOutputs \/ WriteTable \/ SwitchFile \/ OutputFails \/ CheckSpaces
           \/ SkipEntry("layout") \/ SkipEntry("write") \/ CheckOptions \/ Pack \/ Reject
  <2>1. UNCHANGED <<part1_start, part2_start, cur_address>>
    BY <1>6 DEF Compile, OpenOutputs, WriteTable, SwitchFile, OutputFails, CheckSpaces,
       SkipEntry, CheckOptions, Pack, Reject, layVars, layoutVars, partVars
  <2> QED BY <1>1, <1>5, <2>1
<1> QED BY <1>1, <1>3, <1>4, <1>6 DEF NextLayout

\* What is compiled depends on the first half of main and on the addresses.
LEMMA CompiledKept ==
  ASSUME UNCHANGED mainVars, table_at' = table_at
  PROVE  Decruncher' = Decruncher /\ (CompileFails' <=> CompileFails)
<1>1. /\ eof_marker' = eof_marker /\ argtable_start' = argtable_start
      /\ data' = data /\ program_addr' = program_addr
  BY DEF mainVars, fileVars, splitVars, tableVars
<1>2. /\ count_depack' = count_depack /\ smc_offset' = smc_offset
      /\ tables_offset' = tables_offset
  BY <1>1 DEF count_depack, smc_offset, tables_offset
<1>3. \A n \in Int : PointerByte(n)' = PointerByte(n)
  BY DEF PointerByte
<1>4. Decruncher' = Decruncher
  BY <1>1, <1>2 DEF Decruncher, PointerByte
<1>5. real_program_len' = real_program_len
  BY <1>1 DEF real_program_len
<1> QED BY <1>1, <1>2, <1>4, <1>5 DEF CompileFails

\* A step of main keeps it: only Compile changes the compiled depacker.
LEMMA CompiledForHolds ==
  ASSUME LayInv, CompiledFor, NextLayout
  PROVE  CompiledFor'
<1> SUFFICES ASSUME Compiled' PROVE (compiled_program = Decruncher /\ ~CompileFails)'
  BY DEF CompiledFor
<1>1. CASE Compile
  <2>1. /\ UNCHANGED mainVars /\ table_at' = table_at
        /\ ~CompileFails /\ compiled_program' = Decruncher
    BY <1>1 DEF Compile, Compiled
  <2> QED BY <2>1, CompiledKept
<1>2. CASE OpenOutputs \/ WriteTable \/ SwitchFile \/ CheckSpaces \/ SkipEntry("write")
  <2>1. /\ UNCHANGED mainVars /\ table_at' = table_at
        /\ compiled_program' = compiled_program /\ Compiled
    BY <1>2 DEF OpenOutputs, WriteTable, SwitchFile, CheckSpaces, SkipEntry, AtEntry,
       AtLoopEnd, NextEntry, Compiled, layoutVars, outputVars
  <2> QED BY <2>1, CompiledKept DEF CompiledFor
<1>3. CASE CheckOptions \/ Pack \/ Reject \/ BeginLayout \/ PlaceTable \/ PlaceSeparator
           \/ SkipEntry("layout") \/ OutputFails
  BY <1>3 DEF CheckOptions, Pack, Reject, BeginLayout, PlaceTable, PlaceSeparator,
     SkipEntry, AtEntry, NextEntry, OutputFails, Compiled, layVars
<1> QED BY <1>1, <1>2, <1>3 DEF NextLayout

\* A step of main keeps all of it, and so does one of the depacker.
LEMMA MainInvHolds ==
  ASSUME MainInv, NextLayout
  PROVE  MainInv'
  BY LayoutRoutes, PartsAboveHolds, CompiledForHolds DEF MainInv, RouteInv

\* A step of the depacker leaves what main has written.
LEMMA MainInvKept ==
  ASSUME MainInv, UNCHANGED lvars
  PROVE  MainInv'
<1>1. /\ UNCHANGED mainVars
      /\ UNCHANGED <<lay_pc, cur_address, table_at, part1_start, part2_start, compiled_program>>
  BY DEF lvars, layVars, layoutVars, partVars, outputVars
<1>2. (Laying' <=> Laying) /\ (Compiled' <=> Compiled)
  BY <1>1 DEF Laying, Compiled
<1>3. RouteInv'
  BY <1>2, LayoutStutters, RouteStutters DEF MainInv, RouteInv
<1>4. PartsAbove' /\ CompiledFor'
  BY <1>1, <1>2, CompiledKept DEF MainInv, PartsAbove, CompiledFor
<1> QED BY <1>3, <1>4 DEF MainInv

-----------------------------------------------------------------------------
(***************************************************************************)
(* The memory when main has ended with success: where the tables, the      *)
(* program and the pointers lie.                                           *)
(***************************************************************************)

\* main has accepted the program, and it is one the depacker may be called for.
Accepted == MainInv /\ Intended /\ lay_pc = "accepted" /\ 2 * PAGE <= program_addr

\* The address behind a table.
TableEnd(id) == table_at[id] + Size(id)

\* The end of what is written to the place of the program.
LEMMA LengthFacts ==
  ASSUME SplitterOK
  PROVE  real_program_len \in Nat /\ program_addr \in Nat /\ program_end \in Nat
         /\ program_end = program_addr + real_program_len
<1>1. data \in [Table -> Seq(Byte)] /\ program_addr \in Nat
  BY DEF SplitterOK
<1>2. PICK o, l, im, r, z \in Nat :
        /\ Len(data["o"]) = o /\ Len(data["l"]) = l /\ Len(data["i"]) = im
        /\ Len(data["r"]) = r /\ Len(data["z"]) = z
  BY <1>1 DEF Table
<1>3. real_program_len = o + 2 * l + im + r + z
  BY <1>2 DEF real_program_len
<1> QED BY <1>1, <1>3 DEF program_end

\* Where the tables lie.
LEMMA TableFacts ==
  ASSUME Accepted, NEW id \in Id
  PROVE  /\ table_at[id] \in Nat /\ Size(id) \in Nat
         /\ 2 * PAGE <= table_at[id] /\ TableEnd(id) <= ADDR_LIMIT
         /\ Apart(table_at[id], TableEnd(id), program_addr, program_end)
         /\ \A b \in Id \ {id} :
              Apart(table_at[id], TableEnd(id), table_at[b], TableEnd(b))
<1>1. LayInv /\ LayoutTypeOK /\ SplitterOK /\ Settled /\ PartsAbove /\ Laying
      /\ Placed = Id
  BY DEF Accepted, MainInv, RouteInv, LayInv, Laying, Intended, EveryTablePlaced
<1>2. table_at[id] \in Nat /\ Size(id) \in Nat
  BY <1>1, SizeFacts DEF LayoutTypeOK
<1>3. Done = Placed
  <2>1. Len(options.order) = TABLE_ORDER_LENGTH
    BY <1>1 DEF LayInv, Progressed, Laying, ValidOptions, ValidOrder
  <2>2. Upto - 1 = TABLE_ORDER_LENGTH
    BY DEF Accepted, Upto, TABLE_ORDER_LENGTH
  <2> QED BY <2>1, <2>2 DEF Done, Placed
<1>4. InPart1(id) \/ InPart2(id)
  BY <1>1, <1>3 DEF Settled
<1>5. 2 * PAGE <= table_at[id]
  <2>1. /\ 2 * PAGE <= part1_start /\ 2 * PAGE <= part2_start
        /\ part1_start \in Nat /\ part2_start \in Nat
    BY <1>1 DEF PartsAbove, LayoutTypeOK
  <2>2. part1_start <= table_at[id] \/ part2_start <= table_at[id]
    BY <1>4 DEF InPart1, InPart2, Within
  <2> QED BY <1>2, <2>1, <2>2, LimitFacts
<1>6. RangesApart
  BY <1>1, RangesHold
<1> QED BY <1>1, <1>2, <1>5, <1>6 DEF RangesApart, Accepted, TableEnd

\* Where the depacker has its data, the zeropage and the program.
LEMMA PlaceFacts ==
  ASSUME Accepted
  PROVE  /\ ZP_TEMP \in Nat /\ ZP_TEMP + 11 < PAGE
         /\ program_addr \in Nat /\ 2 * PAGE <= program_addr
         /\ real_program_len \in Nat /\ program_end \in Nat
         /\ program_end = program_addr + real_program_len
         /\ program_end <= ADDR_LIMIT
         /\ eof_marker = PAGE => program_end < ADDR_LIMIT
         /\ smc_hi \in Nat /\ table_of_tables \in Nat
         /\ table_at["d"] <= smc_hi /\ table_of_tables = smc_hi + 8
         /\ table_of_tables + 12 = TableEnd("d")
         /\ ZP_TEMP + 11 < smc_hi
         /\ smc_hi < program_addr \/ program_end <= smc_hi
         /\ smc_hi < ADDR_LIMIT
<1>1. LayInv /\ LayoutTypeOK /\ SplitterOK /\ ValidOptions /\ ~CompileFails
  BY DEF Accepted, MainInv, RouteInv, LayInv, Progressed, Laying, CompiledFor, Compiled
<1>2. ZP_TEMP \in Nat /\ ZP_TEMP + 11 < PAGE
  <2>1. options.zpaddr \in Nat
    BY <1>1, LayoutAssumption DEF LayoutTypeOK, Setting
  <2> QED BY <1>1, <2>1, LimitFacts DEF ValidOptions, ValidZpaddr, ZP_TEMP
<1>3. /\ real_program_len \in Nat /\ program_addr \in Nat /\ program_end \in Nat
      /\ program_end = program_addr + real_program_len
  BY <1>1, LengthFacts
<1>4. program_end <= ADDR_LIMIT /\ 2 * PAGE <= program_addr
  BY DEF Accepted, Intended
<1>5. eof_marker = PAGE => program_end < ADDR_LIMIT
  BY <1>1, <1>3, LimitFacts DEF CompileFails
<1>6. "d" \in Id
  BY DEF Id
<1>7. PICK s \in Nat, c \in {68, 70, 77} :
        /\ s = table_at["d"] /\ c = count_depack /\ Size("d") = c
        /\ 2 * PAGE <= s /\ s + c <= ADDR_LIMIT
        /\ Apart(s, s + c, program_addr, program_end)
  BY <1>1, <1>6, TableFacts, SizeFacts DEF Size, TableEnd
<1>8. smc_hi = s + (c - 20) /\ table_of_tables = s + (c - 12) /\ TableEnd("d") = s + c
  BY <1>7 DEF smc_hi, table_of_tables, smc_offset, tables_offset, SmcOffset,
     TablesOffset, TableEnd
<1>9. /\ smc_hi \in Nat /\ table_of_tables \in Nat
      /\ s <= smc_hi /\ table_of_tables = smc_hi + 8
      /\ table_of_tables + 12 = TableEnd("d")
      /\ smc_hi < s + c
  BY <1>8
<1>10. smc_hi < program_addr \/ program_end <= smc_hi
  BY <1>3, <1>7, <1>9 DEF Apart
<1>11. ZP_TEMP + 11 < smc_hi /\ smc_hi < ADDR_LIMIT
  BY <1>2, <1>7, <1>9, LimitFacts
<1> QED BY <1>2, <1>3, <1>4, <1>5, <1>7, <1>9, <1>10, <1>11

\* What the depacker may write lies in memory.
LEMMA WritableInMemory ==
  ASSUME Accepted
  PROVE  /\ \A n \in 0 .. 11 : ZP_TEMP + n \in Addr /\ ZP_TEMP + n \in Writable
         /\ smc_hi \in Addr /\ smc_hi \in Writable
         /\ \A n \in Nat : program_addr + n < program_end =>
              program_addr + n \in Addr /\ program_addr + n \in Writable
  BY PlaceFacts, LimitFacts DEF Addr, Writable

\* It writes to no table, and not to their addresses.
LEMMA TablesNotWritable ==
  ASSUME Accepted
  PROVE  /\ \A id \in Id \ {"d"} : \A n \in 1 .. Size(id) :
              table_at[id] + n - 1 \in Addr \ Writable
         /\ \A n \in 0 .. 11 : table_of_tables + n \in Addr \ Writable
<1> DEFINE Safe(a) == /\ a \in Addr /\ ZP_TEMP + 11 < a /\ a # smc_hi
                      /\ a < program_addr \/ program_end <= a
<1>1. ASSUME NEW a \in Nat, Safe(a) PROVE a \in Addr \ Writable
  BY <1>1, PlaceFacts DEF Writable
<1>2. ASSUME NEW id \in Id \ {"d"}, NEW n \in 1 .. Size(id)
      PROVE  table_at[id] + n - 1 \in Addr \ Writable
  <2>1. PICK s \in Nat, c \in Nat :
          /\ s = table_at[id] /\ c = Size(id) /\ 2 * PAGE <= s /\ s + c <= ADDR_LIMIT
          /\ Apart(s, s + c, program_addr, program_end)
          /\ Apart(s, s + c, table_at["d"], TableEnd("d"))
    BY <1>2, TableFacts DEF TableEnd, Id
  <2>2. PICK a \in Nat : a = table_at[id] + n - 1 /\ s <= a /\ a < s + c
    BY <1>2, <2>1
  <2>3. a \in Addr /\ ZP_TEMP + 11 < a
    BY <2>1, <2>2, PlaceFacts, LimitFacts DEF Addr
  <2>4. a # smc_hi
    BY <2>1, <2>2, PlaceFacts, TableFacts DEF Apart, Id
  <2>5. a < program_addr \/ program_end <= a
    BY <2>1, <2>2, PlaceFacts DEF Apart
  <2> QED BY <1>1, <2>2, <2>3, <2>4, <2>5
<1>3. ASSUME NEW n \in 0 .. 11
      PROVE  table_of_tables + n \in Addr \ Writable
  <2>1. PICK s \in Nat, e \in Nat :
          /\ s = table_at["d"] /\ e = TableEnd("d") /\ e <= ADDR_LIMIT
          /\ Apart(s, e, program_addr, program_end)
    BY TableFacts DEF TableEnd, Id
  <2>2. PICK a \in Nat : a = table_of_tables + n /\ s <= a /\ a < e /\ smc_hi < a
    BY <2>1, PlaceFacts
  <2>3. Safe(a)
    BY <2>1, <2>2, PlaceFacts, LimitFacts DEF Addr, Apart
  <2> QED BY <1>1, <2>2, <2>3
<1> QED BY <1>2, <1>3

\* What the depacker knows of main stays while it runs.
LEMMA MainStays ==
  ASSUME UNCHANGED lvars
  PROVE  /\ \A id \in Id : Size(id)' = Size(id) /\ Content(id)' = Content(id)
         /\ table_at' = table_at /\ ZP_TEMP' = ZP_TEMP
         /\ smc_hi' = smc_hi /\ table_of_tables' = table_of_tables
         /\ ADDR_TABLE_ARGTABLE' = ADDR_TABLE_ARGTABLE
         /\ program_addr' = program_addr /\ program_end' = program_end
         /\ eof_marker' = eof_marker /\ argtable_start' = argtable_start
         /\ count_argtable' = count_argtable /\ data' = data /\ body' = body
         /\ data_argtable' = data_argtable /\ real_program_len' = real_program_len
         /\ lay_pc' = lay_pc /\ UNCHANGED mainVars
         /\ \A n \in Int : PointerByte(n)' = PointerByte(n)
<1>1. /\ UNCHANGED mainVars /\ table_at' = table_at /\ options' = options
      /\ lay_pc' = lay_pc /\ compiled_program' = compiled_program
  BY DEF lvars, layVars, layoutVars, outputVars
<1>2. /\ \A id \in Id : Size(id)' = Size(id) /\ Content(id)' = Content(id)
      /\ count_depack' = count_depack /\ program_end' = program_end
  BY <1>1, SizeKept, ContentKept
<1>3. /\ program_addr' = program_addr /\ eof_marker' = eof_marker /\ data' = data
      /\ argtable_start' = argtable_start /\ used_opcodes' = used_opcodes
      /\ count_argtable' = count_argtable /\ body' = body
  BY <1>1 DEF mainVars, fileVars, splitVars, tableVars
<1>4. /\ ZP_TEMP' = ZP_TEMP /\ ADDR_TABLE_ARGTABLE' = ADDR_TABLE_ARGTABLE
      /\ smc_hi' = smc_hi /\ table_of_tables' = table_of_tables
  BY <1>1, <1>2, <1>3 DEF ZP_TEMP, ADDR_TABLE_ARGTABLE, smc_hi, table_of_tables,
     smc_offset, tables_offset
<1>5. data_argtable' = data_argtable /\ real_program_len' = real_program_len
  BY <1>3 DEF data_argtable, real_program_len
<1>6. \A n \in Int : PointerByte(n)' = PointerByte(n)
  BY <1>1 DEF PointerByte
<1> QED BY <1>1, <1>2, <1>3, <1>4, <1>5, <1>6

\* What is not writable stays in memory.
LEMMA TablesKept ==
  ASSUME Accepted, UNCHANGED lvars, TablesInMemory,
         \A a \in Addr : mem'[a] # mem[a] => a \in Writable
  PROVE  TablesInMemory'
<1>1. ASSUME NEW id \in Id \ {"d"}, NEW n \in 1 .. Size(id)
      PROVE  mem'[table_at[id] + n - 1] = Content(id)[n]
  BY TablesNotWritable DEF TablesInMemory
<1>2. ASSUME NEW n \in 0 .. 11
      PROVE  mem'[table_of_tables + n] = PointerByte(n)
  BY TablesNotWritable DEF TablesInMemory
<1>3. \A n \in 0 .. 11 : PointerByte(n)' = PointerByte(n)
  BY MainStays
<1> QED BY <1>1, <1>2, <1>3, MainStays DEF TablesInMemory

-----------------------------------------------------------------------------
(***************************************************************************)
(* Loading the files.                                                      *)
(***************************************************************************)

\* The files share no address.
LEMMA FilesApart ==
  ASSUME Accepted, NEW a \in Nat
  PROVE  ~(InFile(files[1], a) /\ InFile(files[2], a))
<1> SUFFICES ASSUME InFile(files[1], a), InFile(files[2], a) PROVE FALSE
  OBVIOUS
<1>1. /\ RouteInv /\ LayoutTypeOK /\ Progressed /\ Routed /\ FilesHoldTables
  BY FilesHold DEF Accepted, MainInv, RouteInv, LayInv, Laying
<1>2. /\ files[1].addr = part1_start
      /\ IF options.do_split THEN files[2].addr = part2_start ELSE files[2] = NoFile
  BY <1>1 DEF Routed, Written, Accepted
<1>3. options.do_split
  <2>1. ASSUME files[2] = NoFile PROVE ~InFile(files[2], a)
    <3>1. files[2].addr = 0 /\ Len(files[2].bytes) = 0
      BY <2>1 DEF NoFile
    <3> QED BY <3>1 DEF InFile
  <2> QED BY <1>2, <2>1
<1>4. /\ Len(files[1].bytes) = part1_end - part1_start
      /\ Len(files[2].bytes) = part2_end - part2_start
      /\ ~Overlaps(part1_start, part1_end, part2_start, part2_end)
  BY <1>1, <1>3 DEF FilesHoldTables, Progressed, Accepted
<1>5. /\ part1_start \in Nat /\ part1_end \in Nat
      /\ part2_start \in Nat /\ part2_end \in Nat
  BY <1>1 DEF LayoutTypeOK
<1>6. /\ part1_start <= a /\ a < part1_start + (part1_end - part1_start)
      /\ part2_start <= a /\ a < part2_start + (part2_end - part2_start)
  BY <1>2, <1>3, <1>4 DEF InFile
<1> QED BY <1>4, <1>5, <1>6 DEF Overlaps

\* A byte of a table is in one of them.
LEMMA TableInFile ==
  ASSUME Accepted, NEW id \in Id, NEW n \in 1 .. Size(id)
  PROVE  LET a == table_at[id] + n - 1
         IN  \E f \in {1, 2} : /\ InFile(files[f], a)
                               /\ files[f].bytes[a - files[f].addr + 1] = Content(id)[n]
<1>1. /\ RouteInv /\ LayoutTypeOK /\ Placed = Id
  BY DEF Accepted, MainInv, RouteInv, LayInv, Intended, EveryTablePlaced
<1>2. PICK f \in {1, 2} : Holds(files[f], id)
  BY <1>1, FilesHold DEF FilesHoldTables, Accepted
<1>3. files[f] \in [addr : Nat, bytes : Seq(0 .. CODE)]
  BY <1>1 DEF LayoutTypeOK
<1>4. PICK s \in Nat, b \in Seq(0 .. CODE), t \in Nat, size \in Nat :
        s = files[f].addr /\ b = files[f].bytes /\ t = table_at[id] /\ size = Size(id)
  BY <1>3, TableFacts
<1>5. PICK o \in Int : o = t - s
  BY <1>4
<1>6. s <= t /\ o + size <= Len(b) /\ SubSeq(b, o + 1, o + size) = Content(id)
  BY <1>2, <1>4, <1>5 DEF Holds
<1>7. PICK len \in Nat, m \in Nat : len = Len(b) /\ m = n /\ 1 <= m /\ m <= size
  BY <1>4
<1>8. t + m - 1 - s + 1 = o + m /\ s <= t + m - 1 /\ t + m - 1 < s + len
  <2>1. s <= t /\ o + size <= len /\ m >= 1 /\ m <= size
    BY <1>6, <1>7
  <2> QED BY <1>5, <2>1
<1>9. SubSeq(b, o + 1, o + size)[m] = b[o + m]
  <2>1. o \in Nat
    BY <1>5, <1>6
  <2>2. o + size <= Len(b) /\ m <= size /\ 1 <= m
    BY <1>6, <1>7
  <2> QED BY <2>1, <2>2
<1>10. PICK a \in Int : a = t + m - 1 /\ a = table_at[id] + n - 1 /\ a - s + 1 = o + m
  <2>1. t + m - 1 \in Int /\ table_at[id] + n - 1 = t + m - 1
    BY <1>4, <1>7
  <2> QED BY <1>8, <2>1
<1>11. InFile(files[f], a)
  BY <1>4, <1>7, <1>8, <1>10 DEF InFile
<1>12. files[f].bytes[a - files[f].addr + 1] = Content(id)[n]
  BY <1>4, <1>6, <1>7, <1>9, <1>10
<1> QED BY <1>10, <1>11, <1>12

\* Loading the files puts the tables into the memory.
LEMMA CallFacts ==
  ASSUME Accepted, Call
  PROVE  /\ mem' \in [Addr -> 0 .. CODE]
         /\ TablesInMemory' /\ mem'[smc_hi] = HighByte(program_addr)
<1>1. /\ LayoutTypeOK /\ SplitterOK /\ Compiled
      /\ compiled_program = Decruncher /\ UNCHANGED lvars
  BY DEF Accepted, MainInv, RouteInv, LayInv, Compiled, CompiledFor, Call
<1>2. PICK fill \in JunkBytes :
        mem' = [a \in Addr |->
                 IF \E f \in {1, 2} : InFile(files[f], a)
                 THEN LET f == CHOOSE f \in {1, 2} : InFile(files[f], a)
                      IN files[f].bytes[a - files[f].addr + 1]
                 ELSE fill]
  BY DEF Call
<1>3. ASSUME NEW a \in Addr, NEW f \in {1, 2}, InFile(files[f], a)
      PROVE  mem'[a] = files[f].bytes[a - files[f].addr + 1]
  <2>1. a \in Nat
    BY LimitFacts DEF Addr
  <2>2. PICK g : g = CHOOSE q \in {1, 2} : InFile(files[q], a)
    OBVIOUS
  <2>3. g \in {1, 2} /\ InFile(files[g], a)
    BY <1>3, <2>2
  <2>4. g = f
    BY <1>3, <2>1, <2>3, FilesApart
  <2> QED BY <1>2, <1>3, <2>2, <2>4
<1>4. mem' \in [Addr -> 0 .. CODE]
  <2>1. JunkBytes \subseteq 0 .. CODE
    BY FileAssumption, LimitFacts DEF Byte, CODE
  <2>2. ASSUME NEW a \in Addr, NEW f \in {1, 2}, InFile(files[f], a)
        PROVE  mem'[a] \in 0 .. CODE
    <3>1. files[f] \in [addr : Nat, bytes : Seq(0 .. CODE)]
      BY <1>1 DEF LayoutTypeOK
    <3>2. PICK s \in Nat, b \in Seq(0 .. CODE) : s = files[f].addr /\ b = files[f].bytes
      BY <3>1
    <3>3. s <= a /\ a < s + Len(b) /\ a \in Nat /\ Len(b) \in Nat
      BY <2>2, <3>2, LimitFacts DEF InFile, Addr
    <3>4. PICK x \in 1 .. Len(b) : x = a - s + 1
      BY <3>3
    <3>5. b[x] \in 0 .. CODE
      BY ElementOfSeq
    <3>6. mem'[a] = files[f].bytes[a - files[f].addr + 1]
      BY <1>3, <2>2
    <3> QED BY <3>2, <3>4, <3>5, <3>6
  <2>3. ASSUME NEW a \in Addr, ~ \E f \in {1, 2} : InFile(files[f], a)
        PROVE  mem'[a] \in 0 .. CODE
    BY <1>2, <2>1, <2>3
  <2>4. \A a \in Addr : mem'[a] \in 0 .. CODE
    BY <2>2, <2>3
  <2> QED BY <1>2, <2>4
<1>5. ASSUME NEW id \in Id, NEW n \in 1 .. Size(id)
      PROVE  mem'[table_at[id] + n - 1] = Content(id)[n]
  <2>1. PICK a \in Int : a = table_at[id] + n - 1
    BY TableFacts
  <2>2. PICK f \in {1, 2} : /\ InFile(files[f], a)
                            /\ files[f].bytes[a - files[f].addr + 1] = Content(id)[n]
    BY <2>1, TableInFile
  <2>3. a \in Addr
    <3>1. PICK t \in Nat, size \in Nat :
            t = table_at[id] /\ size = Size(id) /\ t + size <= ADDR_LIMIT
      BY TableFacts DEF TableEnd
    <3> QED BY <2>1, <3>1, LimitFacts DEF Addr
  <2> QED BY <1>3, <2>1, <2>2, <2>3
<1>6. PICK s \in Nat, c \in {68, 70, 77} :
        /\ s = table_at["d"] /\ c = count_depack /\ Size("d") = c
        /\ smc_offset = c - 20 /\ tables_offset = c - 12
        /\ smc_hi = s + (c - 20) /\ table_of_tables = s + (c - 12)
  BY <1>1, TableFacts, SizeFacts DEF Id, Size, smc_hi, table_of_tables, smc_offset,
     tables_offset, SmcOffset, TablesOffset
<1>7. \A n \in 1 .. c : mem'[s + n - 1] = Decruncher[n]
  BY <1>1, <1>5, <1>6 DEF Content, Id
<1>8. mem'[smc_hi] = HighByte(program_addr)
  <2>1. mem'[s + (c - 19) - 1] = Decruncher[c - 19]
    BY <1>6, <1>7
  <2>2. Decruncher[c - 19] = HighByte(program_addr)
    BY <1>6 DEF Decruncher
  <2> QED BY <1>6, <2>1, <2>2
<1>9. ASSUME NEW n \in 0 .. 11 PROVE mem'[table_of_tables + n] = PointerByte(n)
  <2>1. PICK m \in 1 .. c : m = c - 11 + n
    BY <1>6
  <2>2. mem'[s + m - 1] = Decruncher[m]
    BY <1>7, <2>1
  <2>3. m - 1 # smc_offset /\ m - 1 >= tables_offset /\ m - 1 - tables_offset = n
    BY <1>6, <2>1
  <2>4. Decruncher[m] = PointerByte(n)
    BY <1>6, <2>1, <2>3 DEF Decruncher
  <2> QED BY <1>6, <2>1, <2>2, <2>4
<1>10. \A n \in 0 .. 11 : PointerByte(n)' = PointerByte(n)
  BY <1>1, MainStays
<1>11. TablesInMemory'
  BY <1>1, <1>5, <1>9, <1>10, MainStays DEF TablesInMemory
<1> QED BY <1>4, <1>8, <1>11

-----------------------------------------------------------------------------
(***************************************************************************)
(* Where the pointers and the store instruction point to.                  *)
(***************************************************************************)

\* The pointers do not share a byte.
LEMMA PointerFacts ==
  ASSUME NEW t \in Table
  PROVE  /\ PointerOffset[t] \in {0, 2, 4, 6, 8, 10}
         /\ \A u \in Table : u # t => /\ PointerOffset[u] # PointerOffset[t]
                                      /\ PointerOffset[u] + 1 # PointerOffset[t]
                                      /\ PointerOffset[u] # PointerOffset[t] + 1
<1>1. /\ PointerOffset["l"] = 0 /\ PointerOffset["h"] = 2 /\ PointerOffset["i"] = 4
      /\ PointerOffset["r"] = 6 /\ PointerOffset["z"] = 8 /\ PointerOffset["o"] = 10
  BY DEF PointerOffset
<1>2. \A u \in Table : u \in {"l", "h", "i", "r", "z", "o"}
  BY DEF Table
<1> QED BY <1>1, <1>2

\* The address of the pointer of a table.
PointerAt(t) == ZP_TEMP + PointerOffset[t]

\* The address of a pointer, in numbers.
LEMMA PointerPlace ==
  ASSUME Accepted, NEW t \in Table
  PROVE  \E z \in Nat, o \in 0 .. 10 :
           /\ z = ZP_TEMP /\ o = PointerOffset[t] /\ PointerAt(t) = z + o
           /\ PointerAt(t) \in Nat /\ PointerAt(t) + 1 = z + (o + 1)
<1>1. PICK z \in Nat : z = ZP_TEMP
  BY PlaceFacts
<1>2. PICK o \in 0 .. 10 : o = PointerOffset[t]
  BY PointerFacts
<1> QED BY <1>1, <1>2 DEF PointerAt

\* What the depacker finds wherever it is.
LEMMA RunningFacts ==
  ASSUME CpuInv, Started
  PROVE  /\ mem \in [Addr -> 0 .. CODE] /\ TablesInMemory
         /\ \A n \in 0 .. 11 : mem[ZP_TEMP + n] \in Byte
         /\ Y \in Byte /\ mem[smc_hi] \in Byte
  BY DEF CpuInv, CpuTypeOK, Started, Running

\* The next byte of a table that is not read to its end.
LEMMA NextByte ==
  ASSUME Accepted, Started, CpuInv, NEW t \in Table, takenBar[t] < Len(data[t])
  PROVE  LET p == PointerAt(t)
             w == Word(mem[p], mem[p + 1])
         IN  /\ takenBar[t] \in Nat
             /\ mem[w] = data[t][takenBar[t] + 1] /\ mem[w] \in Byte
             /\ Distance((w + 1) % ADDR_LIMIT, table_at[t]) = takenBar[t] + 1
<1>1. PICK z \in Nat, o \in 0 .. 10 :
        /\ z = ZP_TEMP /\ o = PointerOffset[t] /\ PointerAt(t) = z + o
        /\ PointerAt(t) + 1 = z + (o + 1)
  BY PointerPlace
<1> DEFINE p == PointerAt(t)
<1>2. mem[p] \in Byte /\ mem[p + 1] \in Byte
  <2>1. mem[z + o] \in Byte /\ mem[z + (o + 1)] \in Byte
    <3>1. o \in 0 .. 11 /\ o + 1 \in 0 .. 11
      OBVIOUS
    <3> QED BY <1>1, <3>1, RunningFacts
  <2> QED BY <1>1, <2>1
<1> HIDE DEF p
<1>3. PICK w \in Addr : w = Word(mem[p], mem[p + 1])
  BY <1>2, WordFacts
<1>4. t \in Id \ {"d"} /\ t # "t"
  BY DEF Id, Table
<1>5. PICK a \in Nat, n \in Nat :
        /\ a = table_at[t] /\ n = Len(data[t]) /\ n = Size(t)
        /\ 1 <= a /\ a + n <= ADDR_LIMIT
  <2>1. Size(t) = Len(data[t])
    BY <1>4 DEF Size
  <2>2. PICK a \in Nat, n \in Nat :
          a = table_at[t] /\ n = Size(t) /\ 2 * PAGE <= a /\ a + n <= ADDR_LIMIT
    BY <1>4, TableFacts DEF TableEnd
  <2> QED BY <2>1, <2>2, LimitFacts
<1>6. PICK c : c = Distance(w, a) /\ c = takenBar[t]
  BY <1>3, <1>5 DEF takenBar, Distance, PointerAt, p
<1>7. a \in 1 .. ADDR_LIMIT
  BY <1>5, LimitFacts
<1>8. c \in Nat /\ c < n
  BY <1>3, <1>5, <1>6, <1>7, DistanceFacts
<1>9. a + c < ADDR_LIMIT
  BY <1>5, <1>8, LimitFacts
<1>10. w = a + c /\ Distance((w + 1) % ADDR_LIMIT, a) = c + 1
  BY <1>3, <1>6, <1>7, <1>9, DistanceFacts
<1>11. mem[a + (c + 1) - 1] = data[t][c + 1]
  <2>1. c + 1 \in 1 .. Size(t)
    BY <1>5, <1>8
  <2>2. mem[a + (c + 1) - 1] = Content(t)[c + 1]
    BY <1>4, <1>5, <2>1, RunningFacts DEF TablesInMemory
  <2> QED BY <1>4, <2>2 DEF Content
<1>12. a + (c + 1) - 1 = a + c
  BY <1>5, <1>8
<1>13. data[t][c + 1] \in Byte
  <2>1. data \in [Table -> Seq(Byte)]
    BY DEF Accepted, MainInv, RouteInv, LayInv, SplitterOK
  <2>2. data[t] \in Seq(Byte) /\ c + 1 \in 1 .. Len(data[t])
    BY <1>5, <1>8, <2>1
  <2> QED BY <2>2, ElementOfSeq
<1> QED BY <1>3, <1>5, <1>6, <1>8, <1>10, <1>11, <1>12, <1>13 DEF p

\* The store instruction points behind the bytes that are written.
LEMMA NextStore ==
  ASSUME Accepted, Started, CpuInv
  PROVE  LET w == Word(Y, mem[smc_hi])
             n == Distance(w, program_addr)
         IN  /\ w \in Addr /\ n \in Nat /\ Len(outBar) = n
             /\ outBar = [x \in 1 .. n |-> mem[(program_addr + x - 1) % ADDR_LIMIT]]
             /\ n < real_program_len =>
                  /\ w = program_addr + n
                  /\ Distance((w + 1) % ADDR_LIMIT, program_addr) = n + 1
             /\ program_addr + n = ADDR_LIMIT => w = 0
<1>1. Y \in Byte /\ mem[smc_hi] \in Byte
  BY DEF CpuInv, CpuTypeOK, Running
<1>2. PICK w \in Addr : w = Word(Y, mem[smc_hi])
  BY <1>1, WordFacts
<1>3. PICK a \in Nat : /\ a = program_addr /\ a \in 1 .. ADDR_LIMIT
                       /\ a + real_program_len <= ADDR_LIMIT
  BY PlaceFacts, LimitFacts
<1>4. PICK n \in Nat : n = Distance(w, a)
  BY <1>2, <1>3, DistanceFacts
<1>5. outBar = [x \in 1 .. n |-> mem[(program_addr + x - 1) % ADDR_LIMIT]]
  BY <1>2, <1>3, <1>4 DEF outBar, Distance
<1>6. Len(outBar) = n
  BY <1>5
<1>7. n < real_program_len => a + n < ADDR_LIMIT
  BY <1>3, PlaceFacts, LimitFacts
<1>8. a + n < ADDR_LIMIT => w = a + n /\ Distance((w + 1) % ADDR_LIMIT, a) = n + 1
  BY <1>2, <1>3, <1>4, DistanceFacts
<1>9. a + n = ADDR_LIMIT => w = 0
  BY <1>2, <1>3, <1>4, DistanceFacts
<1> QED BY <1>2, <1>3, <1>4, <1>5, <1>6, <1>7, <1>8, <1>9

\* The bytes of the depacker and what an increment makes of them.
Increment(b) == (b + 1) % PAGE

\* Incrementing a byte.
LEMMA ByteFacts ==
  ASSUME NEW b \in Byte
  PROVE  b \in 0 .. CODE /\ Increment(b) \in 0 .. CODE
  BY LimitFacts DEF Byte, CODE, Increment

\* Incrementing a pointer changes its two bytes.
LEMMA IncrementedFacts ==
  ASSUME NEW m \in [Addr -> 0 .. CODE], NEW p \in Addr,
         p + 1 \in Addr, p # p + 1, m[p] \in Byte, m[p + 1] \in Byte
  PROVE  LET low == Increment(m[p])
         IN  /\ Incremented(m, p) \in [Addr -> 0 .. CODE]
             /\ Incremented(m, p)[p] = low
             /\ Incremented(m, p)[p + 1] = IF low # 0 THEN m[p + 1] ELSE Increment(m[p + 1])
             /\ \A a \in Addr \ {p, p + 1} : Incremented(m, p)[a] = m[a]
<1>1. PICK low \in 0 .. CODE : low = Increment(m[p])
  BY ByteFacts
<1>2. PICK high \in 0 .. CODE : high = Increment(m[p + 1])
  BY ByteFacts
<1>3. CASE low # 0
  <2>1. Incremented(m, p) = [m EXCEPT ![p] = low]
    BY <1>1, <1>3 DEF Incremented, Increment
  <2> QED BY <1>1, <1>3, <2>1
<1>4. CASE low = 0
  <2>1. Incremented(m, p) = [m EXCEPT ![p] = low, ![p + 1] = Increment(@)]
    BY <1>1, <1>4 DEF Incremented, Increment
  <2>2. Incremented(m, p) = [[m EXCEPT ![p] = low] EXCEPT ![p + 1] = high]
    BY <1>2, <2>1
  <2> QED BY <1>1, <1>2, <1>4, <2>2
<1> QED BY <1>3, <1>4

\* Storing a byte, and incrementing the high byte of the store instruction.
Stored(m, v, b, s, carry) ==
  IF carry THEN [[m EXCEPT ![v] = b] EXCEPT ![s] = Increment(@)]
  ELSE [m EXCEPT ![v] = b]

\* What is stored, and nothing else changes.
LEMMA StoredFacts ==
  ASSUME NEW m \in [Addr -> 0 .. CODE], NEW v \in Addr, NEW s \in Addr, v # s,
         NEW b \in 0 .. CODE, m[s] \in Byte, NEW carry \in BOOLEAN
  PROVE  LET g == Stored(m, v, b, s, carry)
         IN  /\ g \in [Addr -> 0 .. CODE] /\ g[v] = b
             /\ g[s] = IF carry THEN Increment(m[s]) ELSE m[s]
             /\ \A a \in Addr \ {v, s} : g[a] = m[a]
<1>1. PICK high \in 0 .. CODE : high = Increment(m[s])
  BY ByteFacts
<1>2. CASE carry
  <2>1. Stored(m, v, b, s, carry) = [[m EXCEPT ![v] = b] EXCEPT ![s] = high]
    BY <1>1, <1>2 DEF Stored
  <2> QED BY <1>1, <1>2, <2>1
<1>3. CASE ~carry
  BY <1>3 DEF Stored
<1> QED BY <1>2, <1>3

\* What read_and_output does to the memory.
LEMMA MemoryAfter ==
  ASSUME Accepted, Started, CpuInv, NEW t \in Table,
         takenBar[t] < Len(data[t]), Len(outBar) < real_program_len,
         ReadAndOutput(PointerOffset[t])
  PROVE  LET p == PointerAt(t)
             v == program_addr + Len(outBar)
             low == Increment(mem[p])
         IN  /\ mem' \in [Addr -> 0 .. CODE]
             /\ mem'[p] = low
             /\ mem'[p + 1] = IF low # 0 THEN mem[p + 1] ELSE Increment(mem[p + 1])
             /\ mem'[v] = A' /\ Y' = Increment(Y)
             /\ mem'[smc_hi] = IF Y' = 0 THEN Increment(mem[smc_hi]) ELSE mem[smc_hi]
             /\ \A a \in Addr \ {p, p + 1, v, smc_hi} : mem'[a] = mem[a]
             /\ A' = data[t][takenBar[t] + 1] /\ A' \in Byte
<1>1. PICK z \in Nat, o \in 0 .. 10 :
        /\ z = ZP_TEMP /\ o = PointerOffset[t] /\ PointerAt(t) = z + o
        /\ PointerAt(t) + 1 = z + (o + 1)
  BY PointerPlace
<1>2. PICK n \in Nat : n = Len(outBar) /\ n < real_program_len
  BY NextStore
<1>3. PICK p, q, v, s \in Addr :
        /\ p = PointerAt(t) /\ q = p + 1 /\ v = program_addr + n /\ s = smc_hi
        /\ v = Word(Y, mem[s])
        /\ p # q /\ p # v /\ p # s /\ q # v /\ q # s /\ v # s
  <2>1. z + o \in Addr /\ z + (o + 1) \in Addr /\ smc_hi \in Addr
    <3>1. o \in 0 .. 11 /\ o + 1 \in 0 .. 11
      OBVIOUS
    <3> QED BY <1>1, <3>1, WritableInMemory
  <2>2. program_addr + n \in Addr
    BY <1>2, WritableInMemory, PlaceFacts
  <2>3. program_addr + n = Word(Y, mem[smc_hi])
    BY <1>2, NextStore
  <2>4. /\ z + o # z + (o + 1) /\ z + o # program_addr + n /\ z + o # smc_hi
        /\ z + (o + 1) # program_addr + n /\ z + (o + 1) # smc_hi
        /\ program_addr + n # smc_hi
    <3>1. PICK a \in Nat, l \in Nat, h \in Nat :
            /\ a = program_addr /\ l = real_program_len /\ h = smc_hi
            /\ z + 11 < PAGE /\ 2 * PAGE <= a /\ z + 11 < h
            /\ h < a \/ a + l <= h
      BY <1>1, PlaceFacts
    <3>2. z + 11 < a /\ n < l
      BY <1>2, <3>1, LimitFacts
    <3> QED BY <3>1, <3>2
  <2> QED BY <1>1, <2>1, <2>2, <2>3, <2>4
<1>4. /\ mem \in [Addr -> 0 .. CODE] /\ mem[p] \in Byte /\ mem[q] \in Byte
      /\ mem[s] \in Byte
  <2>1. o \in 0 .. 11 /\ o + 1 \in 0 .. 11
    OBVIOUS
  <2> QED BY <1>1, <1>3, <2>1, RunningFacts
<1>5. A' = data[t][takenBar[t] + 1] /\ A' \in Byte
  BY NextByte DEF ReadAndOutput, PointerAt
<1>6. PICK b \in 0 .. CODE : b = A'
  BY <1>5, ByteFacts
<1>7. PICK m \in [Addr -> 0 .. CODE] : m = Incremented(mem, p)
  BY <1>3, <1>4, IncrementedFacts
<1>8. /\ m[p] = Increment(mem[p])
      /\ m[q] = IF m[p] # 0 THEN mem[q] ELSE Increment(mem[q])
      /\ \A a \in Addr \ {p, q} : m[a] = mem[a]
  <2>1. /\ m[p] = Increment(mem[p])
        /\ m[q] = IF Increment(mem[p]) # 0 THEN mem[q] ELSE Increment(mem[q])
        /\ \A a \in Addr \ {p, q} : m[a] = mem[a]
    <3>1. /\ p + 1 \in Addr /\ p # p + 1 /\ mem[p + 1] \in Byte
      BY <1>3, <1>4
    <3>2. LET g == Incremented(mem, p)
          IN  /\ g[p] = Increment(mem[p])
              /\ g[p + 1] = IF Increment(mem[p]) # 0 THEN mem[p + 1]
                            ELSE Increment(mem[p + 1])
              /\ \A a \in Addr \ {p, p + 1} : g[a] = mem[a]
      BY <1>4, <3>1, IncrementedFacts
    <3> QED BY <1>3, <1>7, <3>2
  <2> QED BY <2>1
<1>9. m[s] = mem[s] /\ m[s] \in Byte
  BY <1>3, <1>4, <1>8
<1>10. PICK carry \in BOOLEAN : carry <=> Increment(Y) = 0
  OBVIOUS
<1>11. /\ Y' = Increment(Y)
       /\ mem' = Stored(m, v, b, s, carry)
  <2>1. Word(Y, m[s]) = v
    BY <1>3, <1>9
  <2> QED BY <1>3, <1>6, <1>7, <1>10, <2>1 DEF ReadAndOutput, PointerAt, Stored, Increment
<1>12. /\ mem' \in [Addr -> 0 .. CODE] /\ mem'[v] = b
       /\ mem'[s] = IF carry THEN Increment(m[s]) ELSE m[s]
       /\ \A a \in Addr \ {v, s} : mem'[a] = m[a]
  <2>1. v # s /\ m[s] \in Byte
    BY <1>3, <1>9
  <2>2. LET g == Stored(m, v, b, s, carry)
        IN  /\ g \in [Addr -> 0 .. CODE] /\ g[v] = b
            /\ g[s] = IF carry THEN Increment(m[s]) ELSE m[s]
            /\ \A a \in Addr \ {v, s} : g[a] = m[a]
    BY <2>1, StoredFacts
  <2> QED BY <1>11, <2>2
<1>13. /\ mem'[p] = m[p] /\ mem'[q] = m[q]
       /\ \A a \in Addr \ {p, q, v, s} : mem'[a] = mem[a]
  BY <1>3, <1>8, <1>12
<1> QED BY <1>2, <1>3, <1>5, <1>6, <1>8, <1>9, <1>10, <1>11, <1>12, <1>13

\* What it leaves behind is what the next piece of the depacker relies on.
LEMMA StateAfter ==
  ASSUME Accepted, Started, CpuInv, UNCHANGED lvars, NEW t \in Table,
         takenBar[t] < Len(data[t]), Len(outBar) < real_program_len,
         ReadAndOutput(PointerOffset[t])
  PROVE  /\ Y' \in Byte /\ Z' \in BOOLEAN
         /\ \A n \in 0 .. 11 : mem'[ZP_TEMP + n] \in Byte
         /\ mem'[smc_hi] \in Byte
         /\ \A a \in Addr : mem'[a] # mem[a] => a \in Writable
         /\ TablesInMemory'
<1>1. PICK z \in Nat, o \in 0 .. 10 :
        /\ z = ZP_TEMP /\ o = PointerOffset[t] /\ PointerAt(t) = z + o
        /\ PointerAt(t) + 1 = z + (o + 1)
  BY PointerPlace
<1>2. PICK n \in Nat : n = Len(outBar) /\ n < real_program_len
  BY NextStore
<1> DEFINE v == program_addr + n
           low == Increment(mem[z + o])
<1>3. /\ mem'[z + o] = low
      /\ mem'[z + (o + 1)] = IF low # 0 THEN mem[z + (o + 1)] ELSE Increment(mem[z + (o + 1)])
      /\ mem'[v] = A' /\ Y' = Increment(Y)
      /\ mem'[smc_hi] = IF Y' = 0 THEN Increment(mem[smc_hi]) ELSE mem[smc_hi]
      /\ \A a \in Addr \ {z + o, z + (o + 1), v, smc_hi} : mem'[a] = mem[a]
      /\ A' \in Byte
  BY <1>1, <1>2, MemoryAfter
<1>4. \A b \in Byte : Increment(b) \in Byte
  BY LimitFacts DEF Byte, Increment
<1>5. /\ \A m \in 0 .. 11 : mem[z + m] \in Byte
      /\ Y \in Byte /\ mem[smc_hi] \in Byte
  BY <1>1, RunningFacts
<1>6. o \in 0 .. 11 /\ o + 1 \in 0 .. 11
  OBVIOUS
<1>7. mem'[z + o] \in Byte /\ mem'[z + (o + 1)] \in Byte
  BY <1>3, <1>4, <1>5, <1>6
<1>8. mem'[smc_hi] \in Byte /\ Y' \in Byte
  BY <1>3, <1>4, <1>5
<1>9. ASSUME NEW m \in 0 .. 11 PROVE mem'[z + m] \in Byte
  <2>1. CASE m = o \/ m = o + 1
    BY <1>7, <2>1
  <2>2. CASE m # o /\ m # o + 1
    <3>1. z + m \in Addr
      BY <1>1, WritableInMemory
    <3>2. PICK a \in Nat, h \in Nat :
            a = program_addr /\ h = smc_hi /\ z + 11 < PAGE /\ 2 * PAGE <= a /\ z + 11 < h
      BY <1>1, PlaceFacts
    <3>3. z + m # z + o /\ z + m # z + (o + 1) /\ z + m # a + n /\ z + m # h
      BY <2>2, <3>2, LimitFacts
    <3>4. mem'[z + m] = mem[z + m]
      BY <1>3, <3>1, <3>2, <3>3
    <3> QED BY <1>5, <3>4
  <2> QED BY <2>1, <2>2
<1>10. ASSUME NEW a \in Addr, mem'[a] # mem[a] PROVE a \in Writable
  <2>1. a \in {z + o, z + (o + 1), v, smc_hi}
    BY <1>3, <1>10
  <2>2. z + o \in Writable /\ z + (o + 1) \in Writable /\ smc_hi \in Writable
    BY <1>1, <1>6, WritableInMemory
  <2>3. v \in Writable
    BY <1>2, WritableInMemory, PlaceFacts
  <2> QED BY <2>1, <2>2, <2>3
<1>11. TablesInMemory'
  BY <1>10, TablesKept, RunningFacts
<1>12. Z' \in BOOLEAN
  BY DEF ReadAndOutput
<1> QED BY <1>1, <1>8, <1>9, <1>10, <1>11, <1>12

\* The pointer of the table moves on, the others stay.
LEMMA TakenAfter ==
  ASSUME Accepted, Started, Started', CpuInv, UNCHANGED lvars, NEW t \in Table,
         takenBar[t] < Len(data[t]), Len(outBar) < real_program_len,
         ReadAndOutput(PointerOffset[t])
  PROVE  takenBar' = [takenBar EXCEPT ![t] = @ + 1]
<1>1. table_at' = table_at /\ ZP_TEMP' = ZP_TEMP
  BY MainStays
<1> DEFINE W(u) == Word(mem[PointerAt(u)], mem[PointerAt(u) + 1])
           V(u) == Word(mem'[PointerAt(u)], mem'[PointerAt(u) + 1])
<1>2. takenBar = [u \in Table |-> Distance(W(u), table_at[u])]
  BY DEF takenBar, Distance, PointerAt
<1>3. takenBar' = [u \in Table |-> Distance(V(u), table_at[u])]
  BY <1>1 DEF takenBar, Distance, PointerAt, Started
<1> HIDE DEF W, V
<1>4. Distance(V(t), table_at[t]) = takenBar[t] + 1
  <2>1. PICK lo \in Byte, hi \in Byte :
          /\ lo = mem[PointerAt(t)] /\ hi = mem[PointerAt(t) + 1]
    <3>1. PICK z \in Nat, o \in 0 .. 10 :
            /\ z = ZP_TEMP /\ o = PointerOffset[t] /\ PointerAt(t) = z + o
            /\ PointerAt(t) + 1 = z + (o + 1)
      BY PointerPlace
    <3>2. o \in 0 .. 11 /\ o + 1 \in 0 .. 11
      OBVIOUS
    <3> QED BY <3>1, <3>2, RunningFacts
  <2>2. V(t) = (W(t) + 1) % ADDR_LIMIT
    <3>1. /\ mem'[PointerAt(t)] = Increment(lo)
          /\ mem'[PointerAt(t) + 1] = IF Increment(lo) # 0 THEN hi ELSE Increment(hi)
      BY <2>1, MemoryAfter
    <3>2. Word(Increment(lo), IF Increment(lo) # 0 THEN hi ELSE Increment(hi))
            = (Word(lo, hi) + 1) % ADDR_LIMIT
      BY WordNext DEF Increment
    <3> QED BY <2>1, <3>1, <3>2 DEF V, W
  <2> QED BY <2>2, NextByte DEF W
<1>5. ASSUME NEW u \in Table, u # t PROVE V(u) = W(u)
  <2>1. PICK z \in Nat, o \in 0 .. 10, x \in 0 .. 10 :
          /\ z = ZP_TEMP /\ o = PointerOffset[t] /\ PointerAt(t) = z + o
          /\ PointerAt(t) + 1 = z + (o + 1)
          /\ x = PointerOffset[u] /\ PointerAt(u) = z + x
          /\ PointerAt(u) + 1 = z + (x + 1)
    BY PointerPlace
  <2>2. x # o /\ x + 1 # o /\ x # o + 1
    BY <1>5, <2>1, PointerFacts
  <2>3. PICK n \in Nat : n = Len(outBar)
    BY NextStore
  <2>4. \A a \in Addr \ {z + o, z + (o + 1), program_addr + n, smc_hi} : mem'[a] = mem[a]
    BY <2>1, <2>3, MemoryAfter
  <2>5. PICK a \in Nat, h \in Nat :
          a = program_addr /\ h = smc_hi /\ z + 11 < PAGE /\ 2 * PAGE <= a /\ z + 11 < h
    BY <2>1, PlaceFacts
  <2>6. /\ z + x \notin {z + o, z + (o + 1), a + n, h}
        /\ z + (x + 1) \notin {z + o, z + (o + 1), a + n, h}
    BY <2>2, <2>5, LimitFacts
  <2>7. z + x \in Addr /\ z + (x + 1) \in Addr
    <3>1. x \in 0 .. 11 /\ x + 1 \in 0 .. 11
      OBVIOUS
    <3> QED BY <2>1, <3>1, WritableInMemory
  <2>8. mem'[z + x] = mem[z + x] /\ mem'[z + (x + 1)] = mem[z + (x + 1)]
    BY <2>4, <2>5, <2>6, <2>7
  <2> QED BY <2>1, <2>8 DEF V, W
<1> QED BY <1>2, <1>3, <1>4, <1>5

\* A sequence with one more element.
LEMMA Extended ==
  ASSUME NEW n \in Nat, NEW S, NEW f \in [1 .. n -> S], NEW g \in [1 .. n + 1 -> S],
         \A x \in 1 .. n : g[x] = f[x]
  PROVE  g = Append(f, g[n + 1]) /\ Len(g) = n + 1
<1>1. PICK e \in S : e = g[n + 1]
  OBVIOUS
<1>2. f \in Seq(S) /\ Len(f) = n
  BY FunctionIsSeq
<1>3. PICK m \in Nat : m = n + 1
  OBVIOUS
<1>4. g \in Seq(S) /\ Len(g) = m
  <2>1. g \in [1 .. m -> S]
    BY <1>3
  <2> QED BY <2>1, FunctionIsSeq
<1>5. /\ Append(f, e) \in Seq(S) /\ Len(Append(f, e)) = Len(f) + 1
      /\ \A x \in 1 .. Len(f) : Append(f, e)[x] = f[x]
      /\ Append(f, e)[Len(f) + 1] = e
  BY <1>2, AppendProperties
<1>6. PICK s \in Seq(S) : s = Append(f, e)
  BY <1>5
<1>7. Len(s) = m /\ s[m] = e /\ \A x \in 1 .. n : s[x] = f[x]
  BY <1>2, <1>3, <1>5, <1>6
<1>8. ASSUME NEW x \in 1 .. m PROVE g[x] = s[x]
  <2>1. CASE x = m
    BY <1>1, <1>3, <1>7, <2>1
  <2>2. CASE x # m
    <3>1. x \in 1 .. n
      BY <1>3, <2>2
    <3> QED BY <1>7, <3>1
  <2> QED BY <2>1, <2>2
<1>9. g = s
  BY <1>4, <1>7, <1>8, SeqEqual
<1> QED BY <1>1, <1>3, <1>4, <1>6, <1>9

\* The byte is stored behind the others.
LEMMA OutAfter ==
  ASSUME Accepted, Started, Started', CpuInv, UNCHANGED lvars, NEW t \in Table,
         takenBar[t] < Len(data[t]), Len(outBar) < real_program_len,
         ReadAndOutput(PointerOffset[t])
  PROVE  /\ outBar' = Append(outBar, data[t][takenBar[t] + 1])
         /\ Z' => Len(outBar') = real_program_len /\ program_end = ADDR_LIMIT
<1>1. program_addr' = program_addr /\ smc_hi' = smc_hi
  BY MainStays
<1>2. PICK w \in Addr, n \in Nat :
        /\ w = Word(Y, mem[smc_hi]) /\ n = Distance(w, program_addr)
        /\ Len(outBar) = n /\ n < real_program_len /\ w = program_addr + n
        /\ Distance((w + 1) % ADDR_LIMIT, program_addr) = n + 1
        /\ outBar = [x \in 1 .. n |-> mem[(program_addr + x - 1) % ADDR_LIMIT]]
  BY NextStore
<1>3. /\ mem'[program_addr + n] = A' /\ Y' = Increment(Y)
      /\ mem'[smc_hi] = IF Y' = 0 THEN Increment(mem[smc_hi]) ELSE mem[smc_hi]
      /\ A' = data[t][takenBar[t] + 1]
  BY <1>2, MemoryAfter
<1>4. Word(Y', mem'[smc_hi]) = (w + 1) % ADDR_LIMIT
  <2>1. PICK lo \in Byte, hi \in Byte : lo = Y /\ hi = mem[smc_hi]
    BY RunningFacts
  <2>2. Word(Increment(lo), IF Increment(lo) # 0 THEN hi ELSE Increment(hi))
          = (Word(lo, hi) + 1) % ADDR_LIMIT
    BY WordNext DEF Increment
  <2> QED BY <1>2, <1>3, <2>1, <2>2
<1>5. outBar' = [x \in 1 .. n + 1 |-> mem'[(program_addr + x - 1) % ADDR_LIMIT]]
  <2>1. Distance(Word(Y', mem'[smc_hi]), program_addr) = n + 1
    BY <1>2, <1>4
  <2> QED BY <1>1, <2>1 DEF outBar, Distance, Started
<1>6. PICK a \in Nat, l \in Nat, h \in Nat, z \in Nat :
        /\ a = program_addr /\ l = real_program_len /\ h = smc_hi /\ z = ZP_TEMP
        /\ z + 11 < PAGE /\ 2 * PAGE <= a /\ a + l <= ADDR_LIMIT
        /\ h < a \/ a + l <= h
        /\ program_end = a + l
  BY PlaceFacts
<1>7. ASSUME NEW x \in 1 .. n + 1
      PROVE  (a + x - 1) % ADDR_LIMIT = a + x - 1 /\ a + x - 1 \in Addr
  <2>1. PICK y \in Nat : y = a + x - 1 /\ y < ADDR_LIMIT
    BY <1>2, <1>6, LimitFacts
  <2>2. y % ADDR_LIMIT = y
    BY <2>1, WithinLimit
  <2> QED BY <2>1, <2>2, LimitFacts DEF Addr
<1>8. ASSUME NEW x \in 1 .. n PROVE mem'[a + x - 1] = mem[a + x - 1]
  <2>1. PICK o \in 0 .. 10 : o = PointerOffset[t] /\ PointerAt(t) = z + o
                             /\ PointerAt(t) + 1 = z + (o + 1)
    BY <1>6, PointerPlace
  <2>2. \A b \in Addr \ {z + o, z + (o + 1), a + n, h} : mem'[b] = mem[b]
    BY <1>2, <1>6, <2>1, MemoryAfter
  <2>3. x \in 1 .. n + 1
    OBVIOUS
  <2>4. a + x - 1 \in Addr
    BY <1>7, <2>3
  <2>5. a + x - 1 \notin {z + o, z + (o + 1), a + n, h}
    <3>1. PICK y \in Nat : y = a + x - 1 /\ a <= y /\ y < a + n
      BY <1>6
    <3>2. z + o < a /\ z + (o + 1) < a
      BY <1>6, LimitFacts
    <3>3. n < l
      BY <1>2, <1>6
    <3>4. y # h
      BY <1>6, <3>1, <3>3
    <3> QED BY <3>1, <3>2, <3>4
  <2> QED BY <2>2, <2>4, <2>5
<1>9. outBar' = Append(outBar, A')
  <2>1. A' \in 0 .. CODE /\ mem \in [Addr -> 0 .. CODE] /\ mem' \in [Addr -> 0 .. CODE]
    BY MemoryAfter, ByteFacts, RunningFacts
  <2>2. outBar = [x \in 1 .. n |-> mem[a + x - 1]]
    <3>1. \A x \in 1 .. n : x \in 1 .. n + 1
      OBVIOUS
    <3> QED BY <1>2, <1>6, <1>7, <3>1
  <2>3. outBar' = [x \in 1 .. n + 1 |-> mem'[a + x - 1]]
    BY <1>5, <1>6, <1>7
  <2>4. outBar \in [1 .. n -> 0 .. CODE]
    <3>1. \A x \in 1 .. n : x \in 1 .. n + 1
      OBVIOUS
    <3> QED BY <1>7, <2>1, <2>2, <3>1
  <2>5. outBar' \in [1 .. n + 1 -> 0 .. CODE]
    BY <1>7, <2>1, <2>3
  <2>6. \A x \in 1 .. n : outBar'[x] = outBar[x]
    <3>1. \A x \in 1 .. n : x \in 1 .. n + 1
      OBVIOUS
    <3> QED BY <1>8, <2>2, <2>3, <3>1
  <2>7. outBar'[n + 1] = A'
    <3>1. n + 1 \in 1 .. n + 1
      OBVIOUS
    <3>2. a + (n + 1) - 1 = a + n
      OBVIOUS
    <3> QED BY <1>3, <1>6, <2>3, <3>1, <3>2
  <2>8. PICK f \in [1 .. n -> 0 .. CODE], g \in [1 .. n + 1 -> 0 .. CODE] :
          f = outBar /\ g = outBar'
    BY <2>4, <2>5
  <2>9. g = Append(f, g[n + 1])
    BY <2>6, <2>8, Extended
  <2> QED BY <2>7, <2>8, <2>9
<1>10. ASSUME Z' PROVE Len(outBar') = real_program_len /\ program_end = ADDR_LIMIT
  <2>1. Y' = 0 /\ mem'[smc_hi] = 0
    BY <1>1, <1>10, <1>3 DEF ReadAndOutput, Increment
  <2>2. (w + 1) % ADDR_LIMIT = 0
    <3>1. Word(0, 0) = 0
      BY LimitFacts, WordFacts DEF Byte
    <3> QED BY <1>4, <2>1, <3>1
  <2>3. w + 1 = ADDR_LIMIT
    <3>1. w \in Nat /\ w < ADDR_LIMIT
      BY LimitFacts DEF Addr
    <3>2. CASE w + 1 < ADDR_LIMIT
      <4>1. w + 1 \in Nat /\ w + 1 # 0
        BY <3>1
      <4> QED BY <2>2, <3>2, <4>1, WithinLimit
    <3> QED BY <3>1, <3>2, LimitFacts
  <2>4. n + 1 = l /\ a + l = ADDR_LIMIT
    <3>1. w = a + n /\ a + l <= ADDR_LIMIT /\ n + 1 <= l
      BY <1>2, <1>6
    <3> QED BY ONLY <2>3, <3>1, n \in Nat, a \in Nat, l \in Nat
  <2>5. Len(outBar') = n + 1
    BY <1>5
  <2> QED BY <1>6, <2>4, <2>5
<1> QED BY <1>3, <1>9, <1>10

-----------------------------------------------------------------------------
(***************************************************************************)
(* The steps of the depacker are steps of the one that sees only the       *)
(* tables, or change nothing it sees.                                      *)
(***************************************************************************)

\* What U says about the program and its tables is what Splitter says.
LEMMA Same ==
  /\ U!Byte = Byte /\ U!Mode = Mode /\ U!Table = Table
  /\ \A m : U!ArgTables(m) = ArgTables(m)
  /\ U!data_argtable = data_argtable /\ U!real_program_len = real_program_len
  /\ U!mainVars = mainVars
  /\ U!uvars = <<mainVars, <<runBar, takenBar, argsBar, outBar>>>>
  /\ U!AtEnd <=> eof_marker = PAGE /\ Len(outBar) = real_program_len
<1>1. /\ U!MODEabs = MODEabs /\ U!MODEimm = MODEimm /\ U!MODErel = MODErel
      /\ U!MODEzp = MODEzp /\ U!MODEimpl = MODEimpl /\ U!MODEjam = MODEjam
  BY DEF U!MODEabs, U!MODEimm, U!MODErel, U!MODEzp, U!MODEimpl, U!MODEjam,
     MODEabs, MODEimm, MODErel, MODEzp, MODEimpl, MODEjam
<1>2. U!Byte = Byte /\ U!Table = Table
  BY DEF U!Byte, Byte, U!Table, Table
<1>3. U!Mode = Mode
  BY <1>1 DEF U!Mode, Mode
<1>4. \A m : U!ArgTables(m) = ArgTables(m)
  BY <1>1 DEF U!ArgTables, ArgTables
<1>5. U!data_argtable = data_argtable
  BY <1>2 DEF U!data_argtable, data_argtable
<1>6. U!real_program_len = real_program_len
  BY DEF U!real_program_len, real_program_len
<1>7. U!mainVars = mainVars
  BY DEF U!mainVars, mainVars, U!fileVars, fileVars, U!loadVars, loadVars,
     U!splitVars, splitVars, U!tableVars, tableVars
<1>8. U!uvars = <<mainVars, <<runBar, takenBar, argsBar, outBar>>>>
  BY <1>7 DEF U!uvars, U!runVars
<1>9. U!AtEnd <=> eof_marker = PAGE /\ Len(outBar) = real_program_len
  BY <1>6 DEF U!AtEnd
<1> QED BY <1>2, <1>3, <1>4, <1>5, <1>6, <1>7, <1>8, <1>9

\* What the invariant of U says about a depacker that runs.
LEMMA RetracedFacts ==
  ASSUME U!IInv
  PROVE  /\ runBar # "idle" => main_pc = "tables"
         /\ takenBar \in [Table -> Nat] /\ outBar \in Seq(Byte)
         /\ runBar = "loop" /\ ~U!AtEnd => takenBar["o"] < Len(data["o"])
         /\ runBar = "copy" => takenBar[Head(argsBar)] < Len(data[Head(argsBar)])
         /\ runBar = "done" => Len(outBar) = real_program_len /\ Len(body) <= Len(outBar)
         /\ \A n \in 1 .. Len(outBar) : n <= Len(body) => outBar[n] = body[n]
         /\ main_pc = "tables" =>
              \A n \in 1 .. Len(data["o"]) :
                data["o"][n] # eof_marker => InArgtable(data["o"][n])
         /\ runBar \in {"loop", "copy"} =>
              /\ real_program_len \in Nat /\ Len(outBar) <= real_program_len
              /\ runBar = "copy" \/ eof_marker # PAGE => Len(outBar) < real_program_len
<1>1. /\ runBar # "idle" => main_pc = "tables"
      /\ takenBar \in [U!Table -> Nat] /\ outBar \in Seq(U!Byte)
      /\ U!NoUnderrun /\ U!OutIsPrefix /\ U!ExtractsAll /\ U!LookupInArgtable
      /\ runBar \in {"loop", "copy"} =>
           /\ U!real_program_len \in Nat /\ Len(outBar) <= U!real_program_len
           /\ runBar = "copy" \/ eof_marker # PAGE => Len(outBar) < U!real_program_len
  BY Same, U!RunFacts, PageAssumption, ModeAssumption, SizeAssumption, FileAssumption
<1>2. /\ runBar = "loop" /\ ~U!AtEnd => takenBar["o"] < Len(data["o"])
      /\ runBar = "copy" => takenBar[Head(argsBar)] < Len(data[Head(argsBar)])
  BY <1>1 DEF U!NoUnderrun
<1>3. runBar = "done" => Len(outBar) = real_program_len /\ Len(body) <= Len(outBar)
  BY <1>1, Same DEF U!ExtractsAll
<1>4. \A n \in 1 .. Len(outBar) : n <= Len(body) => outBar[n] = body[n]
  BY <1>1 DEF U!OutIsPrefix
<1>5. main_pc = "tables" =>
        \A n \in 1 .. Len(data["o"]) :
          data["o"][n] # eof_marker => InArgtable(data["o"][n])
  BY <1>1 DEF U!LookupInArgtable, InArgtable
<1> QED BY <1>1, <1>2, <1>3, <1>4, <1>5, Same

\* Before it runs nothing is taken or written.
LEMMA BarsIdle ==
  ASSUME ~Started
  PROVE  /\ runBar = "idle" /\ argsBar = <<>> /\ outBar = <<>>
         /\ takenBar = [t \in Table |-> 0]
  BY DEF Started, runBar, argsBar, outBar, takenBar

\* A table by the offset of its pointer.
LEMMA TableByPointer ==
  ASSUME NEW t \in Table
  PROVE  (CHOOSE u \in Table : PointerOffset[u] = PointerOffset[t]) = t
  BY PointerFacts

\* What each piece of the depacker is for the one that sees only the tables.
Pieces ==
  /\ pc \in {"mainloop", "bne"} => runBar = "loop" /\ argsBar = <<>>
  /\ pc = "done" => runBar = "done" /\ argsBar = <<>>
  /\ pc = "tax" =>
       IF A = eof_marker THEN runBar = "done" /\ argsBar = <<>>
       ELSE /\ argsBar = ArgTables(mem[ADDR_TABLE_ARGTABLE + A])
            /\ runBar = IF argsBar = <<>> THEN "loop" ELSE "copy"
  /\ pc = "copy" =>
       /\ argsBar = ArgTables(mem[ADDR_TABLE_ARGTABLE + X])
       /\ runBar = IF argsBar = <<>> THEN "loop" ELSE "copy"
  /\ pc = "output_lo" => runBar = "copy" /\ argsBar = <<"l", "h">>
  /\ \A t \in Table : pc = "read_and_output" /\ X = PointerOffset[t] =>
       runBar = "copy" /\ argsBar = <<t>>

\* runBar and argsBar are these in every state.
LEMMA PieceFacts == Pieces
<1> USE DEF Pieces
<1>1. /\ pc \in {"mainloop", "bne", "done"} => argsBar = <<>>
      /\ pc = "tax" => argsBar = IF A = eof_marker THEN <<>>
                                 ELSE ArgTables(mem[ADDR_TABLE_ARGTABLE + A])
      /\ pc = "copy" => argsBar = ArgTables(mem[ADDR_TABLE_ARGTABLE + X])
      /\ pc = "output_lo" => argsBar = <<"l", "h">>
      /\ pc = "read_and_output" => argsBar = <<CHOOSE t \in Table : PointerOffset[t] = X>>
  <2>1. CASE pc = "tax" /\ A # eof_marker
    BY <2>1 DEF argsBar
  <2>2. CASE pc = "tax" /\ A = eof_marker
    BY <2>2 DEF argsBar
  <2>3. CASE pc = "copy"
    BY <2>3 DEF argsBar
  <2>4. CASE pc = "output_lo"
    BY <2>4 DEF argsBar
  <2>5. CASE pc = "read_and_output"
    BY <2>5 DEF argsBar
  <2>6. CASE pc \notin {"tax", "copy", "output_lo", "read_and_output"}
    BY <2>6 DEF argsBar
  <2> QED BY <2>1, <2>2, <2>3, <2>4, <2>5, <2>6
<1>2. \A t \in Table : pc = "read_and_output" /\ X = PointerOffset[t] => argsBar = <<t>>
  <2> SUFFICES ASSUME NEW t \in Table, pc = "read_and_output", X = PointerOffset[t]
               PROVE  argsBar = <<t>>
    OBVIOUS
  <2>1. argsBar = <<CHOOSE u \in Table : PointerOffset[u] = PointerOffset[t]>>
    BY <1>1
  <2> QED BY <2>1, TableByPointer
<1>3. /\ pc \in {"mainloop", "bne"} => runBar = "loop"
      /\ pc = "done" => runBar = "done"
      /\ pc = "tax" => runBar = IF A = eof_marker THEN "done"
                                ELSE IF argsBar = <<>> THEN "loop" ELSE "copy"
      /\ pc \in {"copy", "output_lo", "read_and_output"} =>
           runBar = IF argsBar = <<>> THEN "loop" ELSE "copy"
  BY <1>1 DEF runBar, Started
<1>4. <<"l", "h">> # <<>> /\ \A t : <<t>> # <<>>
  OBVIOUS
<1> QED BY <1>1, <1>2, <1>3, <1>4

\* And what it is behind a step.
LEMMA PieceFactsNext == Pieces'
  BY PieceFacts, PTL

\* The mode in the argument table: an offset of a pointer, or no argument.
LEMMA ModeInMemory ==
  ASSUME Accepted, NEW m,
         \A n \in 1 .. Size("t") : m[table_at["t"] + n - 1] = Content("t")[n],
         NEW b \in Byte, InArgtable(b)
  PROVE  /\ m[ADDR_TABLE_ARGTABLE + b] = data_argtable[b]
         /\ data_argtable[b] \in {0, 4, 6, 8, PAGE \div 2}
<1>1. data_argtable[b] \in {0, 4, 6, 8, PAGE \div 2}
  <2>1. data_argtable[b] = 0 \/ data_argtable[b] = opcode_to_mode[b] % PAGE
    BY DEF data_argtable
  <2>2. opcode_to_mode[b] \in Mode
    BY ModeAssumption
  <2>3. PICK h \in Nat : h = PAGE \div 2 /\ h < PAGE /\ PAGE >= 22 /\ PAGE \in Nat
    <3>1. PAGE \div 2 \in Nat /\ PAGE \div 2 < PAGE
      BY PageAssumption
    <3> QED BY <3>1, PageAssumption
  <2>4. 4 % PAGE = 4 /\ 6 % PAGE = 6 /\ 8 % PAGE = 8 /\ 0 % PAGE = 0 /\ h % PAGE = h
    BY <2>3, Remainder
  <2>5. (PAGE + h) % PAGE = h
    BY <2>3
  <2> QED BY <2>1, <2>2, <2>3, <2>4, <2>5 DEF Mode, MODEabs, MODEimm, MODErel, MODEzp,
           MODEimpl, MODEjam
<1>2. PICK s \in Nat, c \in Nat, t \in Nat :
        /\ s = argtable_start /\ c = count_argtable /\ t = table_at["t"]
        /\ Size("t") = c
  <2>1. SplitterOK
    BY DEF Accepted, MainInv, RouteInv, LayInv
  <2> QED BY <2>1, TableFacts DEF SplitterOK, Size, Id
<1>3. b \in Nat /\ s <= b /\ b < s + c
  BY <1>2, LimitFacts DEF InArgtable, Byte
<1>4. PICK n \in 1 .. c : n = b - s + 1
  BY <1>2, <1>3
<1>5. m[t + n - 1] = Content("t")[n]
  BY <1>2
<1>6. Content("t")[n] = data_argtable[b]
  <2>1. s + n - 1 = b
    BY <1>3, <1>4
  <2> QED BY <1>2, <2>1 DEF Content
<1>7. ADDR_TABLE_ARGTABLE + b = t + n - 1
  BY <1>2, <1>3, <1>4 DEF ADDR_TABLE_ARGTABLE
<1> QED BY <1>1, <1>5, <1>6, <1>7

\* The mode is found in the memory.
LEMMA ModeFound ==
  ASSUME Accepted, TablesInMemory, NEW b \in Byte, InArgtable(b)
  PROVE  /\ mem[ADDR_TABLE_ARGTABLE + b] = data_argtable[b]
         /\ data_argtable[b] \in {0, 4, 6, 8, PAGE \div 2}
<1>1. "t" \in Id \ {"d"}
  BY DEF Id
<1>2. \A n \in 1 .. Size("t") : mem[table_at["t"] + n - 1] = Content("t")[n]
  BY <1>1 DEF TablesInMemory
<1> QED BY <1>2, ModeInMemory

\* It is found there behind a step as well.
LEMMA ModeFoundNext ==
  ASSUME Accepted, UNCHANGED lvars, TablesInMemory', NEW b \in Byte, InArgtable(b)
  PROVE  /\ mem'[ADDR_TABLE_ARGTABLE' + b] = data_argtable[b]
         /\ data_argtable[b] \in {0, 4, 6, 8, PAGE \div 2}
<1>1. "t" \in Id \ {"d"}
  BY DEF Id
<1>2. /\ Size("t")' = Size("t") /\ Content("t")' = Content("t") /\ table_at' = table_at
      /\ ADDR_TABLE_ARGTABLE' = ADDR_TABLE_ARGTABLE
  BY <1>1, MainStays
<1>3. \A n \in 1 .. Size("t") : mem'[table_at["t"] + n - 1] = Content("t")[n]
  BY <1>1, <1>2 DEF TablesInMemory
<1> QED BY <1>2, <1>3, ModeInMemory

\* The depacker finds its end where the tables end.
LEMMA ProgramEnd ==
  ASSUME Accepted, Started, CpuInv, U!IInv, runBar = "loop"
  PROVE  AtProgramEnd <=> U!AtEnd
<1> SUFFICES ASSUME eof_marker = PAGE
             PROVE  (Y = program_end % PAGE /\ mem[smc_hi] = program_end \div PAGE)
                      <=> Len(outBar) = real_program_len
  BY Same DEF AtProgramEnd
<1>1. PICK a \in Nat, l \in Nat, e \in Nat :
        /\ a = program_addr /\ l = real_program_len /\ e = program_end
        /\ e = a + l /\ e < ADDR_LIMIT /\ 2 * PAGE <= a
  BY PlaceFacts
<1>2. PICK w \in Addr, n \in Nat :
        w = Word(Y, mem[smc_hi]) /\ n = Distance(w, a) /\ Len(outBar) = n
  BY <1>1, NextStore
<1>3. n <= l
  BY <1>1, <1>2, RetracedFacts
<1>4. a + n < ADDR_LIMIT /\ a \in 1 .. ADDR_LIMIT
  BY <1>1, <1>3, LimitFacts
<1>5. w = a + n
  BY <1>2, <1>4, DistanceFacts
<1>6. e \in Addr
  BY <1>1, LimitFacts DEF Addr
<1>7. PICK lo \in Byte, hi \in Byte : lo = Y /\ hi = mem[smc_hi]
  BY RunningFacts
<1>8. w = e <=> lo = e % PAGE /\ hi = e \div PAGE
  BY <1>2, <1>6, <1>7, WordIs
<1>9. w = e <=> n = l
  BY <1>1, <1>5
<1> QED BY <1>1, <1>2, <1>7, <1>8, <1>9

\* A step of the depacker as the tables see it, and what it may write.
Simulates == U!NextRun \/ UNCHANGED U!uvars

\* The depacker writes only its own.
OwnWrites == pc # "off" => \A a \in Addr : mem'[a] # mem[a] => a \in Writable

\* Such a step keeps the invariant of U.
LEMMA SimulatesKeeps ==
  ASSUME U!IInv, Simulates
  PROVE  U!IInv'
<1>1. CASE U!NextRun
  BY <1>1, Same, U!RunHolds, PageAssumption, ModeAssumption, SizeAssumption, FileAssumption
<1>2. CASE UNCHANGED U!uvars
  BY <1>2, Same, U!StutterHolds, PageAssumption, ModeAssumption, SizeAssumption,
     FileAssumption
<1> QED BY <1>1, <1>2 DEF Simulates

\* Nothing of main changes, nothing the tables see changes.
LEMMA Unseen ==
  ASSUME UNCHANGED lvars
  PROVE  /\ U!mainVars' = U!mainVars
         /\ UNCHANGED <<runBar, takenBar, argsBar, outBar>> => UNCHANGED U!uvars
<1>1. UNCHANGED mainVars
  BY MainStays
<1>2. U!mainVars' = U!mainVars
  BY <1>1 DEF U!mainVars, mainVars, U!fileVars, fileVars, U!loadVars, loadVars,
     U!splitVars, splitVars, U!tableVars, tableVars
<1> QED BY <1>2 DEF U!uvars, U!runVars

\* What is left to show of the invariant for a step of a depacker that runs.
LEMMA InvAfter ==
  ASSUME Accepted, CpuInv, UNCHANGED lvars, Started,
         pc' \in {"mainloop", "tax", "copy", "output_lo", "read_and_output", "bne", "done"},
         mem' \in [Addr -> 0 .. CODE], A' \in 0 .. CODE, X' \in Byte, Y' \in Byte,
         Z' \in BOOLEAN, ret' \in {"bne", "done"}, TablesInMemory', Running'
  PROVE  CpuInv'
<1>1. LayoutTypeOK'
  <2>1. MainInv'
    BY MainInvKept DEF Accepted
  <2> QED BY <2>1 DEF MainInv, RouteInv, LayInv
<1>2. CpuTypeOK'
  BY <1>1 DEF CpuTypeOK
<1>3. lay_pc' = "accepted" /\ 2 * PAGE <= program_addr'
  BY MainStays DEF Accepted
<1> QED BY <1>2, <1>3 DEF CpuInv, Started

\* A step that leaves the memory and Y alone keeps what is taken and written.
LEMMA BarsKept ==
  ASSUME Accepted, CpuInv, UNCHANGED lvars, Started, Started', mem' = mem, Y' = Y
  PROVE  /\ takenBar' = takenBar /\ outBar' = outBar
         /\ TablesInMemory' /\ OwnWrites
         /\ \A n \in 0 .. 11 : mem'[ZP_TEMP' + n] \in Byte
         /\ mem'[smc_hi'] \in Byte
<1>1. /\ ZP_TEMP' = ZP_TEMP /\ table_at' = table_at /\ smc_hi' = smc_hi
      /\ program_addr' = program_addr
  BY MainStays
<1>2. takenBar' = takenBar
  BY <1>1 DEF takenBar, Started
<1>3. outBar' = outBar
  BY <1>1 DEF outBar, Started
<1>4. TablesInMemory'
  BY TablesKept, RunningFacts
<1> QED BY <1>1, <1>2, <1>3, <1>4, RunningFacts DEF OwnWrites

\* Before the depacker runs.
LEMMA CallSimulates ==
  ASSUME Accepted, CpuInv, Call
  PROVE  Simulates /\ CpuInv' /\ OwnWrites
<1>1. /\ UNCHANGED lvars /\ pc = "off" /\ pc' = "copyloop" /\ X' = 11
      /\ A' = A /\ Y' = Y /\ Z' = Z /\ ret' = ret
  BY DEF Call
<1>2. Simulates
  <2>1. ~Started /\ ~Started'
    BY <1>1 DEF Started
  <2>2. runBar = "idle" /\ argsBar = <<>> /\ outBar = <<>> /\ takenBar = [t \in Table |-> 0]
    BY <2>1, BarsIdle
  <2>3. /\ runBar' = "idle" /\ argsBar' = <<>> /\ outBar' = <<>>
        /\ takenBar' = [t \in Table |-> 0]
    BY <1>1, <2>1 DEF Started, runBar, argsBar, outBar, takenBar
  <2> QED BY <1>1, <2>2, <2>3, Unseen DEF Simulates
<1>3. CpuInv'
  <2>1. LayoutTypeOK'
    <3>1. MainInv'
      BY <1>1, MainInvKept DEF Accepted
    <3> QED BY <3>1 DEF MainInv, RouteInv, LayInv
  <2>2. mem' \in [Addr -> 0 .. CODE] /\ TablesInMemory' /\ mem'[smc_hi] = HighByte(program_addr)
    BY CallFacts
  <2>3. X' \in Byte
    BY <1>1, LimitFacts DEF Byte
  <2>4. CpuTypeOK'
    BY <1>1, <2>1, <2>2, <2>3 DEF CpuTypeOK, CpuInv
  <2>5. lay_pc' = "accepted" /\ 2 * PAGE <= program_addr'
    BY <1>1, MainStays DEF Accepted
  <2>6. Copying'
    <3>1. HighByte(program_addr)' = HighByte(program_addr) /\ smc_hi' = smc_hi
      BY <1>1, MainStays DEF HighByte
    <3>2. \A n \in X' + 1 .. 11 : FALSE
      BY <1>1
    <3>3. X' \in 0 .. 11
      BY <1>1
    <3> QED BY <2>2, <3>1, <3>2, <3>3 DEF Copying
  <2> QED BY <1>1, <2>2, <2>4, <2>5, <2>6 DEF CpuInv, Started
<1> QED BY <1>1, <1>2, <1>3 DEF OwnWrites

\* The pointers start with the addresses of the tables.
LEMMA PointerBytes ==
  ASSUME Accepted, NEW t \in Table
  PROVE  /\ PointerByte(PointerOffset[t]) = table_at[t] % PAGE
         /\ PointerByte(PointerOffset[t] + 1) = HighByte(table_at[t])
<1>1. /\ PointerOrder[1] = "l" /\ PointerOrder[2] = "h" /\ PointerOrder[3] = "i"
      /\ PointerOrder[4] = "r" /\ PointerOrder[5] = "z" /\ PointerOrder[6] = "o"
  BY DEF PointerOrder
<1>2. PICK m \in 0 .. 5 : PointerOffset[t] = 2 * m /\ PointerOrder[m + 1] = t
  <2>1. t \in {"l", "h", "i", "r", "z", "o"}
    BY DEF Table
  <2>2. /\ PointerOffset["l"] = 2 * 0 /\ PointerOffset["h"] = 2 * 1
        /\ PointerOffset["i"] = 2 * 2 /\ PointerOffset["r"] = 2 * 3
        /\ PointerOffset["z"] = 2 * 4 /\ PointerOffset["o"] = 2 * 5
    BY DEF PointerOffset
  <2>3. /\ PointerOrder[0 + 1] = "l" /\ PointerOrder[1 + 1] = "h"
        /\ PointerOrder[2 + 1] = "i" /\ PointerOrder[3 + 1] = "r"
        /\ PointerOrder[4 + 1] = "z" /\ PointerOrder[5 + 1] = "o"
    BY <1>1
  <2> QED BY <2>1, <2>2, <2>3
<1>3. /\ (2 * m) \div 2 = m /\ (2 * m) % 2 = 0
      /\ (2 * m + 1) \div 2 = m /\ (2 * m + 1) % 2 = 1
  OBVIOUS
<1> QED BY <1>2, <1>3 DEF PointerByte

\* X after its decrement: negative if it was 0.
LEMMA Decrement ==
  ASSUME NEW x \in 0 .. 11
  PROVE  /\ (x + PAGE - 1) % PAGE \in Byte
         /\ x = 0 => Negative((x + PAGE - 1) % PAGE)
         /\ x # 0 => (x + PAGE - 1) % PAGE = x - 1 /\ ~Negative((x + PAGE - 1) % PAGE)
<1>1. PAGE \in Nat /\ PAGE >= 22 /\ PAGE % 2 = 0
  BY PageAssumption
<1>2. CASE x = 0
  <2>1. (x + PAGE - 1) % PAGE = PAGE - 1
    <3>1. PAGE - 1 \in Nat /\ PAGE - 1 < PAGE
      BY <1>1
    <3> QED BY <1>1, <1>2, <3>1, Remainder
  <2>2. PAGE - 1 \in Byte
    BY <1>1 DEF Byte
  <2>3. PAGE - 1 >= PAGE \div 2
    BY <1>1
  <2> QED BY <1>2, <2>1, <2>2, <2>3 DEF Negative
<1>3. CASE x # 0
  <2>1. (x + PAGE - 1) % PAGE = x - 1
    BY <1>1, <1>3
  <2>2. x - 1 \in Byte /\ x - 1 <= 10
    BY <1>1, <1>3 DEF Byte
  <2>3. PAGE \div 2 >= 11
    BY <1>1
  <2>4. ~(x - 1 >= PAGE \div 2)
    BY <1>1, <2>2, <2>3
  <2> QED BY <1>3, <2>1, <2>2, <2>4 DEF Negative
<1> QED BY <1>2, <1>3

\* The pointer bytes above the one just copied are there, and that one is.
LEMMA CopyPointerFacts ==
  ASSUME Accepted, CpuInv, CopyPointer
  PROVE  /\ X \in 0 .. 11 /\ UNCHANGED lvars
         /\ mem' \in [Addr -> 0 .. CODE] /\ A' \in Byte
         /\ \A n \in X .. 11 : mem'[ZP_TEMP + n] = PointerByte(n)
         /\ mem'[smc_hi] = HighByte(program_addr)
         /\ TablesInMemory' /\ OwnWrites
<1>1. /\ X \in 0 .. 11 /\ TablesInMemory /\ mem \in [Addr -> 0 .. CODE]
      /\ \A n \in X + 1 .. 11 : mem[ZP_TEMP + n] = PointerByte(n)
      /\ mem[smc_hi] = HighByte(program_addr)
  BY DEF CopyPointer, CpuInv, CpuTypeOK, Copying
<1>2. A' = PointerByte(X) /\ A' \in Byte
  <2>1. A' = PointerByte(X)
    BY <1>1 DEF CopyPointer, TablesInMemory
  <2>2. table_at \in [Id -> Nat]
    BY DEF Accepted, MainInv, RouteInv, LayInv, LayoutTypeOK
  <2> QED BY <1>1, <2>1, <2>2, PointerByteOK
<1>3. PICK z \in Nat, h \in Nat, x \in 0 .. 11, b \in 0 .. CODE :
        z = ZP_TEMP /\ h = smc_hi /\ x = X /\ b = A' /\ z + 11 < h
  BY <1>1, <1>2, PlaceFacts, ByteFacts
<1>4. mem' = [mem EXCEPT ![z + x] = b]
  BY <1>3 DEF CopyPointer
<1>5. /\ \A n \in 0 .. 11 : z + n \in Addr /\ z + n \in Writable
      /\ h \in Addr
  BY <1>3, WritableInMemory
<1>6. /\ mem' \in [Addr -> 0 .. CODE] /\ mem'[z + x] = b
      /\ \A a \in Addr : a # z + x => mem'[a] = mem[a]
  BY <1>1, <1>4, <1>5
<1>7. ASSUME NEW n \in X .. 11 PROVE mem'[ZP_TEMP + n] = PointerByte(n)
  <2>1. CASE n = x
    BY <1>2, <1>3, <1>6, <2>1
  <2>2. CASE n # x
    <3>1. n \in x + 1 .. 11 /\ n \in 0 .. 11 /\ z + n # z + x
      BY <1>3, <2>2
    <3>2. mem'[z + n] = mem[z + n]
      BY <1>5, <1>6, <3>1
    <3> QED BY <1>1, <1>3, <3>1, <3>2
  <2> QED BY <2>1, <2>2
<1>8. mem'[smc_hi] = HighByte(program_addr)
  <2>1. h # z + x
    BY <1>3
  <2> QED BY <1>1, <1>3, <1>5, <1>6, <2>1
<1>9. \A a \in Addr : mem'[a] # mem[a] => a \in Writable
  BY <1>5, <1>6
<1>10. UNCHANGED lvars
  BY DEF CopyPointer
<1>11. TablesInMemory'
  BY <1>1, <1>9, <1>10, TablesKept
<1> QED BY <1>1, <1>2, <1>6, <1>7, <1>8, <1>9, <1>10, <1>11 DEF OwnWrites

\* As long as pointers are to be copied.
LEMMA CopyPointerSimulates ==
  ASSUME Accepted, CpuInv, CopyPointer, pc' = "copyloop"
  PROVE  Simulates /\ CpuInv' /\ OwnWrites
<1>1. /\ X \in 0 .. 11 /\ UNCHANGED lvars
      /\ mem' \in [Addr -> 0 .. CODE] /\ A' \in Byte
      /\ \A n \in X .. 11 : mem'[ZP_TEMP + n] = PointerByte(n)
      /\ mem'[smc_hi] = HighByte(program_addr)
      /\ TablesInMemory' /\ OwnWrites
  BY CopyPointerFacts
<1>2. /\ pc = "copyloop" /\ X' = (X + PAGE - 1) % PAGE /\ ~Negative(X')
      /\ Y' = Y /\ Z' = Z /\ ret' = ret
  BY DEF CopyPointer
<1>3. PICK x \in 0 .. 11 : x = X /\ x # 0 /\ X' = x - 1
  BY <1>1, <1>2, Decrement
<1>4. Simulates
  <2>1. ~Started /\ ~Started'
    BY <1>2 DEF Started
  <2>2. runBar = "idle" /\ argsBar = <<>> /\ outBar = <<>> /\ takenBar = [t \in Table |-> 0]
    BY <2>1, BarsIdle
  <2>3. /\ runBar' = "idle" /\ argsBar' = <<>> /\ outBar' = <<>>
        /\ takenBar' = [t \in Table |-> 0]
    BY <2>1 DEF Started, runBar, argsBar, outBar, takenBar
  <2> QED BY <1>1, <2>2, <2>3, Unseen DEF Simulates
<1>5. CpuInv'
  <2>1. LayoutTypeOK'
    <3>1. MainInv'
      BY <1>1, MainInvKept DEF Accepted
    <3> QED BY <3>1 DEF MainInv, RouteInv, LayInv
  <2>2. A' \in 0 .. CODE /\ X' \in Byte
    BY <1>1, <1>2, Decrement, ByteFacts
  <2>3. CpuTypeOK'
    BY <1>1, <1>2, <2>1, <2>2 DEF CpuTypeOK, CpuInv
  <2>4. lay_pc' = "accepted" /\ 2 * PAGE <= program_addr'
    BY <1>1, MainStays DEF Accepted
  <2>5. Copying'
    <3>1. /\ HighByte(program_addr)' = HighByte(program_addr) /\ smc_hi' = smc_hi
          /\ ZP_TEMP' = ZP_TEMP
      BY <1>1, MainStays DEF HighByte
    <3>2. X' \in 0 .. 11 /\ X' + 1 = X
      BY <1>3
    <3>3. ASSUME NEW n \in X .. 11 PROVE mem'[ZP_TEMP'+ n] = PointerByte(n)'
      <4>1. n \in Int
        BY <1>1
      <4> QED BY <1>1, <3>1, <4>1, MainStays
    <3> QED BY <1>1, <3>1, <3>2, <3>3 DEF Copying
  <2> QED BY <1>1, <2>3, <2>4, <2>5 DEF CpuInv, Started
<1> QED BY <1>1, <1>4, <1>5

\* The last pointer byte, and the depacker starts: every pointer points to the
\* start of its table, the store instruction to the place of the program.
LEMMA StartSimulates ==
  ASSUME Accepted, CpuInv, CopyPointer, pc' # "copyloop"
  PROVE  Simulates /\ CpuInv' /\ OwnWrites
<1>1. /\ X \in 0 .. 11 /\ UNCHANGED lvars
      /\ mem' \in [Addr -> 0 .. CODE] /\ A' \in Byte
      /\ \A n \in X .. 11 : mem'[ZP_TEMP + n] = PointerByte(n)
      /\ mem'[smc_hi] = HighByte(program_addr)
      /\ TablesInMemory' /\ OwnWrites
  BY CopyPointerFacts
<1>2. /\ pc = "copyloop" /\ X' = (X + PAGE - 1) % PAGE /\ Negative(X')
      /\ Z' = Z /\ ret' = ret /\ pc' = "mainloop" /\ Y' = program_addr % PAGE
  BY DEF CopyPointer
<1>3. X = 0
  BY <1>1, <1>2, Decrement
<1>4. /\ table_at' = table_at /\ ZP_TEMP' = ZP_TEMP /\ smc_hi' = smc_hi
      /\ program_addr' = program_addr /\ main_pc = "tables"
  <2>1. main_pc = "tables"
    BY DEF Accepted, MainInv, RouteInv, LayInv, Progressed, Laying
  <2> QED BY <1>1, <2>1, MainStays
<1>5. \A a \in Nat : a % ADDR_LIMIT \in Nat
  BY LimitFacts
<1>6. ASSUME NEW a \in 1 .. ADDR_LIMIT PROVE Distance(a % ADDR_LIMIT, a) = 0
  <2>1. CASE a = ADDR_LIMIT
    <3>1. a % ADDR_LIMIT = 0 /\ (0 + ADDR_LIMIT - a) % ADDR_LIMIT = 0
      BY <2>1, LimitFacts
    <3> QED BY <3>1 DEF Distance
  <2>2. CASE a < ADDR_LIMIT
    <3>1. a % ADDR_LIMIT = a
      BY <2>2, WithinLimit
    <3>2. a + ADDR_LIMIT - a = ADDR_LIMIT /\ ADDR_LIMIT % ADDR_LIMIT = 0
      BY LimitFacts
    <3> QED BY <3>1, <3>2 DEF Distance
  <2> QED BY <2>1, <2>2, LimitFacts
<1>7. ASSUME NEW t \in Table
      PROVE  Distance(Word(mem'[PointerAt(t)], mem'[PointerAt(t) + 1]), table_at[t]) = 0
  <2>1. PICK z \in Nat, o \in 0 .. 10 :
          /\ z = ZP_TEMP /\ o = PointerOffset[t] /\ PointerAt(t) = z + o
          /\ PointerAt(t) + 1 = z + (o + 1)
    BY PointerPlace
  <2>2. o \in 0 .. 11 /\ o + 1 \in 0 .. 11
    OBVIOUS
  <2>3. mem'[z + o] = PointerByte(o) /\ mem'[z + (o + 1)] = PointerByte(o + 1)
    BY <1>1, <1>3, <2>1, <2>2
  <2>4. mem'[z + o] = table_at[t] % PAGE /\ mem'[z + (o + 1)] = HighByte(table_at[t])
    BY <2>1, <2>3, PointerBytes
  <2>5. PICK a \in 1 .. ADDR_LIMIT : a = table_at[t]
    <3>1. t \in Id
      BY DEF Id
    <3>2. PICK a \in Nat, n \in Nat :
            a = table_at[t] /\ n = Size(t) /\ 2 * PAGE <= a /\ a + n <= ADDR_LIMIT
      BY <3>1, TableFacts DEF TableEnd
    <3> QED BY <3>2, LimitFacts
  <2>6. Word(mem'[z + o], mem'[z + (o + 1)]) = a % ADDR_LIMIT
    <3>1. a \in 0 .. ADDR_LIMIT
      BY LimitFacts
    <3>2. Word(a % PAGE, HighByte(a)) = a % ADDR_LIMIT
      BY <3>1, WordDigits
    <3> QED BY <2>4, <2>5, <3>2
  <2> QED BY <1>6, <2>1, <2>5, <2>6
<1>8. takenBar' = [t \in Table |-> 0]
  <2>1. takenBar' = [t \in Table |->
                       Distance(Word(mem'[PointerAt(t)], mem'[PointerAt(t) + 1]), table_at[t])]
    BY <1>2, <1>4 DEF takenBar, Started, Distance, PointerAt
  <2> QED BY <1>7, <2>1
<1>9. PICK a \in 1 .. ADDR_LIMIT : a = program_addr /\ a \in 0 .. ADDR_LIMIT
  <2>1. PICK a \in Nat : a = program_addr /\ 1 <= a /\ a <= ADDR_LIMIT
    BY PlaceFacts, LimitFacts
  <2> QED BY <2>1, LimitFacts
<1>10. outBar' = <<>>
  <2>1. Word(Y', mem'[smc_hi]) = a % ADDR_LIMIT
    BY <1>1, <1>2, <1>9, WordDigits
  <2>2. Distance(Word(Y', mem'[smc_hi]), program_addr) = 0
    BY <1>6, <1>9, <2>1
  <2>3. outBar' = [x \in 1 .. 0 |-> mem'[(program_addr + x - 1) % ADDR_LIMIT]]
    BY <1>2, <1>4, <2>2 DEF outBar, Started, Distance
  <2> QED BY <2>3
<1>11. Simulates
  <2>1. runBar = "idle" /\ argsBar = <<>> /\ outBar = <<>> /\ takenBar = [t \in Table |-> 0]
    BY <1>2, BarsIdle DEF Started
  <2>2. argsBar' = <<>>
    BY <1>2 DEF argsBar
  <2>3. runBar' = "loop"
    BY <1>2, <2>2 DEF runBar, Started
  <2>4. U!Start
    BY <1>1, <1>4, <1>8, <1>10, <2>1, <2>2, <2>3, Unseen DEF U!Start
  <2> QED BY <2>4 DEF Simulates, U!NextRun
<1>12. CpuInv'
  <2>1. LayoutTypeOK'
    <3>1. MainInv'
      BY <1>1, MainInvKept DEF Accepted
    <3> QED BY <3>1 DEF MainInv, RouteInv, LayInv
  <2>2. A' \in 0 .. CODE /\ X' \in Byte
    BY <1>1, <1>2, Decrement, ByteFacts
  <2>3. Y' \in Byte /\ HighByte(program_addr) \in Byte
    BY <1>2, <1>9, WordDigits
  <2>4. CpuTypeOK'
    BY <1>1, <1>2, <2>1, <2>2, <2>3 DEF CpuTypeOK, CpuInv
  <2>5. lay_pc' = "accepted" /\ 2 * PAGE <= program_addr'
    BY <1>1, MainStays DEF Accepted
  <2>6. \A n \in 0 .. 11 : mem'[ZP_TEMP + n] \in Byte
    <3>1. table_at \in [Id -> Nat]
      BY DEF Accepted, MainInv, RouteInv, LayInv, LayoutTypeOK
    <3> QED BY <1>1, <1>3, <3>1, PointerByteOK
  <2>7. Running'
    BY <1>1, <1>2, <1>4, <2>3, <2>6 DEF Running, BranchesAlways
  <2> QED BY <1>1, <1>2, <2>4, <2>5, <2>7 DEF CpuInv, Started
<1> QED BY <1>1, <1>11, <1>12

\* The modes as offsets of pointers, and what they stand for.
LEMMA OffsetFacts ==
  /\ PAGE \div 2 \in 11 .. PAGE - 1 /\ Negative(PAGE \div 2)
  /\ ArgTables(PAGE \div 2) = <<>>
  /\ ArgTables(0) = <<"l", "h">> /\ ~Negative(0)
  /\ \A m \in {4, 6, 8} :
       /\ ~Negative(m)
       /\ \E t \in Table \ {"o", "l"} : PointerOffset[t] = m /\ ArgTables(m) = <<t>>
<1>1. PAGE \in Nat /\ PAGE >= 22 /\ PAGE % 2 = 0
  BY PageAssumption
<1>2. PICK h \in Nat : h = PAGE \div 2 /\ h >= 11 /\ h < PAGE
  <2>1. PAGE \div 2 \in Nat /\ PAGE \div 2 >= 11 /\ PAGE \div 2 < PAGE
    BY <1>1
  <2> QED BY <2>1
<1>3. Negative(PAGE \div 2) /\ \A m \in {0, 4, 6, 8} : ~Negative(m)
  BY <1>2 DEF Negative
<1>4. ArgTables(h) = <<>>
  BY <1>2 DEF ArgTables, MODEabs, MODEimm, MODErel, MODEzp
<1>5. /\ ArgTables(0) = <<"l", "h">> /\ ArgTables(4) = <<"i">>
      /\ ArgTables(6) = <<"r">> /\ ArgTables(8) = <<"z">>
  BY DEF ArgTables, MODEabs, MODEimm, MODErel, MODEzp
<1>6. PointerOffset["i"] = 4 /\ PointerOffset["r"] = 6 /\ PointerOffset["z"] = 8
  BY DEF PointerOffset
<1>7. {"i", "r", "z"} \subseteq Table \ {"o", "l"}
  BY DEF Table
<1> QED BY <1>1, <1>2, <1>3, <1>4, <1>5, <1>6, <1>7

\* The return at the end of the program is that at the end of the tables.
LEMMA ReturnSimulates ==
  ASSUME Accepted, CpuInv, U!IInv, ReturnAtProgramEnd
  PROVE  Simulates /\ CpuInv' /\ OwnWrites
<1>1. /\ UNCHANGED lvars /\ pc = "mainloop" /\ pc' = "done" /\ AtProgramEnd
      /\ mem' = mem /\ A' = A /\ X' = X /\ Y' = Y /\ Z' = Z /\ ret' = ret
  BY DEF ReturnAtProgramEnd
<1>2. Started /\ Started'
  BY <1>1 DEF Started
<1>3. /\ takenBar' = takenBar /\ outBar' = outBar /\ TablesInMemory' /\ OwnWrites
      /\ \A n \in 0 .. 11 : mem'[ZP_TEMP' + n] \in Byte
      /\ mem'[smc_hi'] \in Byte
  BY <1>1, <1>2, BarsKept
<1>4. /\ runBar = "loop" /\ argsBar = <<>> /\ runBar' = "done" /\ argsBar' = <<>>
  BY <1>1, PieceFacts, PieceFactsNext DEF Pieces
<1>5. U!ReturnAtEnd
  BY <1>1, <1>2, <1>3, <1>4, ProgramEnd, Unseen DEF U!ReturnAtEnd
<1>6. Running'
  BY <1>1, <1>3 DEF Running, BranchesAlways
<1>7. CpuInv'
  BY <1>1, <1>2, <1>3, <1>6, InvAfter DEF CpuInv, CpuTypeOK
<1> QED BY <1>3, <1>5, <1>7 DEF Simulates, U!NextRun

\* The test of the opcode changes nothing the tables see.
LEMMA TestSimulates ==
  ASSUME Accepted, CpuInv, U!IInv, TestOpcode
  PROVE  Simulates /\ CpuInv' /\ OwnWrites
<1>1. /\ UNCHANGED lvars /\ pc = "tax" /\ X' = A
      /\ mem' = mem /\ A' = A /\ Y' = Y /\ Z' = Z
      /\ IF A = eof_marker THEN pc' = "done" /\ ret' = ret
         ELSE pc' = "copy" /\ ret' = "bne"
  BY DEF TestOpcode
<1>2. Started /\ Started'
  BY <1>1 DEF Started
<1>3. /\ takenBar' = takenBar /\ outBar' = outBar /\ TablesInMemory' /\ OwnWrites
      /\ \A n \in 0 .. 11 : mem'[ZP_TEMP' + n] \in Byte
      /\ mem'[smc_hi'] \in Byte
  BY <1>1, <1>2, BarsKept
<1>4. /\ ADDR_TABLE_ARGTABLE' = ADDR_TABLE_ARGTABLE /\ eof_marker' = eof_marker
      /\ argtable_start' = argtable_start /\ count_argtable' = count_argtable
  BY <1>1, MainStays
<1>5. A \in Byte /\ (A # eof_marker => InArgtable(A))
  BY <1>1, <1>2 DEF CpuInv, Running
<1>6. argsBar' = argsBar /\ runBar' = runBar
  <2>1. CASE A = eof_marker
    BY <1>1, <2>1, PieceFacts, PieceFactsNext DEF Pieces
  <2>2. CASE A # eof_marker
    <3>1. argsBar = ArgTables(mem[ADDR_TABLE_ARGTABLE + A])
      BY <1>1, <2>2, PieceFacts DEF Pieces
    <3>2. argsBar' = ArgTables(mem'[ADDR_TABLE_ARGTABLE' + X'])
      BY <1>1, <2>2, PieceFactsNext DEF Pieces
    <3>3. argsBar' = argsBar
      BY <1>1, <1>4, <3>1, <3>2
    <3> QED BY <1>1, <2>2, <3>3, PieceFacts, PieceFactsNext DEF Pieces
  <2> QED BY <2>1, <2>2
<1>7. Running'
  BY <1>1, <1>3, <1>4, <1>5 DEF Running, BranchesAlways, InArgtable
<1>8. CpuInv'
  <2>1. A' \in 0 .. CODE /\ ret' \in {"bne", "done"} /\ X' \in Byte
    BY <1>1, <1>5 DEF CpuInv, CpuTypeOK
  <2> QED BY <1>1, <1>2, <1>3, <1>7, <2>1, InvAfter DEF CpuInv, CpuTypeOK
<1> QED BY <1>1, <1>3, <1>6, <1>8, Unseen DEF Simulates

\* Neither does looking up its mode, which says where the depacker goes next.
LEMMA LookupSimulates ==
  ASSUME Accepted, CpuInv, U!IInv, LookupMode
  PROVE  Simulates /\ CpuInv' /\ OwnWrites
<1>1. /\ UNCHANGED lvars /\ pc = "copy" /\ mem' = mem /\ Y' = Y /\ ret' = ret
      /\ A' = mem[ADDR_TABLE_ARGTABLE + X]
      /\ IF Negative(A') THEN pc' = ret /\ Z' = FALSE /\ X' = X
         ELSE /\ X' = A' /\ Z' = (A' = 0)
              /\ pc' = IF A' = 0 THEN "output_lo" ELSE "read_and_output"
  BY DEF LookupMode
<1>2. Started
  BY <1>1 DEF Started
<1>3. X \in Byte /\ InArgtable(X) /\ ret = "bne" /\ TablesInMemory
  BY <1>1, <1>2 DEF CpuInv, CpuTypeOK, Running
<1>4. PICK m \in {0, 4, 6, 8, PAGE \div 2} : m = mem[ADDR_TABLE_ARGTABLE + X] /\ A' = m
  BY <1>1, <1>3, ModeFound
<1>5. /\ argsBar = ArgTables(m)
      /\ runBar = IF argsBar = <<>> THEN "loop" ELSE "copy"
  BY <1>1, <1>4, PieceFacts DEF Pieces
<1>6. Started'
  BY <1>1, <1>3 DEF Started
<1>7. /\ takenBar' = takenBar /\ outBar' = outBar /\ TablesInMemory' /\ OwnWrites
      /\ \A n \in 0 .. 11 : mem'[ZP_TEMP' + n] \in Byte
      /\ mem'[smc_hi'] \in Byte
  BY <1>1, <1>2, <1>6, BarsKept
<1>8. A' \in 0 .. CODE /\ X' \in Byte /\ Z' \in BOOLEAN
  <2>1. m \in Byte
    BY <1>4, OffsetFacts, LimitFacts DEF Byte
  <2> QED BY <1>1, <1>3, <1>4, <2>1, ByteFacts
<1>9. /\ argsBar' = argsBar /\ runBar' = runBar /\ Running'
      /\ pc' \in {"output_lo", "read_and_output", "bne"}
  <2>1. CASE m = PAGE \div 2
    <3>1. pc' = "bne" /\ Z' = FALSE
      BY <1>1, <1>3, <1>4, <2>1, OffsetFacts
    <3>2. argsBar' = <<>> /\ runBar' = "loop"
      BY <3>1, PieceFactsNext DEF Pieces
    <3>3. Running'
      BY <1>7, <3>1 DEF Running, BranchesAlways
    <3> QED BY <1>5, <2>1, <3>1, <3>2, <3>3, OffsetFacts
  <2>2. CASE m = 0
    <3>1. pc' = "output_lo" /\ X' = 0
      BY <1>1, <1>4, <2>2, OffsetFacts
    <3>2. argsBar' = <<"l", "h">> /\ runBar' = "copy"
      BY <3>1, PieceFactsNext DEF Pieces
    <3>3. PointerOffset["l"] = 0
      BY DEF PointerOffset
    <3>4. Running'
      BY <1>1, <1>3, <1>7, <3>1, <3>3 DEF Running, BranchesAlways
    <3>5. <<"l", "h">> # <<>>
      OBVIOUS
    <3> QED BY <1>5, <2>2, <3>1, <3>2, <3>4, <3>5, OffsetFacts
  <2>3. CASE m \in {4, 6, 8}
    <3>1. pc' = "read_and_output" /\ X' = m
      <4>1. m # 0
        BY <2>3
      <4> QED BY <1>1, <1>4, <2>3, <4>1, OffsetFacts
    <3>2. PICK t \in Table \ {"o", "l"} : PointerOffset[t] = m /\ ArgTables(m) = <<t>>
      BY <2>3, OffsetFacts
    <3>3. argsBar' = <<t>> /\ runBar' = "copy"
      BY <3>1, <3>2, PieceFactsNext DEF Pieces
    <3>4. Running'
      BY <1>1, <1>3, <1>7, <3>1, <3>2 DEF Running, BranchesAlways
    <3>5. <<t>> # <<>>
      OBVIOUS
    <3> QED BY <1>5, <3>1, <3>2, <3>3, <3>4, <3>5
  <2> QED BY <2>1, <2>2, <2>3
<1>10. CpuInv'
  <2>1. Y' \in Byte /\ ret' \in {"bne", "done"} /\ mem' \in [Addr -> 0 .. CODE]
    BY <1>1, <1>2, <1>3, RunningFacts
  <2> QED BY <1>1, <1>2, <1>7, <1>8, <1>9, <2>1, InvAfter
<1> QED BY <1>1, <1>7, <1>9, <1>10, Unseen DEF Simulates

\* Nor the branch back, because it is taken.
LEMMA BranchSimulates ==
  ASSUME Accepted, CpuInv, U!IInv, Branch
  PROVE  Simulates /\ CpuInv' /\ OwnWrites
<1>1. ~Z
  BY DEF Branch, CpuInv, Started, Running, BranchesAlways
<1>2. /\ UNCHANGED lvars /\ pc = "bne" /\ pc' = "mainloop"
      /\ mem' = mem /\ A' = A /\ X' = X /\ Y' = Y /\ Z' = Z /\ ret' = ret
  BY <1>1 DEF Branch
<1>3. Started /\ Started'
  BY <1>2 DEF Started
<1>4. /\ takenBar' = takenBar /\ outBar' = outBar /\ TablesInMemory' /\ OwnWrites
      /\ \A n \in 0 .. 11 : mem'[ZP_TEMP' + n] \in Byte
      /\ mem'[smc_hi'] \in Byte
  BY <1>2, <1>3, BarsKept
<1>5. /\ runBar = "loop" /\ argsBar = <<>> /\ runBar' = "loop" /\ argsBar' = <<>>
  BY <1>2, PieceFacts, PieceFactsNext DEF Pieces
<1>6. Running'
  BY <1>2, <1>4 DEF Running, BranchesAlways
<1>7. CpuInv'
  BY <1>2, <1>3, <1>4, <1>6, InvAfter DEF CpuInv, CpuTypeOK
<1> QED BY <1>2, <1>4, <1>5, <1>7, Unseen DEF Simulates

\* A byte moved is a byte copied, and the depacker writes only its own.
LEMMA ByteMoves ==
  ASSUME Accepted, Started, Started', CpuInv, UNCHANGED lvars, NEW t \in Table,
         takenBar[t] < Len(data[t]), Len(outBar) < real_program_len,
         ReadAndOutput(PointerOffset[t])
  PROVE  /\ U!CopyByte(t) /\ OwnWrites
         /\ A' = data[t][takenBar[t] + 1] /\ A' \in Byte /\ A' \in 0 .. CODE
         /\ mem' \in [Addr -> 0 .. CODE] /\ Y' \in Byte /\ Z' \in BOOLEAN
         /\ TablesInMemory' /\ mem'[smc_hi'] \in Byte
         /\ \A n \in 0 .. 11 : mem'[ZP_TEMP' + n] \in Byte
         /\ Z' => Len(outBar') = real_program_len /\ program_end = ADDR_LIMIT
<1>1. ZP_TEMP' = ZP_TEMP /\ smc_hi' = smc_hi
  BY MainStays
<1>2. /\ Y' \in Byte /\ Z' \in BOOLEAN /\ TablesInMemory' /\ mem'[smc_hi] \in Byte
      /\ \A n \in 0 .. 11 : mem'[ZP_TEMP + n] \in Byte
      /\ \A a \in Addr : mem'[a] # mem[a] => a \in Writable
  BY StateAfter
<1>3. takenBar' = [takenBar EXCEPT ![t] = @ + 1]
  BY TakenAfter
<1>4. /\ outBar' = Append(outBar, data[t][takenBar[t] + 1])
      /\ Z' => Len(outBar') = real_program_len /\ program_end = ADDR_LIMIT
  BY OutAfter
<1>5. /\ mem' \in [Addr -> 0 .. CODE]
      /\ A' = data[t][takenBar[t] + 1] /\ A' \in Byte
  BY MemoryAfter
<1>6. U!CopyByte(t)
  BY <1>3, <1>4, Unseen DEF U!CopyByte
<1> QED BY <1>1, <1>2, <1>4, <1>5, <1>6, ByteFacts DEF OwnWrites

\* A byte of an argument: what the depacker does behind it is in args.
LEMMA ArgumentMoves ==
  ASSUME Accepted, Started, Started', CpuInv, U!IInv, UNCHANGED lvars,
         NEW t \in Table, runBar = "copy", argsBar # <<>>, Head(argsBar) = t,
         argsBar' = Tail(argsBar), runBar' = IF argsBar' = <<>> THEN "loop" ELSE "copy",
         ReadAndOutput(PointerOffset[t])
  PROVE  /\ Simulates /\ OwnWrites /\ A' \in 0 .. CODE
         /\ mem' \in [Addr -> 0 .. CODE] /\ Y' \in Byte /\ Z' \in BOOLEAN
         /\ TablesInMemory' /\ mem'[smc_hi'] \in Byte
         /\ \A n \in 0 .. 11 : mem'[ZP_TEMP' + n] \in Byte
         /\ Z' => Len(outBar') = real_program_len /\ program_end = ADDR_LIMIT
<1>1. takenBar[t] < Len(data[t]) /\ Len(outBar) < real_program_len
  BY RetracedFacts
<1>2. /\ U!CopyByte(t) /\ OwnWrites
      /\ A' \in 0 .. CODE
      /\ mem' \in [Addr -> 0 .. CODE] /\ Y' \in Byte /\ Z' \in BOOLEAN
      /\ TablesInMemory' /\ mem'[smc_hi'] \in Byte
      /\ \A n \in 0 .. 11 : mem'[ZP_TEMP' + n] \in Byte
      /\ Z' => Len(outBar') = real_program_len /\ program_end = ADDR_LIMIT
  BY <1>1, ByteMoves
<1>3. U!CopyArgument
  BY <1>2 DEF U!CopyArgument
<1> QED BY <1>2, <1>3 DEF Simulates, U!NextRun

\* As long as an instruction is to come, there is room for it.
Room == runBar = "loop" /\ eof_marker # PAGE => Len(outBar) < real_program_len

\* The invariant of U says so.
LEMMA RoomLeft == U!IInv => Room
  BY RetracedFacts DEF Room

\* And so there is behind a step.
LEMMA RoomLeftNext == U!IInv' => Room'
  BY RoomLeft, PTL

\* The low byte of an absolute address.
LEMMA OutputLoSimulates ==
  ASSUME Accepted, CpuInv, U!IInv, OutputLo
  PROVE  Simulates /\ CpuInv' /\ OwnWrites
<1>1. /\ UNCHANGED lvars /\ pc = "output_lo" /\ pc' = "read_and_output"
      /\ ReadAndOutput(X) /\ X' = X + 2 /\ ret' = ret
  BY DEF OutputLo
<1>2. Started /\ Started'
  BY <1>1 DEF Started
<1>3. X = 0 /\ ret = "bne"
  BY <1>1, <1>2 DEF CpuInv, Running, PointerOffset
<1>4. /\ PointerOffset["l"] = 0 /\ PointerOffset["h"] = 2
      /\ "l" \in Table /\ "h" \in Table \ {"o", "l"}
  BY DEF PointerOffset, Table
<1>5. runBar = "copy" /\ argsBar = <<"l", "h">>
  BY <1>1, PieceFacts DEF Pieces
<1>6. runBar' = "copy" /\ argsBar' = <<"h">>
  BY <1>1, <1>3, <1>4, PieceFactsNext DEF Pieces
<1>7. /\ argsBar # <<>> /\ Head(argsBar) = "l" /\ argsBar' = Tail(argsBar)
      /\ runBar' = IF argsBar' = <<>> THEN "loop" ELSE "copy"
  BY <1>5, <1>6
<1>8. /\ Simulates /\ OwnWrites /\ A' \in 0 .. CODE
      /\ mem' \in [Addr -> 0 .. CODE] /\ Y' \in Byte /\ Z' \in BOOLEAN
      /\ TablesInMemory' /\ mem'[smc_hi'] \in Byte
      /\ \A n \in 0 .. 11 : mem'[ZP_TEMP' + n] \in Byte
  BY <1>1, <1>2, <1>3, <1>4, <1>5, <1>7, ArgumentMoves
<1>9. Running'
  BY <1>1, <1>3, <1>4, <1>8 DEF Running, BranchesAlways
<1>10. CpuInv'
  <2>1. X' \in Byte
    BY <1>1, <1>3, LimitFacts DEF Byte
  <2> QED BY <1>1, <1>2, <1>3, <1>8, <1>9, <2>1, InvAfter
<1> QED BY <1>8, <1>10

\* The last byte of an argument.  The branch behind it is taken: it would not
\* be if the store had come to the end of the memory, but then it has come to
\* the end of the program and there is no next instruction.
LEMMA OutputArgumentSimulates ==
  ASSUME Accepted, CpuInv, U!IInv, OutputArgument
  PROVE  Simulates /\ CpuInv' /\ OwnWrites
<1>1. /\ UNCHANGED lvars /\ pc = "read_and_output" /\ pc' = ret
      /\ ReadAndOutput(X) /\ X' = X /\ ret' = ret
  BY DEF OutputArgument
<1>2. Started
  BY <1>1 DEF Started
<1>3. PICK t \in Table \ {"o", "l"} : X = PointerOffset[t]
  BY <1>1, <1>2 DEF CpuInv, Running
<1>4. ret = "bne" /\ pc' = "bne"
  BY <1>1, <1>2 DEF CpuInv, Running
<1>5. Started'
  BY <1>4 DEF Started
<1>6. runBar = "copy" /\ argsBar = <<t>>
  BY <1>1, <1>3, PieceFacts DEF Pieces
<1>7. runBar' = "loop" /\ argsBar' = <<>>
  BY <1>4, PieceFactsNext DEF Pieces
<1>8. /\ argsBar # <<>> /\ Head(argsBar) = t /\ argsBar' = Tail(argsBar)
      /\ runBar' = IF argsBar' = <<>> THEN "loop" ELSE "copy"
  BY <1>6, <1>7
<1>9. /\ Simulates /\ OwnWrites /\ A' \in 0 .. CODE
      /\ mem' \in [Addr -> 0 .. CODE] /\ Y' \in Byte /\ Z' \in BOOLEAN
      /\ TablesInMemory' /\ mem'[smc_hi'] \in Byte
      /\ \A n \in 0 .. 11 : mem'[ZP_TEMP' + n] \in Byte
      /\ Z' => Len(outBar') = real_program_len /\ program_end = ADDR_LIMIT
  BY <1>1, <1>2, <1>3, <1>5, <1>6, <1>8, ArgumentMoves
<1>10. ~Z'
  <2> SUFFICES ASSUME Z' PROVE FALSE
    OBVIOUS
  <2>1. U!IInv'
    BY <1>9, SimulatesKeeps
  <2>2. eof_marker' # PAGE => Len(outBar') < real_program_len'
    BY <1>7, <2>1, RoomLeftNext DEF Room
  <2>3. real_program_len' = real_program_len /\ eof_marker' = eof_marker
    BY <1>1, MainStays
  <2>4. Len(outBar') = real_program_len /\ program_end = ADDR_LIMIT
    BY <1>9
  <2>5. real_program_len \in Nat /\ program_end \in Nat /\ ADDR_LIMIT \in Nat
    BY PlaceFacts, LimitFacts
  <2> QED BY <2>2, <2>3, <2>4, <2>5, PlaceFacts
<1>11. Running'
  BY <1>1, <1>4, <1>9, <1>10 DEF Running, BranchesAlways
<1>12. CpuInv'
  <2>1. X' \in Byte
    BY <1>1 DEF CpuInv, CpuTypeOK
  <2> QED BY <1>1, <1>2, <1>4, <1>9, <1>11, <2>1, InvAfter
<1> QED BY <1>9, <1>12

\* The opcode: the end marker, or one whose mode is in the argument table.
LEMMA OutputOpcodeSimulates ==
  ASSUME Accepted, CpuInv, U!IInv, OutputOpcode
  PROVE  Simulates /\ CpuInv' /\ OwnWrites
<1>1. /\ UNCHANGED lvars /\ pc = "mainloop" /\ pc' = "tax" /\ ~AtProgramEnd
      /\ ReadAndOutput(10) /\ X' = 10 /\ ret' = ret
  BY DEF OutputOpcode
<1>2. Started /\ Started'
  BY <1>1 DEF Started
<1>3. PointerOffset["o"] = 10 /\ "o" \in Table
  BY DEF PointerOffset, Table
<1>4. runBar = "loop" /\ argsBar = <<>>
  BY <1>1, PieceFacts DEF Pieces
<1>5. ~U!AtEnd
  BY <1>1, <1>2, <1>4, ProgramEnd
<1>6. PICK n \in Nat : n = takenBar["o"] /\ n < Len(data["o"])
  BY <1>3, <1>4, <1>5, RetracedFacts
<1>7. Len(outBar) < real_program_len
  <2>1. PICK len \in Nat : len = Len(outBar)
    BY <1>2, NextStore
  <2>2. /\ real_program_len \in Nat /\ len <= real_program_len
        /\ eof_marker # PAGE => len < real_program_len
    BY <1>4, <2>1, RetracedFacts
  <2>3. eof_marker = PAGE => len # real_program_len
    BY <1>5, <2>1, Same
  <2> QED BY <2>1, <2>2, <2>3
<1>8. /\ U!CopyByte("o") /\ OwnWrites
      /\ A' = data["o"][n + 1] /\ A' \in Byte /\ A' \in 0 .. CODE
      /\ mem' \in [Addr -> 0 .. CODE] /\ Y' \in Byte /\ Z' \in BOOLEAN
      /\ TablesInMemory' /\ mem'[smc_hi'] \in Byte
      /\ \A x \in 0 .. 11 : mem'[ZP_TEMP' + x] \in Byte
  BY <1>1, <1>2, <1>3, <1>6, <1>7, ByteMoves
<1>9. U!NextOpcode = A'
  BY <1>6, <1>8 DEF U!NextOpcode
<1>10. /\ eof_marker' = eof_marker /\ argtable_start' = argtable_start
       /\ count_argtable' = count_argtable
  BY <1>1, MainStays
<1>11. A' # eof_marker => InArgtable(A')
  <2>1. data["o"] \in Seq(Byte)
    BY <1>3 DEF Accepted, MainInv, RouteInv, LayInv, SplitterOK
  <2>2. PICK y \in 1 .. Len(data["o"]) : y = n + 1
    BY <1>6, <2>1
  <2>3. main_pc = "tables"
    BY <1>4, RetracedFacts
  <2> QED BY <1>8, <2>2, <2>3, RetracedFacts
<1>12. Simulates
  <2>1. CASE A' = eof_marker
    <3>1. runBar' = "done" /\ argsBar' = <<>>
      BY <1>1, <1>10, <2>1, PieceFactsNext DEF Pieces
    <3>2. U!TakeEofMarker
      BY <1>4, <1>5, <1>8, <1>9, <2>1, <3>1 DEF U!TakeEofMarker
    <3> QED BY <3>2 DEF Simulates, U!NextRun
  <2>2. CASE A' # eof_marker
    <3>1. /\ argsBar' = ArgTables(mem'[ADDR_TABLE_ARGTABLE' + A'])
          /\ runBar' = IF argsBar' = <<>> THEN "loop" ELSE "copy"
      BY <1>1, <1>10, <2>2, PieceFactsNext DEF Pieces
    <3>2. mem'[ADDR_TABLE_ARGTABLE' + A'] = data_argtable[A']
      BY <1>1, <1>8, <1>11, <2>2, ModeFoundNext
    <3>3. argsBar' = U!ArgTables(U!data_argtable[U!NextOpcode])
      BY <1>9, <3>1, <3>2, Same
    <3>4. U!TakeInstruction
      BY <1>4, <1>5, <1>8, <1>9, <2>2, <3>1, <3>3 DEF U!TakeInstruction
    <3> QED BY <3>4 DEF Simulates, U!NextRun
  <2> QED BY <2>1, <2>2
<1>13. Running'
  BY <1>1, <1>8, <1>10, <1>11 DEF Running, BranchesAlways, InArgtable
<1>14. CpuInv'
  <2>1. X' \in Byte
    BY <1>1, LimitFacts DEF Byte
  <2>2. ret' \in {"bne", "done"}
    BY <1>1 DEF CpuInv, CpuTypeOK
  <2> QED BY <1>1, <1>2, <1>8, <1>13, <2>1, <2>2, InvAfter
<1> QED BY <1>8, <1>12, <1>14

-----------------------------------------------------------------------------
(***************************************************************************)
(* The theorems.                                                           *)
(***************************************************************************)

\* Every step of the depacker.
LEMMA CpuSimulates ==
  ASSUME MainInv, Intended, CpuInv, U!IInv, NextCpu
  PROVE  Simulates /\ CpuInv' /\ OwnWrites
<1>1. Accepted
  BY DEF Accepted, CpuInv, NextCpu, Call, CopyPointer, ReturnAtProgramEnd, OutputOpcode,
     TestOpcode, LookupMode, OutputLo, OutputArgument, Branch
<1>2. CASE CopyPointer
  BY <1>1, <1>2, CopyPointerSimulates, StartSimulates
<1> QED BY <1>1, <1>2, CallSimulates, ReturnSimulates, OutputOpcodeSimulates,
        TestSimulates, LookupSimulates, OutputLoSimulates, OutputArgumentSimulates,
        BranchSimulates DEF NextCpu

\* The inductive invariant.  A program the depacker is not meant for is kept
\* from it by Intended, which a step of the depacker does not change.
DepackerInv ==
  /\ MainInv
  /\ lay_pc # "accepted" => pc = "off"
  /\ Intended => CpuInv /\ U!IInv

\* At the start nothing is taken or written.
LEMMA SameUInit == DepackerInit => U!Init
<1> SUFFICES ASSUME DepackerInit PROVE U!Init
  OBVIOUS
<1>1. runBar = "idle" /\ argsBar = <<>> /\ outBar = <<>> /\ takenBar = [t \in Table |-> 0]
  BY BarsIdle DEF DepackerInit, InitCpu, Started
<1>2. U!InitRun
  BY <1>1, Same DEF U!InitRun
<1>3. U!InitMain
  BY Same DEF DepackerInit, InitMain, U!InitMain
<1> QED BY <1>2, <1>3 DEF U!Init

\* At the start the invariant holds.
LEMMA DepackerInitHolds == DepackerInit => DepackerInv
<1> SUFFICES ASSUME DepackerInit PROVE DepackerInv
  OBVIOUS
<1>1. MainInv
  BY MainInit DEF DepackerInit, LayoutInit
<1>2. CpuInv
  <2>1. LayoutTypeOK
    BY <1>1 DEF MainInv, RouteInv, LayInv
  <2>2. 0 \in Byte /\ 0 \in 0 .. CODE
    BY LimitFacts DEF Byte, CODE
  <2> QED BY <2>1, <2>2 DEF DepackerInit, InitCpu, CpuInv, CpuTypeOK, Started
<1>3. U!IInv
  BY SameUInit, Same, U!InitHolds, PageAssumption, ModeAssumption, SizeAssumption,
     FileAssumption
<1> QED BY <1>1, <1>2, <1>3 DEF DepackerInv, DepackerInit, InitCpu

\* The steps of Splitter are those U knows.
LEMMA SameMain == NextMain => U!NextMain
<1>1. /\ U!Opcode = Opcode /\ U!OpcodeMode = OpcodeMode /\ U!Byte = Byte /\ U!Table = Table
      /\ U!MODEimpl = MODEimpl /\ U!MODEjam = MODEjam /\ U!MODEabs = MODEabs
      /\ U!MODEimm = MODEimm /\ U!MODErel = MODErel /\ U!MODEzp = MODEzp
      /\ U!fileVars = fileVars /\ U!loadVars = loadVars /\ U!splitVars = splitVars
      /\ U!tableVars = tableVars
  BY Same DEF U!Opcode, U!OpcodeMode, Opcode, OpcodeMode, U!MODEimpl, MODEimpl, U!MODEjam,
     MODEjam, U!MODEabs, MODEabs, U!MODEimm, MODEimm, U!MODErel, MODErel, U!MODEzp, MODEzp,
     U!fileVars, fileVars, U!loadVars, loadVars, U!splitVars, splitVars, U!tableVars, tableVars
<1>2. /\ UNCHANGED fileVars <=> UNCHANGED U!fileVars
      /\ UNCHANGED loadVars <=> UNCHANGED U!loadVars
      /\ UNCHANGED splitVars <=> UNCHANGED U!splitVars
      /\ UNCHANGED tableVars <=> UNCHANGED U!tableVars
  BY DEF U!fileVars, fileVars, U!loadVars, loadVars, U!splitVars, splitVars, U!tableVars,
     tableVars
<1>3. TakeOpcode <=> U!TakeOpcode
  BY <1>1, <1>2 DEF TakeOpcode, U!TakeOpcode
<1>4. MarkStart <=> U!MarkStart
  BY <1>1 DEF MarkStart, U!MarkStart
<1>5. ReadProgram => U!ReadProgram
  BY <1>2 DEF ReadProgram, U!ReadProgram, BufferByte, U!BufferByte
<1>6. SplitNone => U!SplitNone
  BY <1>1, <1>3, <1>4 DEF SplitNone, U!SplitNone
<1>7. ASSUME NEW t, NEW m PROVE SplitOne(t, m) => U!SplitOne(t, m)
  BY <1>1, <1>3, <1>4 DEF SplitOne, U!SplitOne
<1>8. SplitAbs => U!SplitAbs
  BY <1>1, <1>3, <1>4 DEF SplitAbs, U!SplitAbs
<1>9. PlaceEofMarker => U!PlaceEofMarker
  BY <1>1, <1>2 DEF PlaceEofMarker, U!PlaceEofMarker, FirstUnused, U!FirstUnused
<1>10. TrimArgtable => U!TrimArgtable
  BY <1>2 DEF TrimArgtable, U!TrimArgtable
<1>11. TrimRunsWild => U!TrimRunsWild
  BY <1>2 DEF TrimRunsWild, U!TrimRunsWild
<1>12. ReadFails => U!ReadFails
  BY <1>2 DEF ReadFails, U!ReadFails
<1> QED BY <1>1, <1>5, <1>6, <1>7, <1>8, <1>9, <1>10, <1>11, <1>12 DEF NextMain, U!NextMain

\* While main runs the depacker waits.
LEMMA MainWaits ==
  ASSUME NextLayout
  PROVE  /\ lay_pc # "accepted"
         /\ NextMain \/ UNCHANGED mainVars
  BY DEF NextLayout, CheckOptions, Pack, Reject, BeginLayout, PlaceTable, PlaceSeparator,
     SkipEntry, Compile, OpenOutputs, WriteTable, SwitchFile, OutputFails, CheckSpaces,
     AtEntry, AtLoopEnd, NextEntry

\* A step of main keeps the invariant, and the depacker it waits for.
LEMMA DepackerMainHolds ==
  ASSUME DepackerInv, NextLayout, UNCHANGED cpuVars
  PROVE  /\ DepackerInv' /\ U!IInv'
         /\ (U!NextMain \/ UNCHANGED U!mainVars) /\ UNCHANGED U!runVars
<1>1. /\ lay_pc # "accepted"
      /\ NextMain \/ UNCHANGED mainVars
  BY MainWaits
<1>2. /\ MainInv /\ pc = "off" /\ CpuInv /\ U!IInv
  BY <1>1 DEF DepackerInv, Intended, EveryTablePlaced
<1>3. /\ pc' = "off" /\ A' = A /\ X' = X /\ Y' = Y /\ Z' = Z /\ ret' = ret
  BY <1>2 DEF cpuVars
<1>4. MainInv'
  BY <1>2, MainInvHolds
<1>5. CpuInv'
  <2>1. LayoutTypeOK'
    BY <1>4 DEF MainInv, RouteInv, LayInv
  <2> QED BY <1>2, <1>3, <2>1 DEF CpuInv, CpuTypeOK, Started
<1>6. UNCHANGED U!runVars
  <2>1. runBar = "idle" /\ argsBar = <<>> /\ outBar = <<>> /\ takenBar = [t \in Table |-> 0]
    BY <1>2, BarsIdle DEF Started
  <2>2. /\ runBar' = "idle" /\ argsBar' = <<>> /\ outBar' = <<>>
        /\ takenBar' = [t \in Table |-> 0]
    BY <1>3 DEF Started, runBar, argsBar, outBar, takenBar
  <2> QED BY <2>1, <2>2 DEF U!runVars
<1>7. U!NextMain \/ UNCHANGED U!mainVars
  <2>1. UNCHANGED mainVars => UNCHANGED U!mainVars
    BY DEF U!mainVars, mainVars, U!fileVars, fileVars, U!loadVars, loadVars,
       U!splitVars, splitVars, U!tableVars, tableVars
  <2> QED BY <1>1, <2>1, SameMain
<1>8. U!IInv'
  <2>1. CASE U!NextMain
    BY <1>2, <1>6, <2>1, Same, U!MainHolds, PageAssumption, ModeAssumption,
       SizeAssumption, FileAssumption
  <2>2. CASE UNCHANGED U!mainVars
    <3>1. UNCHANGED U!uvars
      BY <1>6, <2>2 DEF U!uvars
    <3> QED BY <1>2, <3>1, Same, U!StutterHolds, PageAssumption, ModeAssumption,
            SizeAssumption, FileAssumption
  <2> QED BY <1>7, <2>1, <2>2
<1> QED BY <1>3, <1>4, <1>5, <1>6, <1>7, <1>8 DEF DepackerInv

\* What is intended is decided when main has ended.
LEMMA IntendedStays ==
  ASSUME UNCHANGED lvars
  PROVE  Intended' <=> Intended
<1>1. options' = options
  BY DEF lvars, layVars
<1>2. Placed' = Placed
  BY <1>1 DEF Placed
<1> QED BY <1>2, MainStays DEF Intended, EveryTablePlaced

\* A step of the depacker keeps the invariant.
LEMMA DepackerCpuHolds ==
  ASSUME DepackerInv, NextCpu
  PROVE  DepackerInv' /\ (Intended => Simulates /\ OwnWrites)
<1>1. UNCHANGED lvars
  BY CpuLeavesMain
<1>2. MainInv'
  BY <1>1, MainInvKept DEF DepackerInv
<1>3. lay_pc' = "accepted"
  <2>1. lay_pc = "accepted"
    BY DEF DepackerInv, NextCpu, Call, CopyPointer, ReturnAtProgramEnd, OutputOpcode,
       TestOpcode, LookupMode, OutputLo, OutputArgument, Branch
  <2> QED BY <1>1, <2>1, MainStays
<1>4. ASSUME Intended PROVE Simulates /\ CpuInv' /\ OwnWrites /\ U!IInv'
  <2>1. MainInv /\ CpuInv /\ U!IInv
    BY <1>4 DEF DepackerInv
  <2>2. Simulates /\ CpuInv' /\ OwnWrites
    BY <1>4, <2>1, CpuSimulates
  <2> QED BY <2>1, <2>2, SimulatesKeeps
<1> QED BY <1>1, <1>2, <1>3, <1>4, IntendedStays DEF DepackerInv

\* And so does a step that changes nothing.
LEMMA DepackerStutters ==
  ASSUME DepackerInv, UNCHANGED dvars
  PROVE  DepackerInv' /\ UNCHANGED U!uvars
<1>1. /\ UNCHANGED lvars
      /\ pc' = pc /\ mem' = mem /\ A' = A /\ X' = X /\ Y' = Y /\ Z' = Z /\ ret' = ret
  BY DEF dvars, cpuVars
<1>2. MainInv'
  BY <1>1, MainInvKept DEF DepackerInv
<1>3. /\ ZP_TEMP' = ZP_TEMP /\ table_at' = table_at /\ smc_hi' = smc_hi
      /\ program_addr' = program_addr /\ eof_marker' = eof_marker
      /\ ADDR_TABLE_ARGTABLE' = ADDR_TABLE_ARGTABLE
      /\ table_of_tables' = table_of_tables /\ lay_pc' = lay_pc
      /\ argtable_start' = argtable_start /\ count_argtable' = count_argtable
  BY <1>1, MainStays
<1>4. Started' <=> Started
  BY <1>1 DEF Started
<1>5. takenBar' = takenBar /\ outBar' = outBar
  BY <1>1, <1>3, <1>4 DEF takenBar, outBar
<1>6. argsBar' = argsBar
  BY <1>1, <1>3 DEF argsBar
<1>7. runBar' = runBar
  BY <1>1, <1>3, <1>4, <1>6 DEF runBar
<1>8. UNCHANGED U!uvars
  BY <1>1, <1>5, <1>6, <1>7, Unseen
<1>9. ASSUME Intended, U!IInv PROVE U!IInv'
  BY <1>8, <1>9, Same, U!StutterHolds, PageAssumption, ModeAssumption, SizeAssumption,
     FileAssumption
<1>10. ASSUME CpuInv PROVE CpuInv'
  <2>1. LayoutTypeOK'
    BY <1>2 DEF MainInv, RouteInv, LayInv
  <2>2. CpuTypeOK'
    BY <1>1, <1>10, <2>1 DEF CpuInv, CpuTypeOK
  <2>3. TablesInMemory => TablesInMemory'
    BY <1>1, <1>3, MainStays DEF TablesInMemory
  <2>4. Copying => Copying'
    BY <1>1, <1>3, MainStays DEF Copying, HighByte
  <2>5. Running => Running'
    BY <1>1, <1>3 DEF Running, BranchesAlways, InArgtable
  <2> QED BY <1>1, <1>3, <1>4, <1>10, <2>2, <2>3, <2>4, <2>5 DEF CpuInv
<1> QED BY <1>1, <1>2, <1>3, <1>8, <1>9, <1>10, IntendedStays DEF DepackerInv

\* The invariant holds in every reachable state.
THEOREM DepackerInvariance == DepackerSpec => []DepackerInv
<1>1. DepackerInv /\ [DepackerNext \/ (AllDone /\ UNCHANGED dvars)]_dvars => DepackerInv'
  <2> SUFFICES ASSUME DepackerInv, [DepackerNext \/ (AllDone /\ UNCHANGED dvars)]_dvars
               PROVE  DepackerInv'
    OBVIOUS
  <2>1. CASE NextLayout /\ UNCHANGED cpuVars
    BY <2>1, DepackerMainHolds
  <2>2. CASE NextCpu
    BY <2>2, DepackerCpuHolds
  <2>3. CASE UNCHANGED dvars
    BY <2>3, DepackerStutters
  <2> QED BY <2>1, <2>2, <2>3 DEF DepackerNext
<1> QED BY <1>1, DepackerInitHolds, PTL DEF DepackerSpec

\* The registers hold bytes, and the memory those of the files, of the tables
\* and of the depacker.
THEOREM CpuTypeCorrect == DepackerSpec => [](Intended => CpuTypeOK)
<1>1. DepackerInv => (Intended => CpuTypeOK)
  BY DEF DepackerInv, CpuInv
<1> QED BY <1>1, DepackerInvariance, PTL

\* When the depacker returns, the program is in memory.
THEOREM UnpackedCorrect == DepackerSpec => [](Intended => Unpacked)
<1>1. DepackerInv => (Intended => Unpacked)
  <2> SUFFICES ASSUME DepackerInv, Intended, pc = "done", NEW n \in 1 .. Len(body)
               PROVE  mem[program_addr + n - 1] = body[n]
    BY DEF Unpacked
  <2>1. MainInv /\ CpuInv /\ U!IInv
    BY DEF DepackerInv
  <2>2. Accepted /\ Started
    BY <2>1 DEF Accepted, CpuInv, Started
  <2>3. runBar = "done"
    BY PieceFacts DEF Pieces
  <2>4. body \in Seq(Byte)
    BY <2>1 DEF MainInv, RouteInv, LayInv, SplitterOK
  <2>5. /\ Len(outBar) = real_program_len /\ Len(body) <= Len(outBar)
        /\ \A x \in 1 .. Len(outBar) : x <= Len(body) => outBar[x] = body[x]
    BY <2>1, <2>3, RetracedFacts
  <2>6. PICK l \in Nat, a \in Nat, m \in Nat, b \in Nat :
          /\ l = Len(outBar) /\ l = real_program_len /\ a = program_addr
          /\ a + l <= ADDR_LIMIT /\ 2 * PAGE <= a
          /\ m = n /\ b = Len(body) /\ 1 <= m /\ m <= b /\ b <= l
    <3>1. PICK b \in Nat, m \in Nat : b = Len(body) /\ m = n /\ 1 <= m /\ m <= b
      BY <2>4
    <3>2. PICK a \in Nat, l \in Nat :
            /\ a = program_addr /\ l = real_program_len
            /\ a + l <= ADDR_LIMIT /\ 2 * PAGE <= a
      BY <2>2, PlaceFacts
    <3> QED BY <2>5, <3>1, <3>2
  <2>7. m \in 1 .. l
    BY <2>6
  <2>8. outBar[m] = body[m]
    BY <2>5, <2>6, <2>7
  <2>9. outBar[m] = mem[(a + m - 1) % ADDR_LIMIT]
    <3>1. outBar = [x \in 1 .. l |-> mem[(program_addr + x - 1) % ADDR_LIMIT]]
      BY <2>1, <2>2, <2>6, NextStore
    <3> QED BY <2>6, <2>7, <3>1
  <2>10. (a + m - 1) % ADDR_LIMIT = a + m - 1
    <3>1. PICK y \in Nat : y = a + m - 1 /\ y < ADDR_LIMIT
      BY <2>6, LimitFacts
    <3> QED BY <3>1, WithinLimit
  <2> QED BY <2>6, <2>8, <2>9, <2>10
<1> QED BY <1>1, DepackerInvariance, PTL

\* The branch of depacker.asm that "branches always" does so.
THEOREM BranchCorrect == DepackerSpec => [](Intended => BranchesAlways)
<1>1. DepackerInv => (Intended => BranchesAlways)
  BY DEF DepackerInv, CpuInv, Running, Started, BranchesAlways
<1> QED BY <1>1, DepackerInvariance, PTL

\* The depacker writes only to its pointers, to the place of the program and
\* to the byte of its own code it increments.
THEOREM WritesCorrect == DepackerSpec /\ []Intended => WritesOnlyItsOwn
<1>1. ASSUME DepackerInv, Intended, [DepackerNext \/ (AllDone /\ UNCHANGED dvars)]_dvars
      PROVE  [pc # "off" => \A a \in Addr : mem'[a] # mem[a] => a \in Writable]_dvars
  <2>1. CASE NextLayout /\ UNCHANGED cpuVars
    BY <2>1 DEF cpuVars
  <2>2. CASE NextCpu
    BY <1>1, <2>2, DepackerCpuHolds DEF OwnWrites
  <2>3. CASE UNCHANGED dvars
    BY <2>3
  <2> QED BY <1>1, <2>1, <2>2, <2>3 DEF DepackerNext
<1> QED BY <1>1, DepackerInvariance, PTL DEF DepackerSpec, WritesOnlyItsOwn

\* The module the refinement names and the one with the proofs say the same.
LEMMA SameInit == DepackerInit => Tables!Init
<1> SUFFICES ASSUME DepackerInit PROVE Tables!Init
  OBVIOUS
<1>1. runBar = "idle" /\ argsBar = <<>> /\ outBar = <<>> /\ takenBar = [t \in Table |-> 0]
  BY BarsIdle DEF DepackerInit, InitCpu, Started
<1>2. Tables!Byte = Byte /\ Tables!Table = Table
  BY DEF Tables!Byte, Byte, Tables!Table, Table
<1>3. Tables!InitRun
  BY <1>1, <1>2 DEF Tables!InitRun
<1>4. Tables!InitMain
  BY <1>2 DEF DepackerInit, InitMain, Tables!InitMain
<1> QED BY <1>3, <1>4 DEF Tables!Init

\* Each step of the depacker.
LEMMA SameRun == U!NextRun => Tables!NextRun
  BY DEF U!NextRun, Tables!NextRun, U!Start, Tables!Start, U!ReturnAtEnd,
     Tables!ReturnAtEnd, U!TakeEofMarker, Tables!TakeEofMarker, U!TakeInstruction,
     Tables!TakeInstruction, U!CopyArgument, Tables!CopyArgument, U!CopyByte,
     Tables!CopyByte, U!NextOpcode, Tables!NextOpcode, U!AtEnd, Tables!AtEnd,
     U!ArgTables, Tables!ArgTables, U!data_argtable, Tables!data_argtable,
     U!real_program_len, Tables!real_program_len, U!Byte, Tables!Byte, U!MODEabs,
     Tables!MODEabs, U!MODEimm, Tables!MODEimm, U!MODErel, Tables!MODErel,
     U!MODEzp, Tables!MODEzp, U!mainVars, Tables!mainVars, U!fileVars,
     Tables!fileVars, U!loadVars, Tables!loadVars, U!splitVars, Tables!splitVars,
     U!tableVars, Tables!tableVars

\* And each step of main.
LEMMA TablesMain == NextMain => Tables!NextMain
  BY DEF NextMain, Tables!NextMain, ReadProgram, Tables!ReadProgram, ReadFails,
     Tables!ReadFails, SplitNone,
     Tables!SplitNone, SplitOne, Tables!SplitOne, SplitAbs, Tables!SplitAbs,
     PlaceEofMarker, Tables!PlaceEofMarker, TrimArgtable, Tables!TrimArgtable,
     TrimRunsWild, Tables!TrimRunsWild, TakeOpcode, Tables!TakeOpcode, MarkStart,
     Tables!MarkStart, BufferByte, Tables!BufferByte, FirstUnused,
     Tables!FirstUnused, Opcode, Tables!Opcode, OpcodeMode, Tables!OpcodeMode,
     Byte, Tables!Byte, Table, Tables!Table, Mode, Tables!Mode, MODEabs,
     Tables!MODEabs, MODEimm, Tables!MODEimm, MODErel, Tables!MODErel, MODEzp,
     Tables!MODEzp, MODEimpl, Tables!MODEimpl, MODEjam, Tables!MODEjam, fileVars,
     Tables!fileVars, loadVars, Tables!loadVars, splitVars, Tables!splitVars,
     tableVars, Tables!tableVars

\* The depacker in memory implements the one that sees only the tables: every
\* step of it is one of that one or one that changes nothing there.
THEOREM DepackerRefines == DepackerSpec /\ []Intended => ImplementsUnsplitter
<1>1. ASSUME DepackerInv, Intended, [DepackerNext \/ (AllDone /\ UNCHANGED dvars)]_dvars
      PROVE  [Tables!Next]_Tables!uvars
  <2>1. /\ UNCHANGED U!uvars => UNCHANGED Tables!uvars
        /\ UNCHANGED U!runVars <=> UNCHANGED Tables!runVars
        /\ UNCHANGED U!mainVars <=> UNCHANGED Tables!mainVars
    BY DEF U!uvars, Tables!uvars, U!runVars, Tables!runVars, U!mainVars, Tables!mainVars,
       U!fileVars, Tables!fileVars, U!loadVars, Tables!loadVars, U!splitVars,
       Tables!splitVars, U!tableVars, Tables!tableVars
  <2>2. CASE NextLayout /\ UNCHANGED cpuVars
    <3>1. /\ NextMain \/ UNCHANGED mainVars
          /\ UNCHANGED U!runVars
      BY <1>1, <2>2, MainWaits, DepackerMainHolds
    <3>2. CASE NextMain
      BY <2>1, <3>1, <3>2, TablesMain DEF Tables!Next
    <3>3. CASE UNCHANGED mainVars
      <4>1. UNCHANGED Tables!mainVars
        BY <3>3 DEF mainVars, Tables!mainVars, fileVars, Tables!fileVars, loadVars,
           Tables!loadVars, splitVars, Tables!splitVars, tableVars, Tables!tableVars
      <4> QED BY <2>1, <3>1, <4>1 DEF Tables!uvars
    <3> QED BY <3>1, <3>2, <3>3
  <2>3. CASE NextCpu
    <3>1. U!NextRun \/ UNCHANGED U!uvars
      BY <1>1, <2>3, DepackerCpuHolds DEF Simulates
    <3> QED BY <2>1, <3>1, SameRun DEF Tables!Next
  <2>4. CASE UNCHANGED dvars
    BY <1>1, <2>1, <2>4, DepackerStutters
  <2> QED BY <1>1, <2>2, <2>3, <2>4 DEF DepackerNext
<1> QED BY <1>1, SameInit, DepackerInvariance, PTL DEF DepackerSpec, ImplementsUnsplitter,
        Tables!Spec

\* The promise of the tool is kept in the memory of the 6502: the program
\* appears byte by byte, complete and in order, and the depacker returns with
\* at most three bytes trashed behind it.
THEOREM DepackerExtracts == DepackerSpec /\ []Intended => U!Extracts
<1>1. /\ DepackerInit => U!Init
      /\ DepackerInv /\ Intended /\ [DepackerNext \/ (AllDone /\ UNCHANGED dvars)]_dvars
           => [U!Next]_U!uvars
  <2>1. ASSUME DepackerInit PROVE U!Init
    BY <2>1, SameUInit
  <2>2. ASSUME DepackerInv, Intended, [DepackerNext \/ (AllDone /\ UNCHANGED dvars)]_dvars
        PROVE  [U!Next]_U!uvars
    <3>1. CASE NextLayout /\ UNCHANGED cpuVars
      BY <2>2, <3>1, DepackerMainHolds DEF U!Next, U!uvars
    <3>2. CASE NextCpu
      BY <2>2, <3>2, DepackerCpuHolds DEF Simulates, U!Next
    <3>3. CASE UNCHANGED dvars
      BY <2>2, <3>3, DepackerStutters
    <3> QED BY <2>2, <3>1, <3>2, <3>3 DEF DepackerNext
  <2> QED BY <2>1, <2>2
<1>2. DepackerSpec /\ []Intended => U!Spec
  BY <1>1, DepackerInvariance, PTL DEF DepackerSpec, U!Spec
<1>3. U!Spec => U!Extracts
  <2>1. PAGE \in Nat /\ PAGE >= 22 /\ PAGE % 2 = 0
    BY PageAssumption
  <2>2. opcode_to_mode \in [U!Byte -> U!Mode]
    BY Same, ModeAssumption
  <2>3. /\ MAX_PRG_SIZE \in Nat
        /\ MARGIN \in Nat
        /\ 2 <= MARGIN
        /\ MARGIN <= MAX_PRG_SIZE
        /\ ADDR_LIMIT \in Nat
    BY SizeAssumption
  <2>4. /\ Addrs \subseteq Nat
        /\ Bodies \subseteq Seq(U!Byte)
        /\ JunkBytes \subseteq U!Byte
    BY Same, FileAssumption
  <2> QED BY <2>1, <2>2, <2>3, <2>4, U!ImplementsPromise, PTL
<1> QED BY <1>2, <1>3, PTL

\* How long the program is with what is trashed behind it.
Trashes == main_pc = "tables" => real_program_len <= Len(body) + 3

\* The depacker is made for at most three bytes more than the program has,
\* whatever the program and the order of the tables.
THEOREM TrashBounded == DepackerSpec => []Trashes
<1>1. ASSUME U!IInv PROVE Trashes
  <2> SUFFICES ASSUME main_pc = "tables" PROVE real_program_len <= Len(body) + 3
    BY DEF Trashes
  <2>1. /\ program_len \in Nat /\ program_len = Len(body) /\ i \in Nat
        /\ i <= program_len + 2
        /\ eof_marker # PAGE => U!real_program_len = i + 1
        /\ eof_marker = PAGE => U!real_program_len = i
    BY <1>1, Same, U!TablesFacts, PageAssumption, ModeAssumption, SizeAssumption,
       FileAssumption
  <2> QED BY <2>1, Same
<1>2. DepackerInit => Trashes
  BY DEF DepackerInit, InitMain, Trashes
<1>3. U!IInv' => Trashes'
  BY <1>1, PTL
<1>4. ASSUME DepackerInv, Trashes, [DepackerNext \/ (AllDone /\ UNCHANGED dvars)]_dvars
      PROVE  Trashes'
  <2>1. CASE NextLayout /\ UNCHANGED cpuVars
    BY <1>3, <1>4, <2>1, DepackerMainHolds
  <2>2. CASE UNCHANGED lvars
    BY <1>4, <2>2, MainStays DEF Trashes, mainVars
  <2> QED BY <1>4, <2>1, <2>2, CpuLeavesMain DEF DepackerNext, dvars
<1> QED BY <1>2, <1>4, DepackerInvariance, PTL DEF DepackerSpec

\* The calls the documentation has in mind: the order is given in the letters
\* it lists, and the program with three bytes more ends in memory.
Meant ==
  /\ \A n \in 1 .. Len(options.order) : options.order[n] \in Id \cup {"."}
  /\ program_addr + Len(body) + 3 <= ADDR_LIMIT

\* They are intended: no table of theirs is left without an address, and the
\* depacker does not run over the end of the memory.
THEOREM MeantIsIntended == DepackerSpec => [](Meant => Intended)
<1>1. DepackerInv /\ Trashes => (Meant => Intended)
  <2> SUFFICES ASSUME DepackerInv, Trashes, Meant, lay_pc = "accepted"
               PROVE  Placed = Id /\ program_end <= ADDR_LIMIT
    BY DEF Intended, EveryTablePlaced
  <2>1. /\ SplitterOK /\ ValidOptions /\ main_pc = "tables"
    BY DEF DepackerInv, MainInv, RouteInv, LayInv, Progressed, Laying
  <2>2. ASSUME NEW x \in Id PROVE x \in Placed
    <3>1. PICK n \in 1 .. Len(options.order) : SameLetter(options.order[n], x)
      BY <2>1 DEF ValidOptions, ValidOrder
    <3>2. options.order[n] = x \/ options.order[n] = Upper[x]
      BY <3>1 DEF SameLetter
    <3>3. options.order[n] \in Id \cup {"."}
      BY DEF Meant
    <3>4. Upper[x] \notin Id \cup {"."}
      BY DEF Upper, Id, Table
    <3> QED BY <3>2, <3>3, <3>4 DEF Placed
  <2>3. PICK a \in Nat, l \in Nat, b \in Nat :
          /\ a = program_addr /\ l = real_program_len /\ b = Len(body)
          /\ program_end = a + l
    <3>1. Len(body) \in Nat
      BY <2>1 DEF SplitterOK
    <3> QED BY <2>1, <3>1, LengthFacts
  <2>4. l <= b + 3 /\ a + b + 3 <= ADDR_LIMIT
    BY <2>1, <2>3 DEF Trashes, Meant
  <2>5. program_end <= ADDR_LIMIT
    BY <2>3, <2>4, LimitFacts
  <2> QED BY <2>2, <2>5 DEF Placed
<1> QED BY <1>1, DepackerInvariance, TrashBounded, PTL

\* For a call as the documentation has it in mind, the depacker that returned
\* has left the program in memory, and the branch of the main loop is taken.
THEOREM MeantUnpacks == DepackerSpec => [](Meant => Unpacked /\ BranchesAlways)
  BY MeantIsIntended, UnpackedCorrect, BranchCorrect, PTL
=============================================================================
