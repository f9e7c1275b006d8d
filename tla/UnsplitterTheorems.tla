------------------------- MODULE UnsplitterTheorems -------------------------
(***************************************************************************)
(* Splitting and unsplitting, proved for every byte size, opcode table,    *)
(* buffer size and program: the inductive invariant IInv of Unsplitter,    *)
(* the safety properties that follow from it, and that the two programs    *)
(* keep the promise of module Extraction.                                  *)
(***************************************************************************)
EXTENDS Unsplitter, Integers, TLAPS

-----------------------------------------------------------------------------
(***************************************************************************)
(* The addressing modes.                                                   *)
(***************************************************************************)

\* The modes without argument differ from those with one.
LEMMA ModeFacts ==
  /\ PAGE \in Nat /\ PAGE >= 22
  /\ MODEimpl \in Nat /\ MODEimpl >= 11 /\ MODEimpl < PAGE
  /\ MODEjam = PAGE + MODEimpl
  BY PageAssumption DEF MODEimpl, MODEjam

\* The low byte of a mode, which is what the depacker gets to see, has the
\* same argument tables as the mode.
LEMMA LowByteKeepsArgTables ==
  ASSUME NEW m \in Mode
  PROVE  ArgTables(m % PAGE) = ArgTables(m)
<1>1. CASE m \in {MODEabs, MODEimm, MODErel, MODEzp}
  <2>1. m \in 0 .. PAGE - 1
    BY <1>1, ModeFacts DEF MODEabs, MODEimm, MODErel, MODEzp
  <2>2. m % PAGE = m
    BY <2>1, ModeFacts
  <2> QED BY <2>2
<1>2. CASE m = MODEimpl
  <2>1. m % PAGE = m
    BY <1>2, ModeFacts
  <2> QED BY <2>1
<1>3. CASE m = MODEjam
  <2>1. m % PAGE = MODEimpl
    BY <1>3, ModeFacts
  <2>2. /\ ArgTables(MODEimpl) = <<>>
        /\ ArgTables(MODEjam) = <<>>
    BY ModeFacts DEF ArgTables, MODEabs, MODEimm, MODErel, MODEzp
  <2> QED BY <1>3, <2>1, <2>2
<1> QED BY <1>1, <1>2, <1>3 DEF Mode

\* The argument tables by cases.
LEMMA ArgTablesCases ==
  ASSUME NEW m \in Mode
  PROVE  \/ ArgTables(m) = <<"l", "h">>
         \/ \E t \in {"i", "r", "z"} : ArgTables(m) = <<t>>
         \/ ArgTables(m) = <<>>
  BY DEF ArgTables

\* At most two argument bytes, of different tables, and none of them goes to
\* the opcode table.
LEMMA ArgTablesFacts ==
  ASSUME NEW m \in Mode
  PROVE  /\ ArgTables(m) \in Seq(Table \ {"o"})
         /\ Len(ArgTables(m)) \in Nat /\ Len(ArgTables(m)) <= 2
         /\ \A j, k \in 1 .. Len(ArgTables(m)) :
              ArgTables(m)[j] = ArgTables(m)[k] => j = k
<1> DEFINE ts == ArgTables(m)
<1>1. CASE ts = <<"l", "h">>
  <2>1. Len(ts) = 2 /\ ts[1] = "l" /\ ts[2] = "h"
    BY <1>1
  <2>2. ts \in Seq(Table \ {"o"})
    BY <1>1 DEF Table
  <2> QED BY <2>1, <2>2
<1>2. CASE \E t \in {"i", "r", "z"} : ts = <<t>>
  <2>1. PICK t \in {"i", "r", "z"} : ts = <<t>>
    BY <1>2
  <2>2. Len(ts) = 1 /\ ts[1] = t
    BY <2>1
  <2>3. ts \in Seq(Table \ {"o"})
    BY <2>1 DEF Table
  <2> QED BY <2>2, <2>3
<1>3. CASE ts = <<>>
  BY <1>3
<1> QED BY <1>1, <1>2, <1>3, ArgTablesCases

\* What an instruction adds to the lengths of the tables is what it adds to the
\* place in the program.
LEMMA AdvancedBalance ==
  ASSUME NEW m \in Mode,
         NEW c \in [Table -> Nat], NEW d \in [Table -> Nat],
         Advanced(c, d, ArgTables(m)),
         c["l"] = c["h"]
  PROVE  /\ d["o"] = c["o"] + 1
         /\ d["l"] = d["h"]
         /\ Place(d) = Place(c) + 1 + Len(ArgTables(m))
<1> DEFINE ts == ArgTables(m)
<1>0. /\ "o" \in Table /\ "l" \in Table /\ "h" \in Table
      /\ "i" \in Table /\ "r" \in Table /\ "z" \in Table
  BY DEF Table
<1>1. CASE ts = <<"l", "h">>
  <2>1. /\ Len(ts) = 2 /\ ts[1] = "l" /\ ts[2] = "h"
    BY <1>1
  <2> QED BY <1>0, <2>1 DEF Advanced, Place
<1>2. CASE \E t \in {"i", "r", "z"} : ts = <<t>>
  <2>1. PICK t \in {"i", "r", "z"} : ts = <<t>>
    BY <1>2
  <2>2. Len(ts) = 1 /\ ts[1] = t
    BY <2>1
  <2> QED BY <1>0, <2>2 DEF Advanced, Place
<1>3. CASE ts = <<>>
  <2>1. Len(ts) = 0
    BY <1>3
  <2>2. \A t \in Table : d[t] = IF t = "o" THEN c[t] + 1 ELSE c[t]
    BY <2>1 DEF Advanced
  <2> QED BY <2>1, <2>2, SMTT(30) DEF Table, Place
<1> QED BY <1>1, <1>2, <1>3, ArgTablesCases
-----------------------------------------------------------------------------
(***************************************************************************)
(* The initial states and the reading of the program.                      *)
(***************************************************************************)

\* The initial states satisfy the inductive invariant.
LEMMA InitHolds == Init => IInv
<1> SUFFICES ASSUME Init PROVE IInv
  OBVIOUS
<1> USE DEF Init, InitMain, InitRun
<1>1. TypeOK
  <2>1. program_addr \in Nat /\ body \in Seq(Byte)
    BY FileAssumption
  <2>2. starts \in Seq(Mark)
    BY DEF Mark
  <2>3. data \in [Table -> Seq(Byte)] /\ taken \in [Table -> Nat]
    OBVIOUS
  <2> QED BY <2>1, <2>2, <2>3, ModeFacts DEF TypeOK
<1>2. Loaded
  BY DEF Loaded
<1>3. Distributed
  <2>1. Len(starts) = 1 /\ starts[1] = [at |-> 0, cnt |-> [t \in Table |-> 0]]
    OBVIOUS
  <2>2. Balanced(1)
    BY <2>1 DEF Balanced, Place, Table
  <2>3. Count = 0 /\ Last.at = 0 /\ \A t \in Table : Last.cnt[t] = 0
    BY <2>1 DEF Count, Last
  <2> QED BY <2>1, <2>2, <2>3 DEF Distributed, Table
<1>4. Marked
  BY DEF Marked
<1>5. Retraces
  BY DEF Retraces
<1> QED BY <1>1, <1>2, <1>3, <1>4, <1>5 DEF IInv

\* ReadProgram preserves the inductive invariant.
LEMMA ReadProgramHolds ==
  ASSUME IInv, ReadProgram, UNCHANGED runVars
  PROVE  IInv'
<1> DEFINE n == IF Len(body) < MAX_PRG_SIZE THEN Len(body) ELSE MAX_PRG_SIZE
           lo == program_addr % PAGE
           hi == (program_addr \div PAGE) % PAGE
<1> USE DEF IInv
<1>1. PICK junk \in [0 .. 1 -> JunkBytes] :
        /\ program_len' = n
        /\ program_data' = [k \in 0 .. n + 1 |-> BufferByte(n, k, lo, hi, junk)]
        /\ main_pc' = IF n >= MAX_PRG_SIZE - MARGIN
                          \/ program_addr + n > ADDR_LIMIT
                     THEN "failed" ELSE "split"
  BY DEF ReadProgram
<1>2. /\ main_pc = "read" /\ i = 0 /\ program_len = 0 /\ run = "idle"
      /\ UNCHANGED <<fileVars, splitVars, tableVars, runVars>>
  <2>1. main_pc = "read" /\ UNCHANGED <<fileVars, splitVars, tableVars, runVars>>
    BY DEF ReadProgram
  <2>2. program_len = 0 /\ run = "idle"
    BY <2>1 DEF Loaded
  <2>3. Len(starts) = 1
    BY <2>1 DEF Distributed, Count, TypeOK
  <2>4. i = 0
    BY <2>3 DEF Distributed, Last
  <2> QED BY <2>1, <2>2, <2>4
<1>3. n \in Nat /\ n <= Len(body) /\ MAX_PRG_SIZE \in Nat /\ MARGIN \in Nat
  BY SizeAssumption DEF TypeOK
<1>4. \A k \in 0 .. n + 1 : BufferByte(n, k, lo, hi, junk) \in Byte
  <2>1. lo \in Byte /\ hi \in Byte
    <3>1. program_addr \div PAGE \in Int
      BY ModeFacts DEF TypeOK
    <3> QED BY <3>1, ModeFacts DEF TypeOK, Byte
  <2>2. \A k \in 0 .. 1 : junk[k] \in Byte
    BY FileAssumption
  <2>3. \A k \in 0 .. n - 1 : body[k + 1] \in Byte
    BY <1>3 DEF TypeOK
  <2> SUFFICES ASSUME NEW k \in 0 .. n + 1
               PROVE  BufferByte(n, k, lo, hi, junk) \in Byte
    OBVIOUS
  <2>4. CASE k < n
    BY <1>3, <2>3, <2>4 DEF BufferByte
  <2>5. CASE k >= n /\ k \in {0, 1}
    BY <1>3, <2>1, <2>5 DEF BufferByte
  <2>6. CASE k >= n /\ k > 1
    BY <1>3, <2>2, <2>6 DEF BufferByte
  <2> QED BY <1>3, <2>4, <2>5, <2>6
<1>5. TypeOK'
  BY <1>1, <1>2, <1>3, <1>4
     DEF TypeOK, fileVars, splitVars, tableVars, runVars
<1>6. Loaded'
  BY <1>1, <1>2, <1>3, SMTT(30) DEF Loaded, BufferByte, fileVars, runVars, TypeOK
<1>7. Distributed'
  <2>1. Count = 0 /\ Count' = 0 /\ Last' = Last
    BY <1>2 DEF Distributed, Count, Last, splitVars
  <2>2. \A k \in 1 .. Len(starts) : Balanced(k)'
    BY <1>2 DEF Distributed, Balanced, splitVars
  <2> QED BY <1>1, <1>2, <2>1, <2>2 DEF Distributed, splitVars
<1>8. Marked'
  BY <1>1 DEF Marked
<1>9. Retraces'
  BY <1>2 DEF Retraces, runVars, splitVars
<1> QED BY <1>5, <1>6, <1>7, <1>8, <1>9

\* ReadFails preserves it: nothing was read.
LEMMA ReadFailsHolds ==
  ASSUME IInv, ReadFails, UNCHANGED runVars
  PROVE  IInv'
<1> USE DEF IInv
<1>1. /\ main_pc = "read" /\ main_pc' = "failed"
      /\ UNCHANGED <<fileVars, loadVars, splitVars, tableVars, runVars>>
  BY DEF ReadFails
<1>2. TypeOK'
  BY <1>1 DEF TypeOK, fileVars, loadVars, splitVars, tableVars, runVars
<1>3. Loaded'
  BY <1>1 DEF Loaded, fileVars, loadVars, runVars
<1>4. Distributed'
  <2>1. Count' = Count /\ Last' = Last
    BY <1>1 DEF Count, Last, splitVars
  <2>2. \A k \in 1 .. Len(starts) : Balanced(k)'
    BY <1>1 DEF Distributed, Balanced, splitVars
  <2> QED BY <1>1, <2>1, <2>2 DEF Distributed, splitVars, loadVars
<1>5. Marked'
  BY <1>1 DEF Marked
<1>6. Retraces'
  BY <1>1 DEF Retraces, Loaded, runVars, splitVars, loadVars
<1> QED BY <1>2, <1>3, <1>4, <1>5, <1>6

-----------------------------------------------------------------------------
(***************************************************************************)
(* The split loop.                                                         *)
(***************************************************************************)

\* What the actions of the split loop have in common: the bytes of the
\* instruction are appended to the tables of its mode.
SplitsTo(ts) ==
  /\ TakeOpcode
  /\ ts = ArgTables(OpcodeMode)
  /\ data' \in [Table -> Seq(Byte)]
  /\ data'["o"] = Append(data["o"], Opcode)
  /\ \A j \in 1 .. Len(ts) :
       data'[ts[j]] = Append(data[ts[j]], program_data[i + j])
  /\ \A t \in Table : t # "o" /\ (\A j \in 1 .. Len(ts) : ts[j] # t)
                        => data'[t] = data[t]
  /\ i' = i + 1 + Len(ts)
  /\ MarkStart
  /\ UNCHANGED runVars

\* The fields of a mark.
LEMMA MarkFacts ==
  ASSUME NEW m \in Mark
  PROVE  /\ m.at \in Nat /\ m.cnt \in [Table -> Nat]
         /\ \A t \in Table : m.cnt[t] \in Nat
  BY DEF Mark

\* The lengths of the tables are numbers.
LEMMA LenFacts ==
  ASSUME NEW d \in [Table -> Seq(Byte)]
  PROVE  \A t \in Table : Len(d[t]) \in Nat
  OBVIOUS

\* While it splits, the tables hold exactly what starts says.
LEMMA SplitFacts ==
  ASSUME IInv, TakeOpcode
  PROVE  /\ i \in 0 .. program_len - 1 /\ program_len \in Nat
         /\ program_data \in [0 .. program_len + 1 -> Byte]
         /\ Opcode \in Byte /\ OpcodeMode \in Mode
         /\ Len(starts) \in Nat /\ Len(starts) >= 1
         /\ Last = starts[Len(starts)] /\ Count = Len(starts) - 1
         /\ Last \in Mark
         /\ Last.at = i
         /\ Len(data["o"]) = Len(starts) - 1
         /\ \A t \in Table : Last.cnt[t] = Len(data[t])
<1> USE DEF IInv
<1>1. /\ main_pc = "split" /\ i < program_len
      /\ program_data \in [0 .. program_len + 1 -> Byte]
      /\ program_len \in Nat /\ i \in 0 .. program_len + 2
  BY DEF TakeOpcode, TypeOK
<1>2. i \in 0 .. program_len - 1
  BY <1>1
<1>3. Opcode \in Byte /\ OpcodeMode \in Mode
  BY <1>1, <1>2, ModeAssumption DEF Opcode, OpcodeMode
<1>4. /\ Len(starts) \in Nat /\ Len(starts) >= 1
      /\ Last = starts[Len(starts)] /\ Count = Len(starts) - 1
      /\ Last \in Mark
  <2>1. Len(starts) >= 1
    BY DEF Distributed
  <2>2. starts \in Seq(Mark)
    BY DEF TypeOK
  <2> QED BY <2>1, <2>2 DEF Last, Count
<1>5. /\ Len(data["o"]) = Len(starts) - 1
      /\ \A t \in Table : Last.cnt[t] = Len(data[t])
  <2>1. Balanced(Len(starts)) /\ Len(data["o"]) = Count
    BY <1>1, <1>4 DEF Distributed
  <2>2. Last.cnt["o"] = Len(data["o"])
    BY <1>4, <2>1 DEF Balanced
  <2>3. \A t \in Table \ {"o"} : Last.cnt[t] = Len(data[t])
    BY DEF Distributed
  <2> QED BY <1>4, <2>1, <2>2, <2>3
<1>6. Last.at = i
  BY DEF Distributed
<1> QED BY <1>1, <1>2, <1>3, <1>4, <1>5, <1>6

\* Such a step preserves the inductive invariant.
LEMMA SplitStep ==
  ASSUME IInv, NEW ts, SplitsTo(ts)
  PROVE  IInv'
<1> USE DEF IInv
<1> DEFINE new == [at |-> i', cnt |-> [t \in Table |-> Len(data'[t])]]
<1>0. PICK K \in Nat : K = Len(starts)
  BY DEF TypeOK
<1>1. TakeOpcode
  BY DEF SplitsTo
<1>2. /\ i \in 0 .. program_len - 1 /\ program_len \in Nat
      /\ program_data \in [0 .. program_len + 1 -> Byte]
      /\ Opcode \in Byte /\ OpcodeMode \in Mode
      /\ K \in Nat /\ K >= 1 /\ K = Len(starts)
      /\ Last = starts[K] /\ Count = K - 1
      /\ Last \in Mark
      /\ Last.at = i
      /\ Len(data["o"]) = K - 1
      /\ \A t \in Table : Last.cnt[t] = Len(data[t])
  BY <1>0, <1>1, SplitFacts
<1>3. /\ main_pc = "split" /\ main_pc' = "split" /\ run = "idle"
      /\ UNCHANGED <<fileVars, loadVars, tableVars, runVars>>
      /\ used_opcodes' = used_opcodes \cup {Opcode}
  BY DEF SplitsTo, TakeOpcode, TypeOK, Retraces
<1>4. /\ ts \in Seq(Table \ {"o"}) /\ Len(ts) \in Nat /\ Len(ts) <= 2
      /\ \A j, k \in 1 .. Len(ts) : ts[j] = ts[k] => j = k
  BY <1>2, ArgTablesFacts DEF SplitsTo
<1>5. i' = i + 1 + Len(ts) /\ i' \in 0 .. program_len + 2
  <2>1. i' = i + 1 + Len(ts)
    BY DEF SplitsTo
  <2>2. /\ i \in 0 .. program_len - 1 /\ program_len \in Nat
        /\ Len(ts) \in Nat /\ Len(ts) <= 2
    BY <1>2, <1>4
  <2> QED BY <2>1, <2>2
<1>6. data' \in [Table -> Seq(Byte)]
  BY DEF SplitsTo
<1>7. new \in Mark
  <2>1. i' \in Nat
    BY <1>2, <1>5
  <2>2. [t \in Table |-> Len(data'[t])] \in [Table -> Nat]
    BY <1>6
  <2> QED BY <2>1, <2>2 DEF Mark
<1>8. /\ starts' = Append(starts, new)
      /\ starts \in Seq(Mark)
      /\ starts' \in Seq(Mark)
  BY <1>7 DEF SplitsTo, MarkStart, TypeOK
<1>9. /\ Len(starts') = K + 1 /\ Count' = K
      /\ starts'[K + 1] = new /\ Last' = new
      /\ \A k \in 1 .. K : starts'[k] = starts[k]
  <2> HIDE DEF new
  <2>1. Len(starts') = K + 1 /\ starts'[K + 1] = new
    BY <1>2, <1>7, <1>8
  <2>2. \A k \in 1 .. K : starts'[k] = starts[k]
    BY <1>2, <1>7, <1>8
  <2> QED BY <1>2, <2>1, <2>2 DEF Count, Last
<1>10. /\ \A t \in Table : Len(data[t]) <= Len(data'[t])
       /\ \A t \in Table : \A x \in 1 .. Len(data[t]) : data'[t][x] = data[t][x]
       /\ data'["o"][K] = Opcode
       /\ \A j \in 1 .. Len(ts) :
            data'[ts[j]][Last.cnt[ts[j]] + 1] = program_data[i + j]
       /\ Advanced(Last.cnt, new.cnt, ts)
  <2>0. /\ data \in [Table -> Seq(Byte)] /\ "o" \in Table
        /\ \A j \in 1 .. Len(ts) : ts[j] \in Table \ {"o"}
        /\ \A j \in 1 .. Len(ts) : program_data[i + j] \in Byte
    <3>1. data \in [Table -> Seq(Byte)] /\ "o" \in Table
      BY DEF TypeOK, Table
    <3>2. \A j \in 1 .. Len(ts) : ts[j] \in Table \ {"o"}
      BY <1>4
    <3>3. \A j \in 1 .. Len(ts) : i + j \in 0 .. program_len + 1
      BY <1>2, <1>4
    <3> QED BY <1>2, <3>1, <3>2, <3>3
  <2>1. \A t \in Table :
          \/ t = "o" /\ data'[t] = Append(data[t], Opcode)
          \/ \E j \in 1 .. Len(ts) :
               t = ts[j] /\ data'[t] = Append(data[t], program_data[i + j])
          \/ t # "o" /\ (\A j \in 1 .. Len(ts) : ts[j] # t) /\ data'[t] = data[t]
    BY DEF SplitsTo
  <2>2. \A t \in Table : \A b \in Byte :
          data'[t] = Append(data[t], b) =>
            /\ Len(data'[t]) = Len(data[t]) + 1
            /\ data'[t][Len(data[t]) + 1] = b
            /\ \A x \in 1 .. Len(data[t]) : data'[t][x] = data[t][x]
    BY <2>0
  <2>3. \A t \in Table : /\ Len(data[t]) <= Len(data'[t])
                         /\ \A x \in 1 .. Len(data[t]) : data'[t][x] = data[t][x]
    <3> SUFFICES ASSUME NEW t \in Table
                 PROVE  /\ Len(data[t]) <= Len(data'[t])
                        /\ \A x \in 1 .. Len(data[t]) : data'[t][x] = data[t][x]
      OBVIOUS
    <3>1. Len(data[t]) \in Nat
      BY <2>0
    <3>2. data'[t] = data[t] \/ \E b \in Byte : data'[t] = Append(data[t], b)
      BY <1>2, <2>0, <2>1
    <3> QED BY <2>2, <3>1, <3>2
  <2>4. data'["o"][K] = Opcode
    BY <1>2, <2>0, <2>2 DEF SplitsTo
  <2>5. \A j \in 1 .. Len(ts) :
          data'[ts[j]][Last.cnt[ts[j]] + 1] = program_data[i + j]
    <3> SUFFICES ASSUME NEW j \in 1 .. Len(ts)
                 PROVE  data'[ts[j]][Len(data[ts[j]]) + 1] = program_data[i + j]
      BY <1>2, <2>0
    <3>1. data'[ts[j]] = Append(data[ts[j]], program_data[i + j])
      BY DEF SplitsTo
    <3> QED BY <2>0, <2>2, <3>1
  <2>6. Advanced(Last.cnt, new.cnt, ts)
    <3> SUFFICES ASSUME NEW t \in Table
                 PROVE  Len(data'[t]) =
                          IF t = "o" \/ \E j \in 1 .. Len(ts) : ts[j] = t
                          THEN Len(data[t]) + 1 ELSE Len(data[t])
      BY <1>2 DEF Advanced
    <3>1. CASE t = "o"
      BY <1>2, <2>0, <2>2, <3>1 DEF SplitsTo
    <3>2. CASE \E j \in 1 .. Len(ts) : ts[j] = t
      BY <2>0, <2>2, <3>2 DEF SplitsTo
    <3>3. CASE t # "o" /\ ~ \E j \in 1 .. Len(ts) : ts[j] = t
      BY <2>1, <3>3
    <3> QED BY <3>1, <3>2, <3>3
  <2> QED BY <2>3, <2>4, <2>5, <2>6
<1> HIDE DEF new
<1>11. TypeOK'
  BY <1>2, <1>3, <1>5, <1>6, <1>8
     DEF TypeOK, fileVars, loadVars, tableVars, runVars
<1>12. Loaded'
  BY <1>3 DEF Loaded, fileVars, loadVars
<1>13. Distributed'
  <2>1. Balanced(K + 1)'
    <3>1. /\ Last.cnt["l"] = Last.cnt["h"] /\ Last.cnt["o"] = K - 1
          /\ Last.at = Place(Last.cnt)
      <4>1. Balanced(K)
        BY <1>2 DEF Distributed
      <4> QED BY <1>2, <4>1 DEF Balanced
    <3>2. /\ new.cnt["o"] = Last.cnt["o"] + 1
          /\ new.cnt["l"] = new.cnt["h"]
          /\ Place(new.cnt) = Place(Last.cnt) + 1 + Len(ts)
      <4>1. Last.cnt \in [Table -> Nat] /\ new.cnt \in [Table -> Nat]
        BY <1>2, <1>7 DEF Mark
      <4>2. ts = ArgTables(OpcodeMode)
        BY DEF SplitsTo
      <4> QED BY <1>2, <1>10, <3>1, <4>1, <4>2, AdvancedBalance
    <3>3. new.at = i + 1 + Len(ts) /\ \A t \in Table : new.cnt[t] = Len(data'[t])
      BY <1>5 DEF new
    <3>4. new.cnt["o"] = K
      BY <1>2, <3>1, <3>2
    <3>5. new.at = Place(new.cnt)
      BY <1>2, <3>1, <3>2, <3>3
    <3>6. \A t \in Table : new.cnt[t] <= Len(data'[t])
      <4>1. \A t \in Table : Len(data'[t]) \in Nat
        BY <1>6
      <4> QED BY <3>3, <4>1
    <3>7. starts'[K + 1] = new /\ (K + 1) - 1 = K
      BY <1>2, <1>9
    <3> QED BY <3>2, <3>4, <3>5, <3>6, <3>7 DEF Balanced
  <2>2. \A k \in 1 .. K : Balanced(k)'
    <3> SUFFICES ASSUME NEW k \in 1 .. K PROVE Balanced(k)'
      OBVIOUS
    <3>1. Balanced(k)
      BY <1>2 DEF Distributed
    <3>2. starts'[k] = starts[k] /\ starts[k] \in Mark
      BY <1>2, <1>8, <1>9
    <3>3. \A t \in Table : starts[k].cnt[t] <= Len(data'[t])
      <4> SUFFICES ASSUME NEW t \in Table PROVE starts[k].cnt[t] <= Len(data'[t])
        OBVIOUS
      <4>1. /\ starts[k].cnt[t] \in Nat
            /\ Len(data[t]) \in Nat /\ Len(data'[t]) \in Nat
        BY <1>6, <3>2, MarkFacts, LenFacts DEF TypeOK
      <4>2. starts[k].cnt[t] <= Len(data[t]) /\ Len(data[t]) <= Len(data'[t])
        BY <1>10, <3>1 DEF Balanced
      <4> QED BY <4>1, <4>2
    <3> QED BY <3>1, <3>2, <3>3 DEF Balanced
  <2>3. Instruction(K)'
    <3>1. /\ starts'[K] = Last /\ starts'[K + 1] = new
          /\ program_data' = program_data /\ program_len' = program_len
      BY <1>2, <1>3, <1>9 DEF loadVars
    <3>2. ArgsOf(K)' = ts
      <4>1. ts = ArgTables(opcode_to_mode[program_data[i]])
        BY DEF SplitsTo, Opcode, OpcodeMode
      <4>2. starts'[K].at = i
        BY <1>2, <3>1
      <4> QED BY <3>1, <4>1, <4>2 DEF ArgsOf
    <3>3. /\ Last.at = i /\ i < program_len
          /\ Opcode \in used_opcodes' /\ Opcode = program_data[i]
      BY <1>2, <1>3 DEF Opcode
    <3>4. new.at = i + 1 + Len(ts)
      BY <1>5 DEF new
    <3> QED BY <1>10, <3>1, <3>2, <3>3, <3>4 DEF Instruction
  <2>4. \A k \in 1 .. K - 1 : Instruction(k)'
    <3> SUFFICES ASSUME NEW k \in 1 .. K - 1 PROVE Instruction(k)'
      OBVIOUS
    <3>1. Instruction(k) /\ Balanced(k + 1)
      BY <1>2 DEF Distributed
    <3>2. /\ k \in 1 .. K /\ k + 1 \in 1 .. K /\ k \in 1 .. Len(data["o"])
          /\ starts'[k] = starts[k] /\ starts'[k + 1] = starts[k + 1]
          /\ starts[k] \in Mark /\ starts[k + 1] \in Mark
      BY <1>2, <1>8, <1>9
    <3>3. ArgsOf(k)' = ArgsOf(k) /\ program_data' = program_data
      BY <1>3, <3>2 DEF ArgsOf, loadVars
    <3>4. \A j \in 1 .. Len(ArgsOf(k)) :
            /\ ArgsOf(k)[j] \in Table
            /\ starts[k].cnt[ArgsOf(k)[j]] + 1 \in 1 .. Len(data[ArgsOf(k)[j]])
      <4> SUFFICES ASSUME NEW j \in 1 .. Len(ArgsOf(k))
                   PROVE  /\ ArgsOf(k)[j] \in Table
                          /\ starts[k].cnt[ArgsOf(k)[j]] + 1
                               \in 1 .. Len(data[ArgsOf(k)[j]])
        OBVIOUS
      <4> DEFINE t == ArgsOf(k)[j]
      <4>1. t \in Table
        <5>1. starts[k].at \in 0 .. program_len - 1
          BY <1>2, <3>1, <3>2 DEF Instruction, Mark
        <5>2. opcode_to_mode[program_data[starts[k].at]] \in Mode
          BY <1>2, <5>1, ModeAssumption
        <5> QED BY <5>2, ArgTablesFacts DEF ArgsOf
      <4>2. starts[k + 1].cnt[t] = starts[k].cnt[t] + 1
        BY <3>1, <4>1 DEF Instruction, Advanced
      <4>3. starts[k + 1].cnt[t] <= Len(data[t])
        BY <3>1, <4>1 DEF Balanced
      <4>4. starts[k].cnt[t] \in Nat /\ Len(data[t]) \in Nat
        BY <3>2, <4>1, MarkFacts, LenFacts DEF TypeOK
      <4> QED BY <4>1, <4>2, <4>3, <4>4
    <3>5. data'["o"][k] = data["o"][k]
      BY <1>10, <3>2 DEF Table
    <3>6. \A j \in 1 .. Len(ArgsOf(k)) :
            data'[ArgsOf(k)[j]][starts[k].cnt[ArgsOf(k)[j]] + 1] =
              data[ArgsOf(k)[j]][starts[k].cnt[ArgsOf(k)[j]] + 1]
      BY <1>10, <3>4
    <3> QED BY <1>3, <3>1, <3>2, <3>3, <3>5, <3>6 DEF Instruction, loadVars
  <2>5. \A t \in Table \ {"o"} : new.cnt[t] = Len(data'[t])
    BY DEF new
  <2>6. Len(data'["o"]) = K
    <3>1. data'["o"] = Append(data["o"], Opcode) /\ data["o"] \in Seq(Byte)
      BY DEF SplitsTo, TypeOK, Table
    <3> QED BY <1>2, <3>1
  <2>7. /\ starts'[1] = starts[1]
        /\ starts[1].at = 0 /\ \A t \in Table : starts[1].cnt[t] = 0
    BY <1>2, <1>9 DEF Distributed
  <2>8. \A k \in 1 .. K + 1 : Balanced(k)'
    BY <1>2, <2>1, <2>2
  <2>9. \A k \in 1 .. K : Instruction(k)'
    BY <1>2, <2>3, <2>4
  <2>10. new.at = i'
    BY DEF new
  <2> QED BY <1>2, <1>3, <1>9, <2>5, <2>6, <2>7, <2>8, <2>9, <2>10 DEF Distributed
<1>14. Marked'
  BY <1>3 DEF Marked
<1>15. Retraces'
  BY <1>3 DEF Retraces, runVars
<1> QED BY <1>11, <1>12, <1>13, <1>14, <1>15

\* The three kinds of instructions are such steps.
LEMMA SplitNoneHolds ==
  ASSUME IInv, SplitNone, UNCHANGED runVars
  PROVE  IInv'
<1>1. TakeOpcode /\ OpcodeMode \in {MODEimpl, MODEjam}
  BY DEF SplitNone
<1>2. ArgTables(OpcodeMode) = <<>> /\ Len(<<>>) = 0
  BY <1>1, ModeFacts
     DEF ArgTables, MODEabs, MODEimm, MODErel, MODEzp
<1>3. /\ data \in [Table -> Seq(Byte)] /\ i \in Nat /\ Opcode \in Byte
      /\ "o" \in Table
  BY <1>1, SplitFacts, SMTT(30) DEF IInv, TypeOK, Table
<1>4. data' = [data EXCEPT !["o"] = Append(@, Opcode)]
  BY DEF SplitNone
<1>5. i' = i + 1 + 0 /\ MarkStart
  BY <1>3 DEF SplitNone
<1>6. SplitsTo(<<>>)
  BY <1>1, <1>2, <1>3, <1>4, <1>5 DEF SplitsTo
<1> QED BY <1>6, SplitStep

LEMMA SplitOneHolds ==
  ASSUME IInv, NEW t, NEW m,
         <<t, m>> \in {<<"i", MODEimm>>, <<"r", MODErel>>, <<"z", MODEzp>>},
         SplitOne(t, m), UNCHANGED runVars
  PROVE  IInv'
<1> DEFINE ts == <<t>>
<1>1. TakeOpcode /\ OpcodeMode = m
  BY DEF SplitOne
<1>2. ArgTables(OpcodeMode) = ts /\ Len(ts) = 1 /\ ts[1] = t
  BY <1>1 DEF ArgTables, MODEabs, MODEimm, MODErel, MODEzp
<1>3. /\ data \in [Table -> Seq(Byte)] /\ i \in Nat /\ Opcode \in Byte
      /\ "o" \in Table /\ t \in Table /\ t # "o"
      /\ program_data[i + 1] \in Byte
  <2>1. data \in [Table -> Seq(Byte)]
    BY DEF IInv, TypeOK
  <2>2. "o" \in Table /\ t \in Table /\ t # "o"
    BY DEF Table
  <2> QED BY <1>1, <2>1, <2>2, SplitFacts
<1>4. data' = [data EXCEPT !["o"] = Append(@, Opcode),
                           ![t]   = Append(@, program_data[i + 1])]
  BY DEF SplitOne
<1>5. i' = i + 1 + 1 /\ MarkStart
  BY <1>3 DEF SplitOne
<1>6. SplitsTo(ts)
  <2>1. /\ data' \in [Table -> Seq(Byte)]
        /\ data'["o"] = Append(data["o"], Opcode)
        /\ data'[t] = Append(data[t], program_data[i + 1])
        /\ \A u \in Table : u # "o" /\ u # t => data'[u] = data[u]
    <3> DEFINE d1 == [data EXCEPT !["o"] = Append(data["o"], Opcode)]
    <3>1. /\ d1 \in [Table -> Seq(Byte)] /\ d1["o"] = Append(data["o"], Opcode)
          /\ \A u \in Table : u # "o" => d1[u] = data[u]
      BY <1>3
    <3>2. data' = [d1 EXCEPT ![t] = Append(data[t], program_data[i + 1])]
      BY <1>4
    <3> HIDE DEF d1
    <3> QED BY <1>3, <3>1, <3>2
  <2>2. \A j \in 1 .. Len(ts) : j = 1
    BY <1>2
  <2> HIDE DEF ts
  <2>3. \A j \in 1 .. Len(ts) :
          data'[ts[j]] = Append(data[ts[j]], program_data[i + j])
    BY <1>2, <2>1, <2>2
  <2>4. \A u \in Table : u # "o" /\ (\A j \in 1 .. Len(ts) : ts[j] # u)
                           => data'[u] = data[u]
    BY <1>2, <2>1
  <2> QED BY <1>1, <1>2, <1>5, <2>1, <2>3, <2>4 DEF SplitsTo
<1> HIDE DEF ts
<1> QED BY <1>6, SplitStep

LEMMA SplitAbsHolds ==
  ASSUME IInv, SplitAbs, UNCHANGED runVars
  PROVE  IInv'
<1> DEFINE ts == <<"l", "h">>
<1>1. TakeOpcode /\ OpcodeMode = MODEabs
  BY DEF SplitAbs
<1>2. ArgTables(OpcodeMode) = ts /\ Len(ts) = 2 /\ ts[1] = "l" /\ ts[2] = "h"
  <2>1. ArgTables(MODEabs) = ts
    BY DEF ArgTables, MODEabs, MODEimm, MODErel, MODEzp
  <2> QED BY <1>1, <2>1
<1>3. /\ data \in [Table -> Seq(Byte)] /\ i \in Nat /\ Opcode \in Byte
      /\ "o" \in Table /\ "l" \in Table /\ "h" \in Table
      /\ program_data[i + 1] \in Byte /\ program_data[i + 2] \in Byte
  <2>1. data \in [Table -> Seq(Byte)]
    BY DEF IInv, TypeOK
  <2>2. "o" \in Table /\ "l" \in Table /\ "h" \in Table
    BY DEF Table
  <2> QED BY <1>1, <2>1, <2>2, SplitFacts
<1>4. data' = [data EXCEPT !["o"] = Append(@, Opcode),
                           !["l"] = Append(@, program_data[i + 1]),
                           !["h"] = Append(@, program_data[i + 2])]
  BY DEF SplitAbs
<1>5. i' = i + 1 + 2 /\ MarkStart
  BY <1>3 DEF SplitAbs
<1>6. SplitsTo(ts)
  <2>1. /\ data' \in [Table -> Seq(Byte)]
        /\ data'["o"] = Append(data["o"], Opcode)
        /\ data'["l"] = Append(data["l"], program_data[i + 1])
        /\ data'["h"] = Append(data["h"], program_data[i + 2])
        /\ \A t \in Table \ {"o", "l", "h"} : data'[t] = data[t]
    <3> DEFINE d1 == [data EXCEPT !["o"] = Append(data["o"], Opcode)]
               d2 == [d1 EXCEPT !["l"] = Append(data["l"], program_data[i + 1])]
    <3>1. /\ d1 \in [Table -> Seq(Byte)] /\ d1["o"] = Append(data["o"], Opcode)
          /\ \A t \in Table \ {"o"} : d1[t] = data[t]
      BY <1>3
    <3>2. data' = [d2 EXCEPT !["h"] = Append(data["h"], program_data[i + 2])]
      BY <1>4
    <3> HIDE DEF d1
    <3>3. /\ d2 \in [Table -> Seq(Byte)]
          /\ d2["l"] = Append(data["l"], program_data[i + 1])
          /\ \A t \in Table \ {"l"} : d2[t] = d1[t]
      BY <1>3, <3>1
    <3> HIDE DEF d2
    <3>4. /\ data' \in [Table -> Seq(Byte)]
          /\ data'["h"] = Append(data["h"], program_data[i + 2])
          /\ \A t \in Table \ {"h"} : data'[t] = d2[t]
      BY <1>3, <3>2, <3>3
    <3>5. data'["l"] = d2["l"] /\ data'["o"] = d1["o"]
      BY <1>3, <3>3, <3>4
    <3>6. \A t \in Table \ {"o", "l", "h"} : data'[t] = data[t]
      BY <3>1, <3>3, <3>4
    <3> QED BY <3>1, <3>3, <3>4, <3>5, <3>6
  <2>2. \A j \in 1 .. Len(ts) :
          data'[ts[j]] = Append(data[ts[j]], program_data[i + j])
    <3>1. \A j \in 1 .. Len(ts) : j = 1 \/ j = 2
      BY <1>2
    <3> QED BY <1>2, <2>1, <3>1
  <2>3. \A t \in Table : t # "o" /\ (\A j \in 1 .. Len(ts) : ts[j] # t)
                           => data'[t] = data[t]
    BY <1>2, <2>1
  <2> HIDE DEF ts
  <2> QED BY <1>1, <1>2, <1>5, <2>1, <2>2, <2>3 DEF SplitsTo
<1> HIDE DEF ts
<1> QED BY <1>6, SplitStep

-----------------------------------------------------------------------------
(***************************************************************************)
(* The end marker and the argument table.                                  *)
(***************************************************************************)

\* The opcode and the arguments of the k-th instruction.
LEMMA InstructionFacts ==
  ASSUME IInv, NEW k \in 1 .. Count
  PROVE  /\ Len(starts) \in Nat /\ Count = Len(starts) - 1
         /\ k \in 1 .. Len(starts) /\ k + 1 \in 1 .. Len(starts)
         /\ starts[k] \in Mark /\ starts[k + 1] \in Mark
         /\ Instruction(k) /\ Balanced(k) /\ Balanced(k + 1)
         /\ starts[k].at \in 0 .. program_len - 1
         /\ program_data \in [0 .. program_len + 1 -> Byte]
         /\ program_data[starts[k].at] \in Byte
         /\ opcode_to_mode[program_data[starts[k].at]] \in Mode
         /\ ArgsOf(k) \in Seq(Table \ {"o"})
         /\ Len(ArgsOf(k)) \in Nat /\ Len(ArgsOf(k)) <= 2
         /\ \A x, y \in 1 .. Len(ArgsOf(k)) :
              ArgsOf(k)[x] = ArgsOf(k)[y] => x = y
<1> USE DEF IInv
<1>1. /\ Len(starts) \in Nat /\ Count = Len(starts) - 1
      /\ starts \in Seq(Mark)
  BY DEF TypeOK, Count
<1>2. /\ k \in 1 .. Len(starts) /\ k + 1 \in 1 .. Len(starts)
      /\ starts[k] \in Mark /\ starts[k + 1] \in Mark
  BY <1>1
<1>3. Instruction(k) /\ Balanced(k) /\ Balanced(k + 1)
  BY <1>2 DEF Distributed
<1>4. main_pc \notin {"read", "failed"}
  BY <1>1 DEF Distributed
<1>5. program_data \in [0 .. program_len + 1 -> Byte] /\ program_len \in Nat
  BY <1>4 DEF TypeOK
<1>6. starts[k].at \in 0 .. program_len - 1
  BY <1>2, <1>3, <1>5, MarkFacts DEF Instruction
<1>7. program_data[starts[k].at] \in Byte
  BY <1>5, <1>6
<1>8. opcode_to_mode[program_data[starts[k].at]] \in Mode
  BY <1>7, ModeAssumption
<1> QED BY <1>1, <1>2, <1>3, <1>5, <1>6, <1>7, <1>8, ArgTablesFacts DEF ArgsOf

\* Balanced and Instruction hold on when bytes are appended to the opcode table.
LEMMA MarkerKeepsInstructions ==
  ASSUME IInv, NEW k \in 1 .. Len(starts), UNCHANGED <<loadVars, starts, used_opcodes>>,
         NEW m \in Byte, data' = [data EXCEPT !["o"] = Append(@, m)],
         Len(data["o"]) = Count
  PROVE  /\ Balanced(k)'
         /\ k <= Count => Instruction(k)'
<1> USE DEF IInv
<1>1. data \in [Table -> Seq(Byte)] /\ "o" \in Table
  BY DEF TypeOK, Table
<1>2. /\ \A t \in Table \ {"o"} : data'[t] = data[t]
      /\ data'["o"] = Append(data["o"], m)
  BY <1>1
<1>3. Len(starts) \in Nat /\ starts[k] \in Mark
  BY DEF TypeOK
<1>4. Balanced(k)'
  <2>1. Balanced(k)
    BY DEF Distributed
  <2>2. \A t \in Table : starts[k].cnt[t] <= Len(data'[t])
    <3> SUFFICES ASSUME NEW t \in Table PROVE starts[k].cnt[t] <= Len(data'[t])
      OBVIOUS
    <3>1. starts[k].cnt[t] \in Nat /\ Len(data[t]) \in Nat
      BY <1>1, <1>3, MarkFacts, LenFacts
    <3>2. starts[k].cnt[t] <= Len(data[t])
      BY <2>1 DEF Balanced
    <3>3. Len(data'[t]) = Len(data[t]) \/ Len(data'[t]) = Len(data[t]) + 1
      BY <1>1, <1>2
    <3> QED BY <3>1, <3>2, <3>3
  <2> QED BY <2>1, <2>2 DEF Balanced
<1>5. ASSUME k <= Count PROVE Instruction(k)'
  <2>1. k \in 1 .. Count /\ Count = Len(starts) - 1
    BY <1>3, <1>5 DEF Count
  <2>2. Instruction(k)
    BY <2>1 DEF Distributed
  <2>3. ArgsOf(k)' = ArgsOf(k)
    BY DEF ArgsOf, loadVars
  <2>4. data'["o"][k] = data["o"][k]
    BY <1>1, <1>2, <2>1
  <2>5. \A j \in 1 .. Len(ArgsOf(k)) : ArgsOf(k)[j] \in Table \ {"o"}
    BY <2>1, InstructionFacts
  <2>6. /\ starts' = starts /\ program_data' = program_data
        /\ program_len' = program_len /\ used_opcodes' = used_opcodes
    BY DEF loadVars
  <2>7. \A j \in 1 .. Len(ArgsOf(k)) : data'[ArgsOf(k)[j]] = data[ArgsOf(k)[j]]
    BY <1>2, <2>5
  <2>8. \A j \in 1 .. Len(ArgsOf(k)) :
          data'[ArgsOf(k)[j]][starts[k].cnt[ArgsOf(k)[j]] + 1] =
            program_data[starts[k].at + j]
    BY <2>2, <2>7 DEF Instruction
  <2> HIDE DEF IInv
  <2>9. /\ starts[k].at < program_len
        /\ program_data[starts[k].at] \in used_opcodes
        /\ data["o"][k] = program_data[starts[k].at]
        /\ starts[k + 1].at = starts[k].at + 1 + Len(ArgsOf(k))
        /\ Advanced(starts[k].cnt, starts[k + 1].cnt, ArgsOf(k))
    BY <2>2 DEF Instruction
  <2> QED BY <2>3, <2>4, <2>6, <2>8, <2>9 DEF Instruction
<1> QED BY <1>4, <1>5

\* PlaceEofMarker preserves the inductive invariant.
LEMMA PlaceEofMarkerHolds ==
  ASSUME IInv, PlaceEofMarker, UNCHANGED runVars
  PROVE  IInv'
<1> USE DEF IInv
<1>1. PICK m \in 0 .. PAGE :
        /\ FirstUnused(m)
        /\ eof_marker' = m
        /\ data' = IF m = PAGE THEN data
                   ELSE [data EXCEPT !["o"] = Append(@, m)]
  BY DEF PlaceEofMarker
<1>2. /\ main_pc = "split" /\ i >= program_len /\ main_pc' = "trim"
      /\ UNCHANGED <<fileVars, loadVars, i, used_opcodes, starts,
                     argtable_start, count_argtable, runVars>>
  BY DEF PlaceEofMarker
<1>3. /\ starts' = starts /\ used_opcodes' = used_opcodes /\ i' = i
      /\ program_data' = program_data /\ program_len' = program_len
      /\ UNCHANGED loadVars
  BY <1>2 DEF loadVars
<1>4. /\ Len(data["o"]) = Count /\ run = "idle"
      /\ Len(starts) \in Nat /\ Len(starts) >= 1 /\ Count = Len(starts) - 1
      /\ data \in [Table -> Seq(Byte)] /\ "o" \in Table
  <2>1. Len(data["o"]) = Count /\ Len(starts) >= 1
    BY <1>2 DEF Distributed
  <2>2. run = "idle"
    BY <1>2 DEF Retraces
  <2> QED BY <2>1, <2>2 DEF TypeOK, Count, Table
<1>5. m \notin used_opcodes
  <2>1. PAGE \notin used_opcodes
    BY ModeFacts DEF TypeOK, Byte
  <2>2. m # PAGE => m \in Byte
    BY ModeFacts DEF Byte
  <2> QED BY <1>1, <2>1, <2>2 DEF FirstUnused
<1>6. m \in Byte \/ m = PAGE
  BY ModeFacts DEF Byte
<1>7. /\ data' \in [Table -> Seq(Byte)]
      /\ \A t \in Table \ {"o"} : data'[t] = data[t]
      /\ m # PAGE => /\ data'["o"] = Append(data["o"], m)
                     /\ Len(data'["o"]) = Count + 1
                     /\ data'["o"][Count + 1] = m
      /\ m = PAGE => data' = data
  BY <1>1, <1>4, <1>6
<1>8. TypeOK'
  BY <1>1, <1>2, <1>7 DEF TypeOK, fileVars, loadVars, runVars
<1>9. Loaded'
  BY <1>2, <1>4 DEF Loaded, fileVars, loadVars
<1>10. Distributed'
  <2>1. \A k \in 1 .. Len(starts) : Balanced(k)'
    <3>1. CASE m = PAGE
      BY <1>3, <1>7, <3>1 DEF Distributed, Balanced
    <3>2. CASE m # PAGE
      BY <1>1, <1>3, <1>4, <1>6, <3>2, MarkerKeepsInstructions
    <3> QED BY <3>1, <3>2
  <2>2. \A k \in 1 .. Count : Instruction(k)'
    <3>1. CASE m = PAGE
      BY <1>3, <1>7, <3>1 DEF Distributed, Instruction, ArgsOf
    <3>2. CASE m # PAGE
      <4> SUFFICES ASSUME NEW k \in 1 .. Count PROVE Instruction(k)'
        OBVIOUS
      <4>1. k \in 1 .. Len(starts) /\ k <= Count
        BY <1>4
      <4> QED BY <1>1, <1>3, <1>4, <1>6, <3>2, <4>1, MarkerKeepsInstructions
    <3> QED BY <3>1, <3>2
  <2>3. Count' = Count /\ Last' = Last
    BY <1>3 DEF Count, Last
  <2>4. /\ starts[1].at = 0 /\ \A t \in Table : starts[1].cnt[t] = 0
        /\ Last.at = i /\ \A t \in Table \ {"o"} : Last.cnt[t] = Len(data[t])
    BY DEF Distributed
  <2>5. \A t \in Table \ {"o"} : Last.cnt[t] = Len(data'[t])
    BY <1>7, <2>4
  <2> QED BY <1>2, <1>3, <1>4, <2>1, <2>2, <2>3, <2>4, <2>5 DEF Distributed
<1>11. Marked'
  <2>1. Count' = Count
    BY <1>3 DEF Count
  <2>2. i' >= program_len'
    BY <1>2, <1>3
  <2>3. m = PAGE => Len(data'["o"]) = Count
    BY <1>4, <1>7
  <2> QED BY <1>1, <1>2, <1>3, <1>5, <1>7, <2>1, <2>2, <2>3 DEF Marked
<1>12. Retraces'
  BY <1>2, <1>4 DEF Retraces, runVars
<1> QED BY <1>8, <1>9, <1>10, <1>11, <1>12

\* Trimming preserves the inductive invariant.
LEMMA TrimHolds ==
  ASSUME IInv, TrimArgtable \/ TrimRunsWild, UNCHANGED runVars
  PROVE  IInv'
<1> USE DEF IInv
<1>1. /\ main_pc = "trim" /\ main_pc' \in {"tables", "undefined"}
      /\ UNCHANGED <<fileVars, loadVars, splitVars, eof_marker>>
      /\ UNCHANGED runVars
  BY DEF TrimArgtable, TrimRunsWild, tableVars
<1>2. run = "idle"
  BY <1>1 DEF Retraces
<1>3. /\ argtable_start' \in Nat /\ count_argtable' \in Nat
      /\ main_pc' = "undefined" => used_opcodes = {}
      /\ main_pc' = "tables" =>
           \A b \in used_opcodes :
             argtable_start' <= b /\ b < argtable_start' + count_argtable'
  <2>1. CASE TrimArgtable
    <3>1. PICK first, last \in used_opcodes :
            /\ \A b \in used_opcodes : first <= b /\ b <= last
            /\ argtable_start' = first
            /\ count_argtable' = last + 1 - first
      BY <2>1 DEF TrimArgtable
    <3>2. \A b \in used_opcodes : b \in Nat
      BY ModeFacts DEF TypeOK, Byte
    <3>3. first \in Nat /\ last \in Nat /\ first <= last
      BY <3>1, <3>2
    <3>4. count_argtable' \in Nat /\ argtable_start' + count_argtable' = last + 1
      BY <3>1, <3>3
    <3>5. \A b \in used_opcodes :
            argtable_start' <= b /\ b < argtable_start' + count_argtable'
      BY <3>1, <3>2, <3>3, <3>4
    <3>6. main_pc' # "undefined"
      BY <2>1 DEF TrimArgtable
    <3> QED BY <3>1, <3>3, <3>4, <3>5, <3>6
  <2>2. CASE TrimRunsWild
    BY <2>2 DEF TrimRunsWild, tableVars, TypeOK
  <2> QED BY <2>1, <2>2
<1>4. TypeOK'
  BY <1>1, <1>3 DEF TypeOK, fileVars, loadVars, splitVars, runVars
<1>5. Loaded'
  BY <1>1, <1>2 DEF Loaded, fileVars, loadVars
<1>6. Distributed'
  <2>1. Count' = Count /\ Last' = Last
    BY <1>1 DEF Count, Last, splitVars
  <2>2. ASSUME NEW k \in 1 .. Len(starts) PROVE Balanced(k)'
    <3>1. Balanced(k)
      BY Zenon DEF Distributed
    <3> QED BY <3>1, <1>1 DEF Balanced, splitVars
  <2>3. \A k \in 1 .. Count : Instruction(k)'
    BY <1>1 DEF Distributed, Instruction, ArgsOf, splitVars, loadVars
  <2> QED BY <1>1, <2>1, <2>2, <2>3 DEF Distributed, splitVars
<1>7. Marked'
  <2>1. Count' = Count
    BY <1>1 DEF Count, splitVars
  <2> QED BY <1>1, <1>3, <2>1 DEF Marked, splitVars, loadVars
<1>8. Retraces'
  BY <1>1, <1>2 DEF Retraces, runVars, splitVars
<1> QED BY <1>4, <1>5, <1>6, <1>7, <1>8

-----------------------------------------------------------------------------
(***************************************************************************)
(* The depacker.                                                           *)
(***************************************************************************)

\* The parts of the invariant about main do not mind the steps of the depacker.
LEMMA MainKept ==
  ASSUME IInv, UNCHANGED mainVars
  PROVE  /\ Distributed' /\ Marked'
         /\ main_pc # "read" => Loaded'
<1> USE DEF IInv
<1>1. /\ program_addr' = program_addr /\ body' = body /\ main_pc' = main_pc
      /\ program_len' = program_len /\ program_data' = program_data
      /\ i' = i /\ used_opcodes' = used_opcodes /\ data' = data
      /\ starts' = starts /\ eof_marker' = eof_marker
      /\ argtable_start' = argtable_start /\ count_argtable' = count_argtable
  BY DEF mainVars, fileVars, loadVars, splitVars, tableVars
<1>2. Count' = Count /\ Last' = Last
  BY <1>1 DEF Count, Last
<1>3. ASSUME NEW k \in 1 .. Len(starts) PROVE Balanced(k)'
  <2>1. Balanced(k)
    BY Zenon DEF Distributed
  <2> QED BY <2>1, <1>1 DEF Balanced
<1>4. \A k \in 1 .. Count : Instruction(k)'
  BY <1>1 DEF Distributed, Instruction, ArgsOf
<1>5. Distributed'
  BY <1>1, <1>2, <1>3, <1>4 DEF Distributed
<1>6. Marked'
  BY <1>1, <1>2 DEF Marked
<1>7. main_pc # "read" => Loaded'
  BY <1>1 DEF Loaded
<1> QED BY <1>5, <1>6, <1>7

\* What the depacker finds when it starts.
LEMMA TablesFacts ==
  ASSUME IInv, main_pc = "tables"
  PROVE  /\ program_len \in Nat /\ program_len = Len(body) /\ i \in Nat
         /\ program_len <= i /\ i <= program_len + 2
         /\ program_data \in [0 .. program_len + 1 -> Byte]
         /\ Len(starts) \in Nat /\ Len(starts) >= 1 /\ Count = Len(starts) - 1
         /\ Last = starts[Len(starts)] /\ Last.at = i /\ Last \in Mark
         /\ Last.cnt["o"] = Count
         /\ \A t \in Table \ {"o"} : Last.cnt[t] = Len(data[t])
         /\ data \in [Table -> Seq(Byte)]
         /\ eof_marker \notin used_opcodes
         /\ eof_marker # PAGE => /\ Len(data["o"]) = Count + 1
                                 /\ data["o"][Count + 1] = eof_marker
                                 /\ real_program_len = i + 1
         /\ eof_marker = PAGE => /\ Len(data["o"]) = Count
                                 /\ real_program_len = i
<1> USE DEF IInv
<1>1. /\ program_len \in Nat /\ i \in Nat /\ i <= program_len + 2
      /\ program_data \in [0 .. program_len + 1 -> Byte]
      /\ data \in [Table -> Seq(Byte)]
      /\ Len(starts) \in Nat /\ Count = Len(starts) - 1
      /\ starts \in Seq(Mark)
  BY DEF TypeOK, Count
<1>2. program_len = Len(body)
  BY DEF Loaded
<1>3. /\ program_len <= i /\ eof_marker \notin used_opcodes
      /\ eof_marker # PAGE => /\ Len(data["o"]) = Count + 1
                              /\ data["o"][Count + 1] = eof_marker
      /\ eof_marker = PAGE => Len(data["o"]) = Count
  BY <1>1 DEF Marked
<1>4. /\ Len(starts) >= 1 /\ Last = starts[Len(starts)] /\ Last.at = i
      /\ \A t \in Table \ {"o"} : Last.cnt[t] = Len(data[t])
  BY DEF Distributed, Last
<1>5. Last \in Mark
  BY <1>1, <1>4
<1>6. Balanced(Len(starts))
  BY <1>1, <1>4 DEF Distributed
<1>7. /\ Last.cnt["o"] = Count /\ Last.cnt["l"] = Last.cnt["h"]
      /\ i = Place(Last.cnt)
  BY <1>1, <1>4, <1>6 DEF Balanced
<1>8. /\ Len(data["l"]) = Last.cnt["l"] /\ Len(data["i"]) = Last.cnt["i"]
      /\ Len(data["r"]) = Last.cnt["r"] /\ Len(data["z"]) = Last.cnt["z"]
  BY <1>4 DEF Table
<1>9. /\ Last.cnt["o"] \in Nat /\ Last.cnt["l"] \in Nat /\ Last.cnt["i"] \in Nat
      /\ Last.cnt["r"] \in Nat /\ Last.cnt["z"] \in Nat
  BY <1>5, MarkFacts DEF Table
<1>10. i = Last.cnt["o"] + 2 * Last.cnt["l"] + Last.cnt["i"] + Last.cnt["r"]
             + Last.cnt["z"]
  BY <1>7 DEF Place
<1>11. /\ eof_marker # PAGE => real_program_len = i + 1
       /\ eof_marker = PAGE => real_program_len = i
  <2>1. real_program_len = Len(data["o"]) + 2 * Last.cnt["l"] + Last.cnt["i"]
                             + Last.cnt["r"] + Last.cnt["z"]
    BY <1>8 DEF real_program_len
  <2>2. /\ eof_marker # PAGE => Len(data["o"]) = Last.cnt["o"] + 1
        /\ eof_marker = PAGE => Len(data["o"]) = Last.cnt["o"]
    BY <1>3, <1>7
  <2>3. ASSUME NEW o \in Nat, NEW l \in Nat, NEW m \in Nat, NEW r \in Nat,
               NEW z \in Nat
        PROVE  (o + 1) + 2 * l + m + r + z = (o + 2 * l + m + r + z) + 1
    OBVIOUS
  <2>4. CASE eof_marker # PAGE
    <3>1. real_program_len =
            (Last.cnt["o"] + 1) + 2 * Last.cnt["l"] + Last.cnt["i"]
              + Last.cnt["r"] + Last.cnt["z"]
      BY <2>1, <2>2, <2>4
    <3> QED BY <1>9, <1>10, <2>3, <2>4, <3>1
  <2>5. CASE eof_marker = PAGE
    BY <1>10, <2>1, <2>2, <2>5
  <2> QED BY <2>4, <2>5
<1> QED BY <1>1, <1>2, <1>3, <1>4, <1>5, <1>7, <1>11

\* Before an instruction the depacker tells an instruction from the end.
LEMMA LoopFacts ==
  ASSUME IInv, run = "loop"
  PROVE  /\ main_pc = "tables"
         /\ taken["o"] \in Nat /\ Len(out) \in Nat
         /\ taken["o"] + 1 <= Len(starts)
         /\ AtStart(taken["o"] + 1)
         /\ taken["o"] + 1 < Len(starts) =>
              /\ taken["o"] + 1 \in 1 .. Count /\ ~AtEnd
              /\ taken["o"] < Len(data["o"])
              /\ NextOpcode = program_data[starts[taken["o"] + 1].at]
              /\ NextOpcode \in used_opcodes /\ NextOpcode # eof_marker
         /\ taken["o"] + 1 = Len(starts) =>
              /\ Len(out) = i
              /\ \A t \in Table : taken[t] = Last.cnt[t]
              /\ AtEnd <=> eof_marker = PAGE
              /\ ~AtEnd => /\ taken["o"] < Len(data["o"])
                           /\ NextOpcode = eof_marker
<1> USE DEF IInv
<1>1. main_pc = "tables"
  BY DEF Retraces
<1>2. PICK k \in Nat : k = taken["o"] + 1
  BY DEF TypeOK, Table
<1>3. /\ taken["o"] \in Nat /\ Len(out) \in Nat
  BY DEF TypeOK, Table
<1>4. /\ k \in 1 .. Len(starts) /\ AtStart(k)
  BY <1>2 DEF Retraces
<1>5. Len(starts) \in Nat /\ Count = Len(starts) - 1
  BY <1>1, TablesFacts
<1>6. ASSUME k < Len(starts)
      PROVE  /\ k \in 1 .. Count /\ ~AtEnd
             /\ taken["o"] < Len(data["o"])
             /\ NextOpcode = program_data[starts[k].at]
             /\ NextOpcode \in used_opcodes /\ NextOpcode # eof_marker
  <2>1. k \in 1 .. Count
    BY <1>4, <1>5, <1>6
  <2>2. /\ Instruction(k)
        /\ starts[k].at \in 0 .. program_len - 1
    BY <2>1, InstructionFacts
  <2>3. NextOpcode = program_data[starts[k].at] /\ NextOpcode \in used_opcodes
    BY <1>2, <2>2 DEF Instruction, NextOpcode
  <2>4. ~AtEnd
    <3>1. Len(out) = starts[k].at
      BY <1>4 DEF AtStart
    <3>2. eof_marker = PAGE => real_program_len = i
      BY <1>1, TablesFacts
    <3>3. program_len <= i /\ i \in Nat /\ program_len \in Nat
      BY <1>1, TablesFacts
    <3> QED BY <2>2, <3>1, <3>2, <3>3 DEF AtEnd
  <2>5. eof_marker \notin used_opcodes
    BY <1>1, TablesFacts
  <2>6. taken["o"] < Len(data["o"])
    <3>1. Len(data["o"]) = Count \/ Len(data["o"]) = Count + 1
      BY <1>1, TablesFacts
    <3> QED BY <1>2, <1>3, <1>5, <2>1, <3>1
  <2> QED BY <2>1, <2>3, <2>4, <2>5, <2>6
<1>7. ASSUME k = Len(starts)
      PROVE  /\ Len(out) = i
             /\ \A t \in Table : taken[t] = Last.cnt[t]
             /\ AtEnd <=> eof_marker = PAGE
             /\ ~AtEnd => /\ taken["o"] < Len(data["o"])
                          /\ NextOpcode = eof_marker
  <2>1. Last = starts[k] /\ Last.at = i
    BY <1>1, <1>7, TablesFacts
  <2>2. Len(out) = i /\ \A t \in Table : taken[t] = Last.cnt[t]
    BY <1>4, <2>1 DEF AtStart
  <2>3. AtEnd <=> eof_marker = PAGE
    BY <1>1, <2>2, TablesFacts DEF AtEnd
  <2>4. ASSUME eof_marker # PAGE
        PROVE  taken["o"] < Len(data["o"]) /\ NextOpcode = eof_marker
    <3>1. Len(data["o"]) = Count + 1 /\ data["o"][Count + 1] = eof_marker
      BY <1>1, <2>4, TablesFacts
    <3>2. k = Count + 1
      BY <1>5, <1>7
    <3> QED BY <1>2, <1>3, <3>1, <3>2 DEF NextOpcode
  <2> QED BY <2>2, <2>3, <2>4
<1> QED BY <1>1, <1>2, <1>3, <1>4, <1>5, <1>6, <1>7

\* Start and ReturnAtEnd preserve the inductive invariant.
LEMMA StartHolds ==
  ASSUME IInv, Start
  PROVE  IInv'
<1> USE DEF IInv
<1>1. /\ main_pc = "tables" /\ run = "idle" /\ run' = "loop"
      /\ UNCHANGED <<mainVars, taken, args, out>>
  BY DEF Start
<1>2. TypeOK'
  BY <1>1 DEF TypeOK, mainVars, fileVars, loadVars, splitVars, tableVars
<1>3. Distributed' /\ Marked' /\ Loaded'
  BY <1>1, MainKept
<1>4. Retraces'
  <2>1. out = <<>> /\ \A t \in Table : taken[t] = 0
    BY <1>1 DEF Retraces
  <2>2. /\ starts' = starts /\ main_pc' = "tables" /\ taken' = taken /\ out' = out
    BY <1>1 DEF mainVars, splitVars
  <2>3. /\ Len(starts) \in Nat /\ Len(starts) >= 1
        /\ starts[1].at = 0 /\ \A t \in Table : starts[1].cnt[t] = 0
    BY <1>1, TablesFacts DEF Distributed
  <2>4. taken["o"] + 1 = 1
    BY <2>1 DEF Table
  <2>5. AtStart(1)'
    BY <2>1, <2>2, <2>3 DEF AtStart
  <2>6. Len(out) = 0
    BY <2>1
  <2> QED BY <1>1, <2>2, <2>3, <2>4, <2>5, <2>6 DEF Retraces
<1> QED BY <1>2, <1>3, <1>4

LEMMA ReturnAtEndHolds ==
  ASSUME IInv, ReturnAtEnd
  PROVE  IInv'
<1> USE DEF IInv
<1>1. /\ run = "loop" /\ AtEnd /\ run' = "done"
      /\ UNCHANGED <<mainVars, taken, args, out>>
  BY DEF ReturnAtEnd
<1>2. main_pc = "tables" /\ main_pc' = "tables"
  BY <1>1, LoopFacts DEF mainVars
<1>3. TypeOK'
  BY <1>1 DEF TypeOK, mainVars, fileVars, loadVars, splitVars, tableVars
<1>4. Distributed' /\ Marked' /\ Loaded'
  BY <1>1, <1>2, MainKept
<1>5. /\ data' = data /\ i' = i /\ program_data' = program_data
      /\ taken' = taken /\ out' = out
  BY <1>1 DEF mainVars, splitVars, loadVars
<1>6. Len(out) = real_program_len /\ eof_marker = PAGE
  BY <1>1 DEF AtEnd
<1>7. \A t \in Table : taken[t] = Len(data[t])
  <2>1. Len(starts) \in Nat /\ Count = Len(starts) - 1 /\ Last.cnt["o"] = Count
    BY <1>2, TablesFacts
  <2>2. taken["o"] + 1 = Len(starts)
    BY <1>1, <2>1, LoopFacts
  <2>3. \A t \in Table : taken[t] = Last.cnt[t]
    BY <1>1, <2>2, LoopFacts
  <2>4. Len(data["o"]) = Count
    BY <1>2, <1>6, TablesFacts
  <2>5. \A t \in Table \ {"o"} : Last.cnt[t] = Len(data[t])
    BY <1>2, TablesFacts
  <2> QED BY <2>1, <2>3, <2>4, <2>5
<1>8. real_program_len' = real_program_len
  BY <1>5 DEF real_program_len
<1>9. Retraces'
  BY <1>1, <1>2, <1>5, <1>6, <1>7, <1>8 DEF Retraces
<1> QED BY <1>3, <1>4, <1>9

\* What CopyByte does, whatever the table.
LEMMA CopyByteFacts ==
  ASSUME IInv, NEW t \in Table, CopyByte(t)
  PROVE  /\ UNCHANGED mainVars
         /\ taken[t] \in Nat /\ taken' \in [Table -> Nat]
         /\ taken'[t] = taken[t] + 1
         /\ \A u \in Table : u # t => taken'[u] = taken[u]
         /\ data[t][taken[t] + 1] \in Byte
         /\ out \in Seq(Byte) /\ out' \in Seq(Byte)
         /\ Len(out) \in Nat /\ Len(out') = Len(out) + 1
         /\ out'[Len(out) + 1] = data[t][taken[t] + 1]
         /\ \A x \in 1 .. Len(out) : out'[x] = out[x]
<1>1. /\ taken \in [Table -> Nat] /\ out \in Seq(Byte)
      /\ data \in [Table -> Seq(Byte)]
  BY DEF IInv, TypeOK
<1>2. /\ taken[t] < Len(data[t])
      /\ out' = Append(out, data[t][taken[t] + 1])
      /\ taken' = [taken EXCEPT ![t] = @ + 1]
      /\ UNCHANGED mainVars
  BY DEF CopyByte
<1>3. data[t][taken[t] + 1] \in Byte
  <2>1. taken[t] \in Nat /\ data[t] \in Seq(Byte)
    BY <1>1
  <2>2. taken[t] + 1 \in 1 .. Len(data[t])
    BY <1>2, <2>1
  <2> QED BY <2>1, <2>2
<1> QED BY <1>1, <1>2, <1>3

\* TakeEofMarker preserves the inductive invariant.
LEMMA TakeEofMarkerHolds ==
  ASSUME IInv, TakeEofMarker
  PROVE  IInv'
<1> USE DEF IInv
<1>1. /\ run = "loop" /\ ~AtEnd /\ CopyByte("o") /\ NextOpcode = eof_marker
      /\ run' = "done" /\ args' = args /\ "o" \in Table
  BY DEF TakeEofMarker, Table
<1>2. /\ UNCHANGED mainVars
      /\ taken["o"] \in Nat /\ taken' \in [Table -> Nat]
      /\ taken'["o"] = taken["o"] + 1
      /\ \A u \in Table : u # "o" => taken'[u] = taken[u]
      /\ out' \in Seq(Byte)
      /\ Len(out) \in Nat /\ Len(out') = Len(out) + 1
      /\ \A x \in 1 .. Len(out) : out'[x] = out[x]
  BY <1>1, CopyByteFacts
<1>3. /\ data' = data /\ i' = i /\ program_data' = program_data
      /\ main_pc' = main_pc /\ starts' = starts /\ eof_marker' = eof_marker
  BY <1>2 DEF mainVars, splitVars, loadVars, tableVars
<1>4. main_pc = "tables"
  BY <1>1, LoopFacts
<1>5. TypeOK'
  BY <1>1, <1>2
     DEF TypeOK, mainVars, fileVars, loadVars, splitVars, tableVars
<1>6. Distributed' /\ Marked' /\ Loaded'
  BY <1>2, <1>4, MainKept
<1>7. /\ taken["o"] + 1 = Len(starts)
      /\ Len(out) = i /\ eof_marker # PAGE
      /\ \A t \in Table : taken[t] = Last.cnt[t]
  <2>1. Len(starts) \in Nat
    BY <1>4, TablesFacts
  <2>2. taken["o"] + 1 = Len(starts)
    BY <1>1, <1>2, <2>1, LoopFacts
  <2> QED BY <1>1, <2>2, LoopFacts
<1>8. real_program_len = i + 1 /\ i \in Nat
  BY <1>4, <1>7, TablesFacts
<1>9. \A t \in Table : taken'[t] = Len(data[t])
  <2>1. /\ Last.cnt["o"] = Count /\ Len(data["o"]) = Count + 1
        /\ \A t \in Table \ {"o"} : Last.cnt[t] = Len(data[t])
    BY <1>4, <1>7, TablesFacts
  <2> QED BY <1>2, <1>7, <2>1, <1>1
<1>10. real_program_len' = real_program_len
  BY <1>3 DEF real_program_len
<1>11. \A k \in 1 .. Len(out') : k <= i => out'[k] = program_data[k - 1]
  <2>1. \A k \in 1 .. Len(out) : k <= i => out[k] = program_data[k - 1]
    BY DEF Retraces
  <2> QED BY <1>2, <1>7, <1>8, <2>1
<1>12. Retraces'
  <2>1. Len(out') = real_program_len'
    BY <1>2, <1>7, <1>8, <1>10
  <2> QED BY <1>1, <1>3, <1>4, <1>9, <1>11, <2>1 DEF Retraces
<1> QED BY <1>5, <1>6, <1>12

\* Behind instruction k the depacker is at the start of the next one.
LEMMA NextStart ==
  ASSUME IInv, NEW k \in 1 .. Count, NEW tk \in [Table -> Nat], NEW n \in Nat,
         Advanced(starts[k].cnt, tk, ArgsOf(k)),
         n = starts[k].at + 1 + Len(ArgsOf(k))
  PROVE  /\ tk["o"] = k
         /\ n = starts[k + 1].at
         /\ \A t \in Table : tk[t] = starts[k + 1].cnt[t]
<1>1. /\ Instruction(k) /\ Balanced(k)
      /\ starts[k] \in Mark /\ starts[k + 1] \in Mark
  BY InstructionFacts
<1>2. /\ starts[k + 1].at = starts[k].at + 1 + Len(ArgsOf(k))
      /\ Advanced(starts[k].cnt, starts[k + 1].cnt, ArgsOf(k))
  BY <1>1 DEF Instruction
<1>3. \A t \in Table : tk[t] = starts[k + 1].cnt[t]
  BY <1>2 DEF Advanced
<1>4. tk["o"] = starts[k].cnt["o"] + 1
  BY DEF Advanced, Table
<1>5. starts[k].cnt["o"] = k - 1
  BY <1>1 DEF Balanced
<1> QED BY <1>2, <1>3, <1>4, <1>5

\* TakeInstruction preserves the inductive invariant.
LEMMA TakeInstructionHolds ==
  ASSUME IInv, TakeInstruction
  PROVE  IInv'
<1> USE DEF IInv
<1>1. /\ run = "loop" /\ ~AtEnd /\ CopyByte("o") /\ NextOpcode # eof_marker
      /\ args' = ArgTables(data_argtable[NextOpcode])
      /\ run' = IF args' = <<>> THEN "loop" ELSE "copy"
      /\ "o" \in Table
  BY DEF TakeInstruction, Table
<1>2. /\ UNCHANGED mainVars
      /\ taken["o"] \in Nat /\ taken' \in [Table -> Nat]
      /\ taken'["o"] = taken["o"] + 1
      /\ \A u \in Table : u # "o" => taken'[u] = taken[u]
      /\ out' \in Seq(Byte)
      /\ Len(out) \in Nat /\ Len(out') = Len(out) + 1
      /\ out'[Len(out) + 1] = data["o"][taken["o"] + 1]
      /\ \A x \in 1 .. Len(out) : out'[x] = out[x]
  BY <1>1, CopyByteFacts
<1>3. /\ i' = i /\ program_data' = program_data
      /\ main_pc' = main_pc /\ starts' = starts
  BY <1>2 DEF mainVars, splitVars, loadVars
<1>4. PICK k \in Nat : k = taken["o"] + 1
  BY <1>2
<1>5. main_pc = "tables" /\ AtStart(k)
  BY <1>1, <1>4, LoopFacts
<1>6. /\ k \in 1 .. Count
      /\ NextOpcode = program_data[starts[k].at] /\ NextOpcode \in used_opcodes
  <2>1. k < Len(starts)
    <3>1. Len(starts) \in Nat /\ k <= Len(starts)
      BY <1>1, <1>4, <1>5, LoopFacts, TablesFacts
    <3>2. k # Len(starts)
      BY <1>1, <1>4, LoopFacts
    <3> QED BY <3>1, <3>2
  <2> QED BY <1>1, <1>4, <2>1, LoopFacts
<1>7. args' = ArgsOf(k) /\ args' \in Seq(Table)
  <2>1. NextOpcode \in Byte /\ opcode_to_mode[NextOpcode] \in Mode
    BY <1>6, InstructionFacts
  <2>2. data_argtable[NextOpcode] = opcode_to_mode[NextOpcode] % PAGE
    BY <1>6, <2>1 DEF data_argtable
  <2>3. args' = ArgTables(opcode_to_mode[NextOpcode])
    BY <1>1, <2>1, <2>2, LowByteKeepsArgTables
  <2>4. ArgsOf(k) \in Seq(Table)
    BY <1>6, InstructionFacts
  <2> QED BY <1>6, <2>3, <2>4 DEF ArgsOf
<1>8. /\ starts[k] \in Mark /\ Instruction(k) /\ Balanced(k)
      /\ starts[k].at \in Nat /\ starts[k].at < program_len
      /\ program_len <= i /\ i \in Nat /\ program_len \in Nat
      /\ Len(ArgsOf(k)) \in Nat
      /\ Len(starts) \in Nat /\ Count = Len(starts) - 1
  BY <1>5, <1>6, InstructionFacts, TablesFacts, MarkFacts
<1>9. Len(out) = starts[k].at /\ \A t \in Table : taken[t] = starts[k].cnt[t]
  BY <1>5 DEF AtStart
<1>10. TypeOK'
  BY <1>1, <1>2, <1>7
     DEF TypeOK, mainVars, fileVars, loadVars, splitVars, tableVars
<1>11. Distributed' /\ Marked' /\ Loaded'
  BY <1>2, <1>5, MainKept
<1>12. \A x \in 1 .. Len(out') : x <= i => out'[x] = program_data[x - 1]
  <2>1. \A x \in 1 .. Len(out) : x <= i => out[x] = program_data[x - 1]
    BY DEF Retraces
  <2>2. out'[Len(out) + 1] = program_data[Len(out)]
    BY <1>2, <1>6, <1>9 DEF NextOpcode
  <2>3. (Len(out) + 1) - 1 = Len(out)
    BY <1>2
  <2> QED BY <1>2, <2>1, <2>2, <2>3
<1>13. Advanced(starts[k].cnt, taken', <<>>)
  <2>1. \A t \in Table : ~ \E j \in 1 .. Len(<<>>) : <<>>[j] = t
    OBVIOUS
  <2>2. \A t \in Table : taken'[t] = IF t = "o" THEN starts[k].cnt[t] + 1
                                     ELSE starts[k].cnt[t]
    BY <1>1, <1>2, <1>9
  <2> QED BY <2>1, <2>2 DEF Advanced
<1>14. ArgsOf(k)' = ArgsOf(k)
  BY <1>3 DEF ArgsOf
<1>15. CASE args' = <<>>
  <2>1. Len(args') = 0
    BY <1>15
  <2>2. Len(out') = starts[k].at + 1 + Len(ArgsOf(k)) /\ Len(out') \in Nat
    BY <1>2, <1>7, <1>8, <1>9, <2>1
  <2>3. /\ taken'["o"] = k /\ Len(out') = starts[k + 1].at
        /\ \A t \in Table : taken'[t] = starts[k + 1].cnt[t]
    <3>1. Advanced(starts[k].cnt, taken', ArgsOf(k))
      BY <1>7, <1>13, <1>15
    <3>2. taken' \in [Table -> Nat]
      BY <1>2
    <3> HIDE DEF IInv
    <3> QED BY <1>6, <2>2, <3>1, <3>2, NextStart
  <2>4. AtStart(k + 1)'
    BY <1>3, <2>3 DEF AtStart
  <2>5. k + 1 \in 1 .. Len(starts)
    BY <1>6, <1>8
  <2>6. run' = "loop"
    BY <1>1, <1>15
  <2>7. Retraces'
    BY <1>3, <1>5, <1>12, <2>3, <2>4, <2>5, <2>6 DEF Retraces
  <2> QED BY <1>10, <1>11, <2>7
<1>16. CASE args' # <<>>
  <2>1. Len(args') \in 1 .. Len(ArgsOf(k)) /\ Len(args') = Len(ArgsOf(k))
    BY <1>7, <1>8, <1>16
  <2>2. SubSeq(ArgsOf(k), 1, 0) = <<>>
    OBVIOUS
  <2>3. WithinInstruction(k)'
    <3>1. Len(ArgsOf(k)) - Len(args') = 0
      BY <1>8, <2>1
    <3>2. \A x \in 1 .. Len(args') : args'[x] = ArgsOf(k)[0 + x]
      BY <1>7
    <3>3. Len(out') = starts'[k].at + 1 + 0
      BY <1>2, <1>3, <1>8, <1>9
    <3>4. Advanced(starts'[k].cnt, taken', SubSeq(ArgsOf(k), 1, 0))
      BY <1>3, <1>13, <2>2
    <3> QED BY <1>14, <2>1, <3>1, <3>2, <3>3, <3>4 DEF WithinInstruction
  <2>4. taken'["o"] = k /\ run' = "copy"
    BY <1>1, <1>2, <1>4, <1>16
  <2>5. Count' = Count
    BY <1>3 DEF Count
  <2>6. Retraces'
    BY <1>3, <1>5, <1>6, <1>12, <2>3, <2>4, <2>5 DEF Retraces
  <2> QED BY <1>10, <1>11, <2>6
<1> QED BY <1>15, <1>16

\* An interval and the next number.
LEMMA IntervalSucc ==
  ASSUME NEW j \in Nat
  PROVE  1 .. j + 1 = (1 .. j) \cup {j + 1}
  OBVIOUS

\* One argument more: the next byte is that of the instruction, and the tables
\* advance by the table of that argument.
LEMMA AdvancedMore ==
  ASSUME NEW ts \in Seq(Table \ {"o"}), NEW j \in Nat, j < Len(ts),
         Len(ts) \in Nat, Len(ts) <= 2,
         \A x, y \in 1 .. Len(ts) : ts[x] = ts[y] => x = y,
         NEW c \in [Table -> Nat], NEW d \in [Table -> Nat],
         NEW e \in [Table -> Nat],
         Advanced(c, d, SubSeq(ts, 1, j)),
         e[ts[j + 1]] = d[ts[j + 1]] + 1,
         \A t \in Table : t # ts[j + 1] => e[t] = d[t]
  PROVE  /\ d[ts[j + 1]] = c[ts[j + 1]]
         /\ Advanced(c, e, SubSeq(ts, 1, j + 1))
<1>1. j + 1 \in 1 .. Len(ts) /\ ts[j + 1] \in Table \ {"o"}
  OBVIOUS
<1>2. /\ Len(SubSeq(ts, 1, j)) = j
      /\ \A x \in 1 .. j : SubSeq(ts, 1, j)[x] = ts[x]
  OBVIOUS
<1>3. /\ Len(SubSeq(ts, 1, j + 1)) = j + 1
      /\ \A x \in 1 .. j + 1 : SubSeq(ts, 1, j + 1)[x] = ts[x]
  OBVIOUS
<1>4. \A t \in Table : d[t] = IF t = "o" \/ \E x \in 1 .. j : ts[x] = t
                              THEN c[t] + 1 ELSE c[t]
  BY <1>2 DEF Advanced
<1>5. d[ts[j + 1]] = c[ts[j + 1]]
  <2>1. ~ \E x \in 1 .. j : ts[x] = ts[j + 1]
    <3> SUFFICES ASSUME NEW x \in 1 .. j, ts[x] = ts[j + 1] PROVE FALSE
      OBVIOUS
    <3>1. x \in 1 .. Len(ts) /\ x # j + 1
      BY <1>1
    <3> QED BY <1>1, <3>1
  <2> QED BY <1>1, <1>4, <2>1
<1>6. \A t \in Table : e[t] = IF t = "o" \/ \E x \in 1 .. j + 1 : ts[x] = t
                              THEN c[t] + 1 ELSE c[t]
  <2> SUFFICES ASSUME NEW t \in Table
               PROVE  e[t] = IF t = "o" \/ \E x \in 1 .. j + 1 : ts[x] = t
                             THEN c[t] + 1 ELSE c[t]
    OBVIOUS
  <2>1. CASE t = ts[j + 1]
    BY <1>1, <1>5, <2>1
  <2>2. CASE t # ts[j + 1]
    <3>1. 1 .. j + 1 = (1 .. j) \cup {j + 1}
      BY ONLY IntervalSucc, j \in Nat
    <3>2. (\E x \in 1 .. j + 1 : ts[x] = t) <=> \E x \in 1 .. j : ts[x] = t
      BY <2>2, <3>1
    <3> QED BY <1>4, <2>2, <3>2
  <2> QED BY <2>1, <2>2
<1>7. Advanced(c, e, SubSeq(ts, 1, j + 1))
  BY <1>3, <1>6, SMTT(30) DEF Advanced
<1> QED BY <1>5, <1>7

\* CopyArgument preserves the inductive invariant.
LEMMA CopyArgumentHolds ==
  ASSUME IInv, CopyArgument
  PROVE  IInv'
<1> USE DEF IInv
<1>0. main_pc = "tables" /\ run = "copy"
  BY DEF CopyArgument, Retraces
<1>1. PICK k \in Nat : k = taken["o"]
  BY DEF TypeOK, Table
<1>2. k \in 1 .. Count /\ WithinInstruction(k)
  BY <1>0, <1>1 DEF Retraces
<1>3. PICK ts : ts = ArgsOf(k)
  OBVIOUS
<1>4. /\ ts \in Seq(Table \ {"o"}) /\ Len(ts) \in Nat /\ Len(ts) <= 2
      /\ \A x, y \in 1 .. Len(ts) : ts[x] = ts[y] => x = y
      /\ starts[k] \in Mark /\ starts[k].at \in Nat
      /\ starts[k].cnt \in [Table -> Nat]
      /\ Instruction(k)
      /\ Len(starts) \in Nat /\ Count = Len(starts) - 1
  BY <1>2, <1>3, InstructionFacts, MarkFacts
<1>5. /\ Len(args) \in Nat /\ Len(args) >= 1 /\ Len(args) <= Len(ts)
      /\ args \in Seq(Table)
  <2>1. args \in Seq(Table) /\ Len(args) \in Nat
    BY DEF TypeOK
  <2> QED BY <1>2, <1>3, <1>4, <2>1 DEF WithinInstruction
<1>51. PICK n \in Nat, m \in Nat : n = Len(ts) /\ m = Len(args) /\ 1 <= m /\ m <= n
  BY <1>4, <1>5
<1>52. 1 <= m /\ m <= n
  BY <1>51
<1>6. PICK j \in Nat : j = n - m
  <2>1. n - m \in Nat
    BY <1>52
  <2> QED BY <2>1
<1>61. j < n /\ j + 1 \in 1 .. Len(ts)
  BY <1>51, <1>6
<1>63. m - 1 \in Nat /\ (m - 1 = 0 => j + 1 = n) /\ n - (m - 1) = j + 1
  BY <1>52, <1>6
<1>62. Len(ts) - Len(args) = j
  BY <1>51, <1>6
<1>7. /\ \A x \in 1 .. Len(args) : args[x] = ts[j + x]
      /\ Len(out) = starts[k].at + 1 + j
      /\ Advanced(starts[k].cnt, taken, SubSeq(ts, 1, j))
  BY <1>2, <1>3, <1>62 DEF WithinInstruction
<1>8. PICK t \in Table : t = args[1] /\ t = ts[j + 1] /\ t # "o"
  <2>1. args[1] \in Table /\ args[1] = ts[j + 1]
    BY <1>5, <1>7
  <2> QED BY <1>4, <1>61, <2>1
<1>9. /\ CopyByte(t) /\ args' = Tail(args)
      /\ run' = IF args' = <<>> THEN "loop" ELSE "copy"
  <2>1. args \in Seq(Table) /\ args # <<>>
    BY <1>5
  <2>2. args[1] = t
    BY <1>8
  <2>3. Head(args) = t
    BY <2>1, <2>2
  <2> QED BY <2>3 DEF CopyArgument
<1>10. /\ UNCHANGED mainVars
       /\ taken[t] \in Nat /\ taken' \in [Table -> Nat]
       /\ taken'[t] = taken[t] + 1
       /\ \A u \in Table : u # t => taken'[u] = taken[u]
       /\ out' \in Seq(Byte)
       /\ Len(out) \in Nat /\ Len(out') = Len(out) + 1
       /\ out'[Len(out) + 1] = data[t][taken[t] + 1]
       /\ \A x \in 1 .. Len(out) : out'[x] = out[x]
  BY <1>9, CopyByteFacts
<1>11. /\ i' = i /\ program_data' = program_data
       /\ main_pc' = main_pc /\ starts' = starts
  BY <1>10 DEF mainVars, splitVars, loadVars
<1>12. /\ taken[t] = starts[k].cnt[t]
       /\ Advanced(starts[k].cnt, taken', SubSeq(ts, 1, j + 1))
  <2>1. taken \in [Table -> Nat]
    BY DEF TypeOK
  <2>2. j < Len(ts)
    BY <1>51, <1>61
  <2>3. /\ taken'[ts[j + 1]] = taken[ts[j + 1]] + 1
        /\ \A u \in Table : u # ts[j + 1] => taken'[u] = taken[u]
        /\ taken' \in [Table -> Nat]
    BY <1>8, <1>10
  <2> DEFINE c == starts[k].cnt
             d == taken
             e == taken'
  <2>4. /\ c \in [Table -> Nat] /\ d \in [Table -> Nat] /\ e \in [Table -> Nat]
        /\ Advanced(c, d, SubSeq(ts, 1, j))
        /\ e[ts[j + 1]] = d[ts[j + 1]] + 1
        /\ \A u \in Table : u # ts[j + 1] => e[u] = d[u]
    BY <1>4, <1>7, <2>1, <2>3
  <2> HIDE DEF IInv, c, d, e
  <2>5. /\ ts \in Seq(Table \ {"o"}) /\ Len(ts) \in Nat /\ Len(ts) <= 2
        /\ \A x, y \in 1 .. Len(ts) : ts[x] = ts[y] => x = y
    BY <1>4
  <2>6. d[ts[j + 1]] = c[ts[j + 1]] /\ Advanced(c, e, SubSeq(ts, 1, j + 1))
    BY ONLY <2>2, <2>4, <2>5, j \in Nat, AdvancedMore, ZenonT(90)
  <2> QED BY <1>8, <2>6 DEF c, d, e
<1>13. data[t][taken[t] + 1] = program_data[starts[k].at + (j + 1)]
  BY <1>3, <1>4, <1>8, <1>12, <1>61, SMTT(30) DEF Instruction
<1>14. /\ args' \in Seq(Table) /\ Len(args') = Len(args) - 1
       /\ \A x \in 1 .. Len(args') : args'[x] = args[x + 1]
  BY <1>5, <1>9
<1>15. TypeOK'
  BY <1>9, <1>10, <1>14
     DEF TypeOK, mainVars, fileVars, loadVars, splitVars, tableVars
<1>16. Distributed' /\ Marked' /\ Loaded'
  BY <1>0, <1>10, MainKept
<1>17. \A x \in 1 .. Len(out') : x <= i => out'[x] = program_data[x - 1]
  <2>1. \A x \in 1 .. Len(out) : x <= i => out[x] = program_data[x - 1]
    BY DEF Retraces
  <2>2. (Len(out) + 1) - 1 = starts[k].at + (j + 1)
    <3>1. PICK at \in Nat, x \in Nat : at = starts[k].at /\ x = Len(out)
      BY <1>4, <1>10
    <3>2. x = at + 1 + j
      BY <1>7, <3>1
    <3> QED BY ONLY <3>1, <3>2, j \in Nat
  <2>3. out'[Len(out) + 1] = program_data[(Len(out) + 1) - 1]
    BY <1>10, <1>13, <2>2
  <2> QED BY <1>10, <2>1, <2>3
<1>18. taken'["o"] = k
  BY <1>1, <1>8, <1>10 DEF Table
<1>19. CASE args' = <<>>
  <2>1. j + 1 = Len(ts)
    <3>1. Len(args') = 0
      BY <1>19
    <3>2. Len(args') = m - 1
      BY <1>14, <1>51
    <3>3. j + 1 = n
      BY <1>63, <3>1, <3>2
    <3> QED BY <1>51, <3>3
  <2>2. SubSeq(ts, 1, j + 1) = ts
    BY <1>4, <2>1
  <2>3. Advanced(starts[k].cnt, taken', ArgsOf(k))
    BY <1>3, <1>12, <2>2
  <2>4. Len(out') = starts[k].at + 1 + Len(ArgsOf(k)) /\ Len(out') \in Nat
    <3>1. PICK at \in Nat : at = starts[k].at
      BY <1>4
    <3>2. PICK x \in Nat, y \in Nat : x = Len(out) /\ y = Len(out')
      BY <1>10
    <3>3. /\ starts[k].at \in Nat /\ Len(out) = starts[k].at + 1 + j
          /\ Len(out') = Len(out) + 1 /\ Len(ArgsOf(k)) = j + 1
      BY ONLY <1>3, <1>4, <1>7, <1>10, <2>1
    <3>4. x = at + 1 + j /\ y = x + 1
      BY <3>1, <3>2, <3>3
    <3>5. y = at + 1 + (j + 1)
      BY ONLY <3>4, at \in Nat, x \in Nat, y \in Nat, j \in Nat
    <3> QED BY <3>1, <3>2, <3>3, <3>5
  <2>5. /\ Len(out') = starts[k + 1].at
        /\ \A u \in Table : taken'[u] = starts[k + 1].cnt[u]
    <3> HIDE DEF IInv
    <3> QED BY <1>2, <1>10, <2>3, <2>4, NextStart
  <2>6. AtStart(k + 1)'
    BY <1>11, <2>5 DEF AtStart
  <2>7. k + 1 \in 1 .. Len(starts)
    BY <1>2, <1>4
  <2>8. run' = "loop"
    BY <1>9, <1>19
  <2>9. Retraces'
    BY <1>0, <1>11, <1>17, <1>18, <2>6, <2>7, <2>8 DEF Retraces
  <2> QED BY <1>15, <1>16, <2>9
<1>20. CASE args' # <<>>
  <2>1. Len(args') \in Nat /\ Len(args') >= 1 /\ Len(args') <= Len(ts)
    BY <1>4, <1>5, <1>14, <1>20
  <2>2. Len(ts) - Len(args') = j + 1
    <3>1. Len(args') = m - 1 /\ Len(ts) = n
      BY <1>14, <1>51
    <3> QED BY <1>63, <3>1
  <2>3. ArgsOf(k)' = ts
    BY <1>3, <1>11 DEF ArgsOf
  <2>4. \A x \in 1 .. Len(args') : args'[x] = ts[(j + 1) + x]
    <3> SUFFICES ASSUME NEW x \in 1 .. Len(args') PROVE args'[x] = ts[(j + 1) + x]
      OBVIOUS
    <3>1. x + 1 \in 1 .. Len(args) /\ j + (x + 1) = (j + 1) + x
      BY <1>5, <1>14
    <3> QED BY <1>7, <1>14, <3>1
  <2>5. Len(out') = starts'[k].at + 1 + (j + 1)
    <3>1. /\ starts[k].at \in Nat /\ Len(out) = starts[k].at + 1 + j
          /\ Len(out) \in Nat /\ Len(out') = Len(out) + 1
      BY <1>4, <1>7, <1>10
    <3> HIDE DEF IInv
    <3>2. PICK a \in Nat : a = starts[k].at
      BY <3>1
    <3>3. PICK b \in Nat : b = Len(out)
      BY <3>1
    <3>4. b = a + 1 + j /\ Len(out') = b + 1
      BY <3>1, <3>2, <3>3
    <3>5. j \in Nat
      BY <1>4
    <3>6. b + 1 = a + 1 + (j + 1)
      <4>1. b = a + 1 + j
        BY <3>4
      <4> QED BY ONLY <4>1, a \in Nat, b \in Nat, j \in Nat
    <3> QED BY <1>11, <3>2, <3>4, <3>6
  <2>6. Advanced(starts'[k].cnt, taken', SubSeq(ts, 1, j + 1))
    BY <1>11, <1>12
  <2>7. WithinInstruction(k)'
    BY <1>4, <2>1, <2>2, <2>3, <2>4, <2>5, <2>6 DEF WithinInstruction
  <2>8. run' = "copy" /\ Count' = Count
    BY <1>9, <1>11, <1>20 DEF Count
  <2>9. Retraces'
    BY <1>0, <1>2, <1>11, <1>17, <1>18, <2>7, <2>8 DEF Retraces
  <2> QED BY <1>15, <1>16, <2>9
<1> QED BY <1>19, <1>20

-----------------------------------------------------------------------------
(***************************************************************************)
(* The inductive invariant.                                                *)
(***************************************************************************)

\* Nothing happens: the invariant stays.
LEMMA StutterHolds ==
  ASSUME IInv, UNCHANGED uvars
  PROVE  IInv'
<1>1. /\ UNCHANGED mainVars /\ UNCHANGED runVars
      /\ program_addr' = program_addr /\ body' = body /\ main_pc' = main_pc
      /\ program_len' = program_len /\ program_data' = program_data
      /\ i' = i /\ used_opcodes' = used_opcodes /\ data' = data
      /\ starts' = starts /\ eof_marker' = eof_marker
      /\ argtable_start' = argtable_start /\ count_argtable' = count_argtable
      /\ run' = run /\ taken' = taken /\ args' = args /\ out' = out
  BY DEF uvars, mainVars, fileVars, loadVars, splitVars, tableVars, runVars
<1>2. TypeOK'
  BY <1>1 DEF IInv, TypeOK
<1>3. Loaded'
  BY <1>1 DEF IInv, Loaded
<1>4. Distributed' /\ Marked'
  BY <1>1, MainKept
<1>5. Retraces'
  <2>1. real_program_len' = real_program_len /\ Count' = Count
    BY <1>1 DEF real_program_len, Count
  <2>2. \A k \in Nat : AtStart(k)' <=> AtStart(k)
    BY <1>1 DEF AtStart
  <2>3. \A k \in Nat : WithinInstruction(k)' <=> WithinInstruction(k)
    BY <1>1 DEF WithinInstruction, ArgsOf, Advanced
  <2>4. PICK n \in Nat : n = taken["o"]
    BY DEF IInv, TypeOK, Table
  <2>5. run = "loop" => n + 1 \in 1 .. Len(starts) /\ AtStart(n + 1)'
    BY <2>2, <2>4 DEF IInv, Retraces
  <2>6. run = "copy" => n \in 1 .. Count /\ WithinInstruction(n)'
    BY <2>3, <2>4 DEF IInv, Retraces
  <2>7. taken'["o"] = n
    BY <1>1, <2>4
  <2>8. /\ Len(out') = Len(out)
        /\ \A k \in 1 .. Len(out') : k <= i' => out'[k] = program_data'[k - 1]
        /\ run' # "idle" => main_pc' = "tables"
        /\ run' = "idle" => out' = <<>> /\ \A t \in Table : taken'[t] = 0
        /\ run' = "done" => /\ Len(out') = real_program_len'
                            /\ \A t \in Table : taken'[t] = Len(data'[t])
    BY <1>1, <2>1 DEF IInv, Retraces
  <2> QED BY <1>1, <2>1, <2>5, <2>6, <2>7, <2>8 DEF Retraces
<1> QED BY <1>2, <1>3, <1>4, <1>5 DEF IInv

\* A step of main preserves the inductive invariant.
LEMMA MainHolds ==
  ASSUME IInv, NextMain, UNCHANGED runVars
  PROVE  IInv'
<1>1. CASE ReadProgram
  BY <1>1, ReadProgramHolds
<1>2. CASE SplitNone
  BY <1>2, SplitNoneHolds
<1>3. CASE SplitOne("i", MODEimm)
  BY <1>3, SplitOneHolds
<1>4. CASE SplitOne("r", MODErel)
  BY <1>4, SplitOneHolds
<1>5. CASE SplitOne("z", MODEzp)
  BY <1>5, SplitOneHolds
<1>6. CASE SplitAbs
  BY <1>6, SplitAbsHolds
<1>7. CASE PlaceEofMarker
  BY <1>7, PlaceEofMarkerHolds
<1>8. CASE TrimArgtable \/ TrimRunsWild
  BY <1>8, TrimHolds
<1>9. CASE ReadFails
  BY <1>9, ReadFailsHolds
<1> QED BY <1>9, <1>1, <1>2, <1>3, <1>4, <1>5, <1>6, <1>7, <1>8 DEF NextMain

\* A step of the depacker preserves the inductive invariant.
LEMMA RunHolds ==
  ASSUME IInv, NextRun
  PROVE  IInv'
<1>1. CASE Start
  BY <1>1, StartHolds
<1>2. CASE ReturnAtEnd
  BY <1>2, ReturnAtEndHolds
<1>3. CASE TakeEofMarker
  BY <1>3, TakeEofMarkerHolds
<1>4. CASE TakeInstruction
  BY <1>4, TakeInstructionHolds
<1>5. CASE CopyArgument
  BY <1>5, CopyArgumentHolds
<1> QED BY <1>1, <1>2, <1>3, <1>4, <1>5 DEF NextRun

\* The inductive invariant holds in every reachable state: the tables are the
\* program, cut at the starts of its instructions, and the depacker is always
\* where the split loop once was.
THEOREM Invariance == Spec => []IInv
<1>1. Init => IInv
  BY InitHolds
<1>2. IInv /\ [Next]_uvars => IInv'
  <2> SUFFICES ASSUME IInv, [Next]_uvars PROVE IInv'
    OBVIOUS
  <2>1. CASE NextMain /\ UNCHANGED runVars
    BY <2>1, MainHolds
  <2>2. CASE NextRun
    BY <2>2, RunHolds
  <2>3. CASE Terminated
    BY <2>3, StutterHolds DEF Terminated
  <2>4. CASE UNCHANGED uvars
    BY <2>4, StutterHolds
  <2> QED BY <2>1, <2>2, <2>3, <2>4 DEF Next
<1> QED BY <1>1, <1>2, PTL DEF Spec

\* Every variable keeps its type: the arrays of main hold bytes, and the
\* position of the split loop is at most two behind the program.
THEOREM TypeCorrect == Spec => []TypeOK
<1>1. IInv => TypeOK
  BY DEF IInv
<1> QED BY <1>1, Invariance, PTL

-----------------------------------------------------------------------------
(***************************************************************************)
(* The safety properties.                                                  *)
(***************************************************************************)

\* The bytes written so far are the bytes of the program.
LEMMA PrefixHolds == IInv => OutIsPrefix
<1> SUFFICES ASSUME IInv, NEW k \in 1 .. Len(out), k <= Len(body)
             PROVE  out[k] = body[k]
  BY DEF OutIsPrefix
<1>1. k \in Nat /\ k >= 1 /\ run # "idle"
  BY DEF IInv, TypeOK, Retraces
<1>2. main_pc = "tables"
  BY <1>1 DEF IInv, Retraces
<1>3. program_len = Len(body) /\ program_len <= i /\ i \in Nat /\ program_len \in Nat
  BY <1>2, TablesFacts
<1>4. out[k] = program_data[k - 1]
  BY <1>1, <1>3 DEF IInv, Retraces
<1>5. k - 1 \in 0 .. program_len - 1 /\ (k - 1) + 1 = k
  BY <1>1, <1>3
<1>6. \A x \in 0 .. program_len - 1 : program_data[x] = body[x + 1]
  BY <1>2 DEF IInv, Loaded
<1>7. program_data[k - 1] = body[(k - 1) + 1]
  BY <1>5, <1>6
<1> QED BY <1>4, <1>5, <1>7

\* What the depacker writes agrees with the program at every moment.
THEOREM PrefixCorrect == Spec => []OutIsPrefix
  BY PrefixHolds, Invariance, PTL

\* At the end, the program is there and a few bytes behind it.
LEMMA ExtractsHolds == IInv => ExtractsAll
<1> SUFFICES ASSUME IInv, run = "done"
             PROVE  /\ Len(out) = real_program_len
                    /\ Len(body) <= Len(out) /\ Len(out) <= Len(body) + 3
  BY DEF ExtractsAll
<1>1. main_pc = "tables" /\ Len(out) = real_program_len
  BY DEF IInv, Retraces
<1>2. /\ program_len = Len(body) /\ program_len \in Nat /\ i \in Nat
      /\ program_len <= i /\ i <= program_len + 2
      /\ real_program_len = i + 1 \/ real_program_len = i
  BY <1>1, TablesFacts
<1> QED BY <1>1, <1>2

\* When the depacker returns it has written the whole program, and at most
\* three bytes behind it.
THEOREM ExtractionCorrect == Spec => []ExtractsAll
  BY ExtractsHolds, Invariance, PTL

\* The k-th byte of the opcode table is a used opcode or the end marker.
LEMMA OpcodeTable ==
  ASSUME IInv, main_pc \in {"trim", "tables"}, NEW k \in 1 .. Len(data["o"])
  PROVE  \/ k \in 1 .. Count /\ data["o"][k] \in used_opcodes
         \/ data["o"][k] = eof_marker /\ k = Len(data["o"])
<1>1. /\ data["o"] \in Seq(Byte) /\ Len(data["o"]) \in Nat
      /\ Len(starts) \in Nat /\ Count \in Int /\ Count = Len(starts) - 1
  BY SMTT(30) DEF IInv, TypeOK, Count, Table
<1>2. /\ eof_marker # PAGE => /\ Len(data["o"]) = Count + 1
                              /\ data["o"][Count + 1] = eof_marker
      /\ eof_marker = PAGE => Len(data["o"]) = Count
  BY DEF IInv, Marked
<1>3. CASE k <= Count
  <2>1. k \in 1 .. Count
    BY <1>1, <1>3
  <2>2. Instruction(k)
    BY <2>1, InstructionFacts
  <2> QED BY <2>1, <2>2 DEF Instruction
<1>4. CASE k > Count
  BY <1>1, <1>2, <1>4
<1> QED BY <1>1, <1>3, <1>4

\* No opcode of the program is taken for the end marker.
THEOREM MarkerCorrect == Spec => []MarkerOnlyAtEnd
<1>1. IInv => MarkerOnlyAtEnd
  <2> SUFFICES ASSUME IInv, main_pc \in {"trim", "tables"},
                      NEW k \in 1 .. Len(data["o"]), data["o"][k] = eof_marker
               PROVE  k = Len(data["o"])
    BY DEF MarkerOnlyAtEnd
  <2>1. eof_marker \notin used_opcodes
    BY DEF IInv, Marked
  <2> QED BY <2>1, OpcodeTable
<1> QED BY <1>1, Invariance, PTL

\* The used opcodes lie in the trimmed argument table.
LEMMA LookupHolds == IInv => LookupInArgtable
<1> SUFFICES ASSUME IInv, main_pc = "tables",
                    NEW k \in 1 .. Len(data["o"]), data["o"][k] # eof_marker
             PROVE  /\ argtable_start <= data["o"][k]
                    /\ data["o"][k] < argtable_start + count_argtable
  BY DEF LookupInArgtable
<1>1. data["o"][k] \in used_opcodes
  BY OpcodeTable
<1> QED BY <1>1 DEF IInv, Marked

\* Trimming the argument table leaves every opcode the depacker looks up.
THEOREM LookupCorrect == Spec => []LookupInArgtable
  BY LookupHolds, Invariance, PTL

\* The scans that trim the argument table run out of used_opcodes only when
\* the file has no program.
THEOREM WildOnlyWhenEmpty == Spec => []WildOnlyIfEmpty
<1>1. IInv => WildOnlyIfEmpty
  <2> SUFFICES ASSUME IInv, main_pc = "undefined" PROVE body = <<>>
    BY DEF WildOnlyIfEmpty
  <2>1. used_opcodes = {} /\ i >= program_len
    BY DEF IInv, Marked
  <2>2. ~ (1 \in 1 .. Count)
    <3> SUFFICES ASSUME 1 \in 1 .. Count PROVE FALSE
      OBVIOUS
    <3>1. Instruction(1)
      BY InstructionFacts
    <3> QED BY <2>1, <3>1 DEF Instruction
  <2>3. Len(starts) \in Nat /\ Len(starts) >= 1 /\ Count = Len(starts) - 1
    BY DEF IInv, TypeOK, Distributed, Count
  <2>4. Len(starts) = 1
    BY <2>2, <2>3
  <2>5. i = 0
    BY <2>4 DEF IInv, Distributed, Last
  <2>6. program_len = Len(body) /\ program_len \in Nat /\ body \in Seq(Byte)
    BY DEF IInv, Loaded, TypeOK
  <2>7. Len(body) = 0
    BY <2>1, <2>5, <2>6
  <2> QED BY <2>6, <2>7
<1> QED BY <1>1, Invariance, PTL

\* The tables fit into arrays of the size of the program buffer, and the split
\* loop does not read behind it.
THEOREM BuffersSuffice == Spec => []StaysInBuffers
<1>1. IInv => StaysInBuffers
  <2> SUFFICES ASSUME IInv, main_pc \in {"split", "trim", "tables"}
               PROVE  /\ i < program_len =>
                           i + Len(ArgTables(OpcodeMode)) < MAX_PRG_SIZE
                      /\ \A t \in Table : Len(data[t]) <= MAX_PRG_SIZE
    BY DEF StaysInBuffers
  <2>1. /\ program_len \in Nat /\ i \in Nat /\ i <= program_len + 2
        /\ program_data \in [0 .. program_len + 1 -> Byte]
        /\ data \in [Table -> Seq(Byte)]
        /\ Len(starts) \in Nat /\ Len(starts) >= 1
        /\ Count = Len(starts) - 1 /\ Last = starts[Len(starts)]
        /\ starts \in Seq(Mark)
    BY DEF IInv, TypeOK, Distributed, Count, Last
  <2>2. /\ program_len < MAX_PRG_SIZE - MARGIN
        /\ MAX_PRG_SIZE \in Nat /\ MARGIN \in Nat /\ 2 <= MARGIN
    BY SizeAssumption DEF IInv, Loaded
  <2>3. ASSUME i < program_len
        PROVE  i + Len(ArgTables(OpcodeMode)) < MAX_PRG_SIZE
    <3>1. i \in 0 .. program_len + 1
      BY <2>1, <2>3
    <3>2. Opcode \in Byte
      BY <2>1, <3>1 DEF Opcode
    <3>3. OpcodeMode \in Mode
      BY <3>2, ModeAssumption DEF OpcodeMode
    <3>4. PICK n \in Nat : n = Len(ArgTables(OpcodeMode)) /\ n <= 2
      BY <3>3, ArgTablesFacts
    <3>5. i + n < MAX_PRG_SIZE
      BY <2>1, <2>2, <2>3, <3>4
    <3> QED BY <3>4, <3>5
  <2>4. \A t \in Table : Len(data[t]) <= MAX_PRG_SIZE
    <3>1. /\ Balanced(Len(starts)) /\ Last.at = i /\ Last \in Mark
          /\ \A t \in Table \ {"o"} : Last.cnt[t] = Len(data[t])
      BY <2>1 DEF IInv, Distributed
    <3>2. /\ Last.cnt["o"] = Count /\ Last.cnt["l"] = Last.cnt["h"]
          /\ i = Place(Last.cnt)
      BY <2>1, <3>1 DEF Balanced
    <3>3. PICK o \in Nat, l \in Nat, m \in Nat, r \in Nat, z \in Nat :
            /\ o = Last.cnt["o"] /\ l = Last.cnt["l"] /\ m = Last.cnt["i"]
            /\ r = Last.cnt["r"] /\ z = Last.cnt["z"]
      BY <3>1, MarkFacts DEF Table
    <3>4. i = o + 2 * l + m + r + z
      BY <3>2, <3>3 DEF Place
    <3>5. Len(data["o"]) = o \/ Len(data["o"]) = o + 1
      <4>1. main_pc = "split" => Len(data["o"]) = Count
        BY DEF IInv, Distributed
      <4>2. main_pc # "split" => \/ Len(data["o"]) = Count
                                 \/ Len(data["o"]) = Count + 1
        BY DEF IInv, Marked
      <4> QED BY <3>2, <3>3, <4>1, <4>2
    <3>6. /\ Len(data["l"]) = l /\ Len(data["h"]) = l /\ Len(data["i"]) = m
          /\ Len(data["r"]) = r /\ Len(data["z"]) = z
      BY <3>1, <3>2, <3>3 DEF Table
    <3>7. /\ o + 1 <= MAX_PRG_SIZE /\ l <= MAX_PRG_SIZE /\ m <= MAX_PRG_SIZE
          /\ r <= MAX_PRG_SIZE /\ z <= MAX_PRG_SIZE /\ o <= MAX_PRG_SIZE
      <4>1. i + 1 <= MAX_PRG_SIZE
        BY <2>1, <2>2
      <4> QED BY <2>1, <2>2, <3>4, <4>1
    <3> QED BY <3>5, <3>6, <3>7 DEF Table
  <2> QED BY <2>3, <2>4
<1> QED BY <1>1, Invariance, PTL

\* Splitting a program that is not empty reads and writes inside the arrays.
THEOREM BoundsCorrect == Spec => []InBounds
<1>1. StaysInBuffers /\ WildOnlyIfEmpty => InBounds
  BY DEF InBounds
<1> QED BY <1>1, BuffersSuffice, WildOnlyWhenEmpty, PTL

\* Within instruction k, the next argument is in its table.
LEMMA NextArgument ==
  ASSUME IInv, run = "copy"
  PROVE  /\ Head(args) \in Table
         /\ taken[Head(args)] < Len(data[Head(args)])
<1>1. PICK k \in Nat : k = taken["o"]
  BY DEF IInv, TypeOK, Table
<1>2. k \in 1 .. Count /\ WithinInstruction(k)
  BY <1>1 DEF IInv, Retraces
<1>3. PICK ts : ts = ArgsOf(k)
  OBVIOUS
<1>4. /\ ts \in Seq(Table \ {"o"}) /\ Len(ts) \in Nat /\ Len(ts) <= 2
      /\ \A x, y \in 1 .. Len(ts) : ts[x] = ts[y] => x = y
      /\ starts[k].cnt \in [Table -> Nat]
      /\ starts[k + 1].cnt \in [Table -> Nat]
      /\ Instruction(k) /\ Balanced(k + 1)
  BY <1>2, <1>3, InstructionFacts, MarkFacts
<1>5. PICK n \in Nat, m \in Nat : n = Len(ts) /\ m = Len(args)
  BY <1>4 DEF IInv, TypeOK
<1>6. 1 <= m /\ m <= n /\ args \in Seq(Table)
  BY <1>2, <1>3, <1>5 DEF WithinInstruction, IInv, TypeOK
<1>7. PICK j \in Nat : j = n - m
  <2>1. n - m \in Nat
    BY <1>6
  <2> QED BY <2>1
<1>8. j < n /\ j + 1 \in 1 .. n /\ n - m = j
  BY <1>6, <1>7
<1>9. /\ \A x \in 1 .. m : args[x] = ts[j + x]
      /\ Advanced(starts[k].cnt, taken, SubSeq(ts, 1, j))
  BY <1>2, <1>3, <1>5, <1>8 DEF WithinInstruction
<1>10. PICK t : t = ts[j + 1]
  OBVIOUS
<1>11. Head(args) = t /\ t \in Table \ {"o"}
  <2>1. 1 \in 1 .. m /\ Head(args) = args[1]
    BY <1>5, <1>6
  <2>2. args[1] = ts[j + 1]
    BY <1>9, <2>1
  <2>3. ts[j + 1] \in Table \ {"o"}
    BY <1>4, <1>5, <1>8
  <2> QED BY <1>10, <2>1, <2>2, <2>3
<1>12. taken[t] = starts[k].cnt[t]
  <2>1. /\ Len(SubSeq(ts, 1, j)) = j
        /\ \A x \in 1 .. j : SubSeq(ts, 1, j)[x] = ts[x]
    BY <1>4, <1>5, <1>8
  <2>2. ~ \E x \in 1 .. j : ts[x] = t
    <3> SUFFICES ASSUME NEW x \in 1 .. j, ts[x] = t PROVE FALSE
      OBVIOUS
    <3>1. x \in 1 .. Len(ts) /\ x # j + 1
      BY <1>5, <1>8
    <3> QED BY <1>4, <1>5, <1>8, <1>10, <3>1
  <2> QED BY <1>9, <1>11, <2>1, <2>2 DEF Advanced
<1>13. starts[k + 1].cnt[t] = starts[k].cnt[t] + 1
  <2>1. Advanced(starts[k].cnt, starts[k + 1].cnt, ts)
    BY <1>3, <1>4 DEF Instruction
  <2> QED BY <1>5, <1>8, <1>10, <1>11, <2>1 DEF Advanced
<1>14. starts[k + 1].cnt[t] <= Len(data[t])
  BY <1>4, <1>11 DEF Balanced
<1>15. starts[k].cnt[t] \in Nat /\ Len(data[t]) \in Nat
  <2>1. data \in [Table -> Seq(Byte)]
    BY DEF IInv, TypeOK
  <2> QED BY <1>4, <1>11, <2>1, LenFacts
<1>16. taken[t] < Len(data[t])
  BY <1>12, <1>13, <1>14, <1>15
<1> QED BY <1>11, <1>16

\* The next byte is in its table.
LEMMA UnderrunHolds == IInv => NoUnderrun
<1> SUFFICES ASSUME IInv PROVE NoUnderrun
  OBVIOUS
<1>1. run = "loop" /\ ~AtEnd => taken["o"] < Len(data["o"])
  <2> SUFFICES ASSUME run = "loop", ~AtEnd PROVE taken["o"] < Len(data["o"])
    OBVIOUS
  <2>1. Len(starts) \in Nat /\ taken["o"] \in Nat
    BY DEF IInv, TypeOK, Table
  <2>2. taken["o"] + 1 < Len(starts) \/ taken["o"] + 1 = Len(starts)
    BY <2>1, LoopFacts
  <2> QED BY <2>2, LoopFacts
<1>2. run = "copy" => taken[Head(args)] < Len(data[Head(args)])
  BY NextArgument
<1>3. run = "done" => \A t \in Table : taken[t] = Len(data[t])
  BY DEF IInv, Retraces
<1> QED BY <1>1, <1>2, <1>3 DEF NoUnderrun

\* The depacker never takes a byte from behind a table, and takes all of them.
THEOREM NoTableUnderrun == Spec => []NoUnderrun
  BY UnderrunHolds, Invariance, PTL

-----------------------------------------------------------------------------
(***************************************************************************)
(* The refinement: every step of the two programs is a step of the promise *)
(* or leaves what it talks about alone.                                    *)
(***************************************************************************)

\* No instruction starts behind the place where the split loop stopped.
LEMMA StartsBounded ==
  ASSUME IInv, main_pc = "tables", NEW k \in 1 .. Len(starts)
  PROVE  starts[k].at \in Nat /\ starts[k].at <= i
<1>1. /\ program_len \in Nat /\ i \in Nat /\ program_len <= i
      /\ Len(starts) \in Nat /\ Count = Len(starts) - 1
      /\ Last = starts[Len(starts)] /\ Last.at = i
  BY TablesFacts
<1>2. CASE k <= Count
  <2>1. k \in 1 .. Count
    BY <1>1, <1>2
  <2>2. starts[k].at \in 0 .. program_len - 1
    BY <2>1, InstructionFacts
  <2> QED BY <1>1, <2>2
<1>3. CASE k > Count
  BY <1>1, <1>3
<1> QED BY <1>1, <1>2, <1>3

\* The depacker has not written more than the split loop has read; within an
\* instruction it has written less.
LEMMA OutWithin ==
  ASSUME IInv, run \in {"loop", "copy"}
  PROVE  /\ main_pc = "tables" /\ Len(out) \in Nat /\ i \in Nat
         /\ Len(out) <= i
         /\ run = "copy" => Len(out) < i
<1>1. main_pc = "tables"
  BY DEF IInv, Retraces
<1>2. /\ i \in Nat /\ program_len \in Nat /\ Len(out) \in Nat /\ taken["o"] \in Nat
  BY <1>1, TablesFacts DEF IInv, TypeOK, Table
<1>3. CASE run = "loop"
  <2>1. PICK k \in 1 .. Len(starts) : Len(out) = starts[k].at
    BY <1>3 DEF IInv, Retraces, AtStart
  <2>2. Len(out) <= i
    BY <1>1, <2>1, StartsBounded
  <2> QED BY <1>1, <1>2, <1>3, <2>2
<1>4. CASE run = "copy"
  <2>1. PICK k \in 1 .. Count : WithinInstruction(k)
    BY <1>4 DEF IInv, Retraces
  <2>2. /\ k + 1 \in 1 .. Len(starts) /\ Instruction(k)
        /\ Len(ArgsOf(k)) \in Nat /\ starts[k].at \in 0 .. program_len - 1
    BY <2>1, InstructionFacts
  <2>3. PICK a \in Nat, n \in Nat, m \in Nat :
          /\ a = starts[k].at /\ n = Len(ArgsOf(k)) /\ m = Len(args)
    BY <2>2 DEF IInv, TypeOK
  <2>4. m <= n /\ 1 <= m /\ Len(out) = a + 1 + (n - m)
    BY <2>1, <2>3 DEF WithinInstruction
  <2>5. starts[k + 1].at = a + 1 + n
    BY <2>2, <2>3 DEF Instruction
  <2>6. a + 1 + n <= i
    BY <1>1, <2>2, <2>5, StartsBounded
  <2>7. a + 1 + (n - m) < i
    BY <1>2, <2>4, <2>6
  <2> QED BY <1>1, <1>2, <2>4, <2>7
<1> QED BY <1>3, <1>4

\* The depacker writes at most three bytes behind the program.
LEMMA OutBounded ==
  IInv /\ main_pc = "tables" =>
    Len(out) \in Nat /\ Len(body) \in Nat /\ Len(out) <= Len(body) + 3
<1> SUFFICES ASSUME IInv, main_pc = "tables"
             PROVE  /\ Len(out) \in Nat /\ Len(body) \in Nat
                    /\ Len(out) <= Len(body) + 3
  OBVIOUS
<1>1. /\ Len(body) \in Nat /\ i \in Nat /\ i <= Len(body) + 2
      /\ real_program_len = i + 1 \/ real_program_len = i
  BY TablesFacts
<1>2. Len(out) \in Nat
  BY DEF IInv, TypeOK
<1>3. CASE run = "idle"
  BY <1>1, <1>3 DEF IInv, Retraces
<1>4. CASE run \in {"loop", "copy"}
  BY <1>1, <1>2, <1>4, OutWithin
<1>5. CASE run = "done"
  <2>1. Len(out) = real_program_len
    BY <1>5 DEF IInv, Retraces
  <2> QED BY <1>1, <1>2, <2>1
<1>6. run \in {"idle", "loop", "copy", "done"}
  BY DEF IInv, TypeOK
<1> QED BY <1>1, <1>2, <1>3, <1>4, <1>5, <1>6

\* What somebody who runs the depacker by other means may rely on: room for the
\* next byte, and with an end marker for another one.
LEMMA RunFacts ==
  ASSUME IInv
  PROVE  /\ run # "idle" => main_pc = "tables"
         /\ taken \in [Table -> Nat] /\ out \in Seq(Byte)
         /\ NoUnderrun /\ OutIsPrefix /\ ExtractsAll /\ LookupInArgtable
         /\ run \in {"loop", "copy"} =>
              /\ real_program_len \in Nat /\ Len(out) <= real_program_len
              /\ run = "copy" \/ eof_marker # PAGE => Len(out) < real_program_len
<1>1. ASSUME run \in {"loop", "copy"}
      PROVE  /\ real_program_len \in Nat /\ Len(out) <= real_program_len
             /\ run = "copy" \/ eof_marker # PAGE => Len(out) < real_program_len
  <2>1. /\ main_pc = "tables" /\ Len(out) \in Nat /\ i \in Nat
        /\ Len(out) <= i
        /\ run = "copy" => Len(out) < i
    BY <1>1, OutWithin
  <2>2. /\ eof_marker # PAGE => real_program_len = i + 1
        /\ eof_marker = PAGE => real_program_len = i
    BY <2>1, TablesFacts
  <2> QED BY <2>1, <2>2
<1>2. run # "idle" => main_pc = "tables"
  BY DEF IInv, Retraces
<1>3. taken \in [Table -> Nat] /\ out \in Seq(Byte)
  BY DEF IInv, TypeOK
<1> QED BY <1>1, <1>2, <1>3, UnderrunHolds, PrefixHolds, ExtractsHolds, LookupHolds

\* A byte that is written is the next one of the program, or lies behind it.
LEMMA ByteRefines ==
  ASSUME IInv, IInv', main_pc = "tables", run # "done",
         NEW t \in Table, CopyByte(t)
  PROVE  \E b \in Byte :
           /\ out' = Append(out, b) /\ body' = body
           /\ Len(out) \in Nat /\ Len(body) \in Nat
           /\ Len(out) < Len(body) => b = body[Len(out) + 1]
           /\ Len(out) < Len(body) + 3
<1>1. PICK b : b = data[t][taken[t] + 1]
  OBVIOUS
<1>2. b \in Byte
  <2>1. data[t] \in Seq(Byte) /\ taken[t] \in Nat /\ taken[t] < Len(data[t])
    BY DEF IInv, TypeOK, CopyByte
  <2> QED BY <1>1, <2>1
<1>3. /\ out' = Append(out, b) /\ body' = body /\ main_pc' = main_pc
      /\ out \in Seq(Byte) /\ Len(out) \in Nat
  BY <1>1 DEF CopyByte, mainVars, fileVars, IInv, TypeOK
<1>4. Len(body) \in Nat
  BY OutBounded
<1>5. Len(out') = Len(out) + 1 /\ out'[Len(out) + 1] = b
  BY <1>2, <1>3
<1>6. Len(out') <= Len(body') + 3
  <2>1. main_pc' = "tables"
    BY <1>3
  <2>2. (IInv /\ main_pc = "tables")'
    BY <2>1
  <2>3. (Len(out) \in Nat /\ Len(body) \in Nat /\ Len(out) <= Len(body) + 3)'
    BY <2>2, OutBounded, PTL
  <2> QED BY <2>3
<1>7. Len(out) < Len(body) => b = body[Len(out) + 1]
  <2>1. OutIsPrefix'
    BY PrefixHolds, PTL
  <2>2. \A k \in 1 .. Len(out') : k <= Len(body') => out'[k] = body'[k]
    BY <2>1 DEF OutIsPrefix
  <2> QED BY <1>3, <1>4, <1>5, <2>2
<1> QED BY <1>2, <1>3, <1>4, <1>5, <1>6, <1>7

\* A step of the depacker is a step of the promise, or leaves it alone.
LEMMA RunRefines ==
  ASSUME IInv, IInv', NextRun
  PROVE  [Promise!Next]_<<body, out, run = "done">>
<1> USE DEF Promise!Next
<1>1. CASE Start
  BY <1>1 DEF Start, mainVars, fileVars
<1>2. CASE ReturnAtEnd
  <2>1. run = "loop" /\ run' = "done" /\ body' = body /\ out' = out /\ AtEnd
    BY <1>2 DEF ReturnAtEnd, mainVars, fileVars
  <2>2. main_pc = "tables"
    BY <2>1 DEF IInv, Retraces
  <2>3. Len(body) <= Len(out)
    BY <2>1, <2>2, TablesFacts DEF AtEnd
  <2> QED BY <2>1, <2>3 DEF Promise!Finish
<1>3. CASE TakeEofMarker
  <2>1. /\ run = "loop" /\ ~AtEnd /\ CopyByte("o") /\ "o" \in Table
        /\ NextOpcode = eof_marker /\ run' = "done"
    BY <1>3 DEF TakeEofMarker, Table
  <2>2. main_pc = "tables" /\ taken["o"] \in Nat /\ Len(starts) \in Nat
    BY <2>1, TablesFacts DEF IInv, Retraces, TypeOK, Table
  <2>3. Len(out) = i
    BY <2>1, <2>2, LoopFacts
  <2>4. Len(body) <= Len(out)
    BY <2>2, <2>3, TablesFacts
  <2>5. PICK b \in Byte : /\ out' = Append(out, b) /\ body' = body
                          /\ Len(out) < Len(body) + 3
    BY <2>1, <2>2, ByteRefines
  <2>6. Promise!TrashAndFinish(b)
    BY <2>1, <2>4, <2>5 DEF Promise!TrashAndFinish
  <2> QED BY <2>6
<1>4. CASE TakeInstruction \/ CopyArgument
  <2>1. /\ run # "done" /\ run' # "done" /\ main_pc = "tables"
        /\ \E t \in Table : CopyByte(t)
    BY <1>4, NextArgument
       DEF TakeInstruction, CopyArgument, IInv, Retraces, Table
  <2>2. PICK t \in Table : CopyByte(t)
    BY <2>1
  <2>3. PICK b \in Byte :
          /\ out' = Append(out, b) /\ body' = body
          /\ Len(out) \in Nat /\ Len(body) \in Nat
          /\ Len(out) < Len(body) => b = body[Len(out) + 1]
          /\ Len(out) < Len(body) + 3
    BY <2>1, <2>2, ByteRefines
  <2>4. CASE Len(out) < Len(body)
    BY <2>1, <2>3, <2>4 DEF Promise!Emit
  <2>5. CASE Len(body) <= Len(out)
    <3>1. Promise!Trash(b)
      BY <2>1, <2>3, <2>5 DEF Promise!Trash
    <3> QED BY <3>1
  <2> QED BY <2>3, <2>4, <2>5
<1> QED BY <1>1, <1>2, <1>3, <1>4 DEF NextRun

\* A step of main leaves what the promise talks about alone.
LEMMA MainStutters ==
  ASSUME NextMain, UNCHANGED runVars
  PROVE  UNCHANGED <<body, out, run = "done">>
<1>1. body' = body
  BY DEF NextMain, ReadProgram, ReadFails, SplitNone, SplitOne, SplitAbs, TakeOpcode,
         PlaceEofMarker, TrimArgtable, TrimRunsWild, fileVars
<1> QED BY <1>1 DEF runVars

\* Splitting a program and running the depacker implements the promise: the
\* program appears byte by byte, complete and in order, and no more than three
\* bytes behind it are trashed.
THEOREM ImplementsPromise == Spec => Extracts
<1>1. Init => Promise!Init
  <2> SUFFICES ASSUME Init PROVE Promise!Init
    OBVIOUS
  <2>1. body \in Seq(Byte) /\ out = <<>> /\ run = "idle"
    BY FileAssumption DEF Init, InitMain, InitRun
  <2> QED BY <2>1 DEF Promise!Init
<1>2. IInv /\ IInv' /\ [Next]_uvars
        => [Promise!Next]_<<body, out, run = "done">>
  <2> SUFFICES ASSUME IInv, IInv', [Next]_uvars
               PROVE  [Promise!Next]_<<body, out, run = "done">>
    OBVIOUS
  <2>1. CASE NextMain /\ UNCHANGED runVars
    BY <2>1, MainStutters
  <2>2. CASE NextRun
    BY <2>2, RunRefines
  <2>3. CASE UNCHANGED uvars
    BY <2>3 DEF uvars, mainVars, fileVars, runVars
  <2> QED BY <2>1, <2>2, <2>3 DEF Next, Terminated
<1> QED BY <1>1, <1>2, Invariance, PTL DEF Spec, Extracts, Promise!Spec, Promise!evars
=============================================================================
