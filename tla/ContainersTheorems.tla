------------------------- MODULE ContainersTheorems -------------------------
(***************************************************************************)
(* Theorems about modules Vec, ChunkPool, Membuf, and Containers.          *)
(*                                                                         *)
(* Of vectors, for every set of elements and every length: the binary      *)
(* search tells the truth, the flag means order, and a vector implements   *)
(* the set of module KeySet.                                               *)
(*                                                                         *)
(* Of chunk pools, for every size of the elements and the chunks and every *)
(* number of chunks: the elements never share a byte, the callback gets    *)
(* each of them once, the last first, and no chunk is lost.                *)
(*                                                                         *)
(* Of memory buffers, for every width of an int and every content: the     *)
(* doubling overflows for no length that there is a size for, and through  *)
(* all reallocations and moves of memory a buffer is the sequence of bytes *)
(* of ByteString.                                                          *)
(***************************************************************************)
EXTENDS Containers, SequenceTheorems, TLAPS

-----------------------------------------------------------------------------
(***************************************************************************)
(* Vectors.                                                                *)
(***************************************************************************)

\* The invariant of the search: what is in front of lo is less, what is behind
\* hi is greater, and nothing was looked for without the flag.
Narrowed ==
  find_pc = "search" =>
    /\ sorted
    /\ \A i \in 1 .. Len(items) : i <= lo => items[i] < in
    /\ \A i \in 1 .. Len(items) : i > hi + 1 => items[i] > in

\* There is room for what will be inserted.
Room == find_pc # "idle" /\ use = "insert" => Len(items) < MAX_COUNT

VecInv == VecTypeOK /\ FlagMeansOrder /\ Narrowed /\ FindTells /\ Room

-----------------------------------------------------------------------------
(***************************************************************************)
(* What the operators on sequences give.                                   *)
(***************************************************************************)
LEMMA InsertedElements ==
  ASSUME items \in Seq(Key), NEW k \in Key, NEW index \in 0 .. Len(items)
  PROVE  /\ Inserted(index, k) \in Seq(Key)
         /\ Len(Inserted(index, k)) = Len(items) + 1
         /\ \A i \in 1 .. Len(items) + 1 :
              Inserted(index, k)[i] = IF i <= index THEN items[i]
                                      ELSE IF i = index + 1 THEN k
                                      ELSE items[i - 1]
<1> DEFINE front == SubSeq(items, 1, index)
           back == SubSeq(items, index + 1, Len(items))
<1>1. Len(items) \in Nat /\ index \in Nat
  BY LenProperties
<1>a. \A i \in 1 .. Len(items) : items[i] \in Key
  BY ElementOfSeq
<1>2. front \in Seq(Key) /\ Len(front) = index /\ \A i \in 1 .. index : front[i] = items[i]
  <2>1. \A i \in 1 .. index : items[i] \in Key
    BY <1>1, <1>a
  <2>2. /\ front \in Seq(Key)
        /\ Len(front) = IF 1 <= index THEN index - 1 + 1 ELSE 0
        /\ \A i \in 1 .. index - 1 + 1 : front[i] = items[1 + i - 1]
    BY <1>1, <2>1, SubSeqProperties
  <2> HIDE DEF front
  <2> QED BY <2>2, <1>1
<1>3. back \in Seq(Key) /\ Len(back) = Len(items) - index
      /\ \A i \in 1 .. Len(items) - index : back[i] = items[index + i]
  <2>1. \A i \in index + 1 .. Len(items) : items[i] \in Key
    BY <1>1, <1>a
  <2>2. index + 1 \in Int /\ Len(items) \in Int
    BY <1>1
  <2>3. /\ back \in Seq(Key)
        /\ Len(back) = IF index + 1 <= Len(items) THEN Len(items) - (index + 1) + 1 ELSE 0
        /\ \A i \in 1 .. Len(items) - (index + 1) + 1 : back[i] = items[index + 1 + i - 1]
    BY <2>1, <2>2, SubSeqProperties
  <2> HIDE DEF back
  <2> QED BY <2>3, <1>1
<1>4. <<k>> \in Seq(Key) /\ Len(<<k>>) = 1 /\ <<k>>[1] = k
  OBVIOUS
<1> HIDE DEF front, back
<1> DEFINE head == front \o <<k>>
           all == head \o back
<1>5. /\ head \in Seq(Key)
      /\ Len(head) = index + 1
      /\ \A i \in 1 .. index + 1 : head[i] = IF i <= index THEN items[i] ELSE k
  BY <1>1, <1>2, <1>4, ConcatProperties
<1> HIDE DEF head
<1>6. /\ all \in Seq(Key)
      /\ Len(all) = Len(items) + 1
      /\ \A i \in 1 .. Len(items) + 1 :
           all[i] = IF i <= index + 1 THEN head[i] ELSE back[i - (index + 1)]
  <2>1. /\ all \in Seq(Key)
        /\ Len(all) = Len(head) + Len(back)
        /\ \A i \in 1 .. Len(head) + Len(back) :
             all[i] = IF i <= Len(head) THEN head[i] ELSE back[i - Len(head)]
    BY <1>3, <1>5, ConcatProperties
  <2> HIDE DEF all
  <2> QED BY <2>1, <1>1, <1>3, <1>5
<1> HIDE DEF all
<1>7. ASSUME NEW i \in 1 .. Len(items) + 1
      PROVE  all[i] = IF i <= index THEN items[i]
                      ELSE IF i = index + 1 THEN k
                      ELSE items[i - 1]
  <2>1. CASE i <= index + 1
    <3>1. i \in 1 .. index + 1
      BY <2>1, <1>1
    <3>2. all[i] = head[i]
      BY <2>1, <1>6
    <3>3. head[i] = IF i <= index THEN items[i] ELSE k
      BY <3>1, <1>5
    <3> QED BY <3>1, <3>2, <3>3, <1>1
  <2>2. CASE i > index + 1
    <3>1. i - (index + 1) \in 1 .. Len(items) - index
      BY <2>2, <1>1
    <3>2. back[i - (index + 1)] = items[index + (i - (index + 1))]
      BY <3>1, <1>3
    <3>3. index + (i - (index + 1)) = i - 1
      BY <1>1
    <3>4. all[i] = back[i - (index + 1)]
      BY <2>2, <1>1, <1>6
    <3> QED BY <2>2, <3>2, <3>3, <3>4, <1>1
  <2> QED BY <2>1, <2>2, <1>1
<1> QED BY <1>6, <1>7 DEF Inserted, front, back, head, all

LEMMA VecElements ==
  ASSUME items \in Seq(Key)
  PROVE  Len(items) \in Nat /\ \A i \in 1 .. Len(items) : items[i] \in Key /\ items[i] \in Int
BY LenProperties, ElementOfSeq, KeyAssumption

\* The place compared with is within the bounds.
LEMMA NextWithin ==
  ASSUME VecTypeOK, find_pc = "search", lo <= hi
  PROVE  /\ next \in Nat /\ lo <= next /\ next <= hi
         /\ next + 1 \in 1 .. Len(items)
<1>1. lo \in Int /\ hi \in Int /\ 0 <= lo /\ hi < Len(items) /\ Len(items) \in Nat
  BY VecElements DEF VecTypeOK
<1> QED BY <1>1 DEF next

-----------------------------------------------------------------------------
(***************************************************************************)
(* The invariant.                                                          *)
(***************************************************************************)
LEMMA VecInitInvariant == VecInit => VecInv
<1> SUFFICES ASSUME VecInit PROVE VecInv
  OBVIOUS
<1>1. items = <<>> /\ items \in Seq(Key) /\ Len(items) = 0
  BY EmptySeq DEF VecInit
<1> QED BY <1>1, CountAssumption
        DEF VecInit, VecInv, VecTypeOK, FlagMeansOrder, Ordered, Narrowed, FindTells, Room

\* Insertion where the search ended keeps the order.
LEMMA InsertKeepsOrder ==
  ASSUME VecInv, find_pc = "found", pos < -1
  PROVE  /\ -(pos + 2) \in 0 .. Len(items)
         /\ sorted
         /\ Inserted(-(pos + 2), in) \in Seq(Key)
         /\ Len(Inserted(-(pos + 2), in)) = Len(items) + 1
         /\ Ordered(Inserted(-(pos + 2), in))
<1> DEFINE at == -(pos + 2)
           now == Inserted(at, in)
<1>1. Len(items) \in Nat /\ \A i \in 1 .. Len(items) : items[i] \in Int
  BY VecElements DEF VecInv, VecTypeOK
<1>2. pos \in Int /\ in \in Key /\ in \in Int /\ items \in Seq(Key)
  BY KeyAssumption DEF VecInv, VecTypeOK, pos
<1>3. /\ at \in 0 .. Len(items)
      /\ sorted
      /\ \A i \in 1 .. Len(items) : /\ i <= at => items[i] < in
                                    /\ i > at => items[i] > in
  BY <1>1, <1>2 DEF VecInv, FindTells
<1>4. \A i, j \in 1 .. Len(items) : i < j => items[i] <= items[j]
  BY <1>3 DEF VecInv, FlagMeansOrder, Ordered
<1> HIDE DEF at
<1>5. /\ now \in Seq(Key) /\ Len(now) = Len(items) + 1
      /\ \A i \in 1 .. Len(items) + 1 :
           now[i] = IF i <= at THEN items[i] ELSE IF i = at + 1 THEN in ELSE items[i - 1]
  BY <1>2, <1>3, InsertedElements
<1> HIDE DEF now
<1>6. ASSUME NEW i \in 1 .. Len(now), NEW j \in 1 .. Len(now), i < j
      PROVE  now[i] <= now[j]
  <2>1. /\ now[i] = IF i <= at THEN items[i] ELSE IF i = at + 1 THEN in ELSE items[i - 1]
        /\ now[j] = IF j <= at THEN items[j] ELSE IF j = at + 1 THEN in ELSE items[j - 1]
    BY <1>5
  <2>2. at \in Int /\ i \in Int /\ j \in Int /\ at <= Len(items) /\ 0 <= at
    BY <1>1, <1>3
  <2>3. CASE j <= at
    BY <2>1, <2>2, <2>3, <1>6, <1>1, <1>4, <1>5
  <2>4. CASE j = at + 1
    <3>1. i <= at /\ i \in 1 .. Len(items)
      BY <2>4, <2>2, <1>6, <1>1
    <3>2. items[i] < in /\ items[i] \in Int
      BY <3>1, <1>3, <1>1
    <3> QED BY <2>1, <2>2, <2>4, <3>1, <3>2, <1>2
  <2>5. CASE j > at + 1
    <3>1. j - 1 > at /\ j - 1 \in 1 .. Len(items) /\ ~(j <= at) /\ j # at + 1
      BY <2>5, <2>2, <1>5, <1>1
    <3>2. now[j] = items[j - 1] /\ items[j - 1] > in /\ items[j - 1] \in Int
      BY <3>1, <2>1, <1>3, <1>1
    <3>3. CASE i <= at
      <4>1. i \in 1 .. Len(items) /\ i < j - 1
        BY <3>3, <3>1, <2>2, <1>1, <1>5
      <4> QED BY <4>1, <3>1, <3>2, <3>3, <2>1, <1>4
    <3>4. CASE i = at + 1
      <4>1. now[i] = in
        BY <3>4, <2>1, <2>2
      <4> QED BY <4>1, <3>2, <1>2
    <3>5. CASE i > at + 1
      <4>1. i - 1 \in 1 .. Len(items) /\ i - 1 < j - 1 /\ now[i] = items[i - 1]
        BY <3>5, <2>1, <2>2, <1>1, <1>5, <1>6
      <4> QED BY <4>1, <3>1, <3>2, <1>4
    <3> QED BY <3>3, <3>4, <3>5, <2>2
  <2> QED BY <2>3, <2>4, <2>5, <2>2
<1>7. Ordered(now)
  BY <1>6 DEF Ordered
<1> QED BY <1>3, <1>5, <1>7 DEF at, now

LEMMA RearrangedElements ==
  ASSUME items \in Seq(Key), NEW s \in Rearranged(items)
  PROVE  /\ s \in Seq(Key)
         /\ Len(s) = Len(items)
         /\ {s[i] : i \in 1 .. Len(s)} = Keys
<1>1. PICK p \in [1 .. Len(items) -> 1 .. Len(items)] :
        /\ \A i \in 1 .. Len(items) : \E j \in 1 .. Len(items) : p[j] = i
        /\ s = [i \in 1 .. Len(items) |-> items[p[i]]]
  BY DEF Rearranged
<1>2. Len(items) \in Nat /\ \A i \in 1 .. Len(items) : items[i] \in Key
  BY VecElements
<1>3. \A i \in 1 .. Len(items) : p[i] \in 1 .. Len(items) /\ s[i] = items[p[i]] /\ s[i] \in Key
  BY <1>1, <1>2
<1>4. s \in [1 .. Len(items) -> Key]
  BY <1>1, <1>3
<1>5. s \in Seq(Key) /\ Len(s) = Len(items)
  <2>1. s \in Seq(Key)
    BY <1>2, <1>4, SeqDef
  <2>2. Len(s) \in Nat /\ DOMAIN s = 1 .. Len(s) /\ DOMAIN s = 1 .. Len(items)
    BY <2>1, <1>4, LenProperties
  <2> QED BY <2>1, <2>2, <1>2
<1>6. {s[i] : i \in 1 .. Len(items)} = {items[i] : i \in 1 .. Len(items)}
  <2>1. ASSUME NEW i \in 1 .. Len(items) PROVE items[i] \in {s[j] : j \in 1 .. Len(items)}
    <3>1. PICK j \in 1 .. Len(items) : p[j] = i
      BY <1>1
    <3>2. s[j] = items[i]
      BY <3>1, <1>3
    <3> QED BY <3>2
  <2>2. ASSUME NEW i \in 1 .. Len(items) PROVE s[i] \in {items[j] : j \in 1 .. Len(items)}
    <3>1. s[i] = items[p[i]] /\ p[i] \in 1 .. Len(items)
      BY <1>3
    <3> QED BY <3>1
  <2> QED BY <2>1, <2>2
<1> QED BY <1>5, <1>6 DEF Keys

LEMMA VecNextInvariant == VecInv /\ [VecNext]_vecVars => VecInv'
<1> SUFFICES ASSUME VecInv, [VecNext]_vecVars PROVE VecInv'
  OBVIOUS
<1> USE DEF VecInv
<1>n. /\ Len(items) \in Nat
      /\ \A i \in 1 .. Len(items) : items[i] \in Key /\ items[i] \in Int
      /\ in \in Int
  BY VecElements, KeyAssumption DEF VecTypeOK
<1>1. ASSUME NEW k \in Key, VecPush(k) PROVE VecInv'
  <2>1. items' \in Seq(Key) /\ Len(items') = Len(items) + 1
    BY <1>1, AppendProperties DEF VecPush, VecTypeOK
  <2>2. VecTypeOK'
    <3>1. /\ find_pc' = "idle" /\ use' = use /\ in' = in /\ lo' = lo /\ hi' = hi /\ val' = val
          /\ sorted' = FALSE /\ Len(items) < MAX_COUNT
      BY <1>1 DEF VecPush, vec_count
    <3>2. Len(items') <= MAX_COUNT
      BY <3>1, <2>1, <1>n, CountAssumption
    <3> QED BY <3>1, <3>2, <2>1 DEF VecTypeOK
  <2> QED BY <1>1, <2>2 DEF VecPush, FlagMeansOrder, Narrowed, FindTells, Room
<1>2. CASE VecClear
  <2>1. items' \in Seq(Key) /\ Len(items') = 0
    BY <1>2, EmptySeq DEF VecClear
  <2> QED BY <1>2, <2>1, CountAssumption
          DEF VecClear, VecTypeOK, FlagMeansOrder, Ordered, Narrowed, FindTells, Room
<1>3. CASE VecSort
  <2>1. items' \in Rearranged(items) /\ Ordered(items') /\ find_pc = "idle"
    BY <1>3 DEF VecSort
  <2>2. items' \in Seq(Key) /\ Len(items') = Len(items)
    BY <2>1, RearrangedElements DEF VecTypeOK
  <2> QED BY <1>3, <2>1, <2>2 DEF VecSort, VecTypeOK, FlagMeansOrder, Narrowed, FindTells, Room
<1>4. ASSUME NEW k \in Key, NEW caller \in {"find", "insert"}, VecFind(caller, k),
             caller = "insert" => vec_count < MAX_COUNT
      PROVE  VecInv'
  <2>1. VecTypeOK'
    BY <1>4, <1>n DEF VecFind, VecTypeOK, vec_count
  <2>2. FlagMeansOrder'
    BY <1>4 DEF VecFind, FlagMeansOrder
  <2>3. Narrowed'
    BY <1>4, <1>n DEF VecFind, Narrowed, vec_count
  <2>4. FindTells'
    BY <1>4 DEF VecFind, FindTells, pos
  <2>5. Room'
    BY <1>4 DEF VecFind, Room, vec_count
  <2> QED BY <2>1, <2>2, <2>3, <2>4, <2>5
<1>5. CASE Match
  <2>1. next \in Nat /\ next + 1 \in 1 .. Len(items) /\ items[next + 1] = in /\ sorted
    BY <1>5, NextWithin DEF Match, vec_get, Narrowed
  <2>2. pos' = next
    BY <1>5, <2>1 DEF Match, pos
  <2>3. VecTypeOK'
    BY <1>5, <2>1 DEF Match, VecTypeOK
  <2>4. FindTells'
    BY <1>5, <2>1, <2>2, <1>n DEF Match, FindTells, vec_get
  <2> QED BY <1>5, <2>3, <2>4 DEF Match, FlagMeansOrder, Narrowed, Room
<1>6. CASE SearchBelow
  <2>1. /\ next \in Nat /\ lo <= next /\ next <= hi
        /\ next + 1 \in 1 .. Len(items) /\ in < items[next + 1] /\ sorted
    BY <1>6, NextWithin DEF SearchBelow, vec_get, Narrowed
  <2>2. lo \in Int /\ hi \in Int /\ hi' = next - 1
    BY <1>6 DEF SearchBelow, VecTypeOK
  <2>3. VecTypeOK'
    BY <1>6, <2>1, <2>2, <1>n DEF SearchBelow, VecTypeOK
  <2>4. ASSUME NEW i \in 1 .. Len(items), i > hi' + 1 PROVE items[i] > in
    <3>1. i = next + 1 \/ next + 1 < i
      BY <2>4, <2>1, <2>2
    <3>2. items[next + 1] <= items[i]
      BY <3>1, <2>1, <1>n DEF FlagMeansOrder, Ordered
    <3> QED BY <3>2, <2>1, <1>n
  <2>5. Narrowed'
    BY <1>6, <2>1, <2>4 DEF SearchBelow, Narrowed
  <2> QED BY <1>6, <2>3, <2>5 DEF SearchBelow, FlagMeansOrder, FindTells, Room
<1>7. CASE SearchAbove
  <2>1. /\ next \in Nat /\ lo <= next /\ next <= hi
        /\ next + 1 \in 1 .. Len(items) /\ in > items[next + 1] /\ sorted
    BY <1>7, NextWithin DEF SearchAbove, vec_get, Narrowed
  <2>2. lo \in Int /\ hi \in Int /\ lo' = next + 1
    BY <1>7 DEF SearchAbove, VecTypeOK
  <2>3. VecTypeOK'
    BY <1>7, <2>1, <2>2, <1>n DEF SearchAbove, VecTypeOK
  <2>4. ASSUME NEW i \in 1 .. Len(items), i <= lo' PROVE items[i] < in
    <3>1. i = next + 1 \/ i < next + 1
      BY <2>4, <2>1, <2>2
    <3>2. items[i] <= items[next + 1]
      BY <3>1, <2>1, <1>n DEF FlagMeansOrder, Ordered
    <3> QED BY <3>2, <2>1, <1>n
  <2>5. Narrowed'
    BY <1>7, <2>1, <2>4 DEF SearchAbove, Narrowed
  <2> QED BY <1>7, <2>3, <2>5 DEF SearchAbove, FlagMeansOrder, FindTells, Room
<1>8. CASE NotThere
  <2>1. /\ lo \in Int /\ hi \in Int /\ 0 <= lo /\ lo = hi + 1 /\ lo <= Len(items) /\ sorted
        /\ \A i \in 1 .. Len(items) : i <= lo => items[i] < in
        /\ \A i \in 1 .. Len(items) : i > lo => items[i] > in
    BY <1>8, <1>n DEF NotThere, VecTypeOK, Narrowed
  <2>2. pos' = -(lo + 2) /\ -(pos' + 2) = lo
    BY <1>8, <2>1 DEF NotThere, pos
  <2>3. VecTypeOK'
    BY <1>8, <2>1 DEF NotThere, VecTypeOK
  <2>4. FindTells'
    BY <1>8, <2>1, <2>2 DEF NotThere, FindTells
  <2> QED BY <1>8, <2>3, <2>4 DEF NotThere, FlagMeansOrder, Narrowed, Room
<1>9. CASE FindReturns \/ InsertUniqThere \/ InsertUniqRefused
  <2>1. VecTypeOK'
    BY <1>9 DEF FindReturns, InsertUniqThere, InsertUniqRefused, Done, VecTypeOK, pos
  <2> QED BY <1>9, <2>1 DEF FindReturns, InsertUniqThere, InsertUniqRefused, Done,
                            FlagMeansOrder, Narrowed, FindTells, Room
<1>10. CASE InsertUniqNew
  <2>1. find_pc = "found" /\ pos < -1 /\ Len(items) < MAX_COUNT
    BY <1>10 DEF InsertUniqNew, Room
  <2>2. items' \in Seq(Key) /\ Len(items') = Len(items) + 1 /\ Ordered(items')
    BY <1>10, <2>1, InsertKeepsOrder DEF InsertUniqNew
  <2>3. VecTypeOK'
    BY <1>10, <2>1, <2>2, <1>n, CountAssumption DEF InsertUniqNew, Done, VecTypeOK
  <2> QED BY <1>10, <2>2, <2>3
          DEF InsertUniqNew, Done, FlagMeansOrder, Narrowed, FindTells, Room
<1>11. CASE UNCHANGED vecVars
  BY <1>11 DEF vecVars, VecTypeOK, FlagMeansOrder, Ordered, Narrowed, FindTells, Room, pos, vec_get
<1> QED BY <1>1, <1>2, <1>3, <1>4, <1>5, <1>6, <1>7, <1>8, <1>9, <1>10, <1>11
        DEF VecNext, Call, Search, FindDone

\* The invariant holds in every state, whatever is pushed, inserted or looked for.
THEOREM VecInvariance == VecSpec => []VecInv
<1>1. VecInit => VecInv
  BY VecInitInvariant
<1>2. VecInv /\ [VecNext]_vecVars => VecInv'
  BY VecNextInvariant
<1> QED BY <1>1, <1>2, PTL DEF VecSpec

\* The search never leaves the bounds of the vector.
THEOREM VecTypeCorrect == VecSpec => []VecTypeOK
<1>1. VecInv => VecTypeOK
  BY DEF VecInv
<1> QED BY <1>1, VecInvariance, PTL

\* A vector with the flag is in order.
THEOREM FlagCorrect == VecSpec => []FlagMeansOrder
<1>1. VecInv => FlagMeansOrder
  BY DEF VecInv
<1> QED BY <1>1, VecInvariance, PTL

\* vec_find returns the place of the element, or the place where it belongs.
THEOREM FindCorrect == VecSpec => []FindTells
<1>1. VecInv => FindTells
  BY DEF VecInv
<1> QED BY <1>1, VecInvariance, PTL

-----------------------------------------------------------------------------
(***************************************************************************)
(* The refinement.                                                         *)
(***************************************************************************)
LEMMA InsertedKeys ==
  ASSUME items \in Seq(Key), NEW k \in Key, NEW index \in 0 .. Len(items),
         items' = Inserted(index, k)
  PROVE  Keys' = Keys \cup {k}
<1>1. Len(items) \in Nat /\ index \in Nat
  BY VecElements
<1>2. /\ Len(items') = Len(items) + 1
      /\ \A i \in 1 .. Len(items) + 1 :
           items'[i] = IF i <= index THEN items[i] ELSE IF i = index + 1 THEN k ELSE items[i - 1]
  BY InsertedElements
<1>3. ASSUME NEW i \in 1 .. Len(items) + 1 PROVE items'[i] \in Keys \cup {k}
  <2>1. CASE i <= index
    BY <2>1, <1>1, <1>2 DEF Keys
  <2>2. CASE i = index + 1
    BY <2>2, <1>1, <1>2
  <2>3. CASE i > index + 1
    <3>1. i - 1 \in 1 .. Len(items) /\ items'[i] = items[i - 1]
      BY <2>3, <1>1, <1>2
    <3> QED BY <3>1 DEF Keys
  <2> QED BY <2>1, <2>2, <2>3, <1>1
<1>4. ASSUME NEW i \in 1 .. Len(items) PROVE \E j \in 1 .. Len(items) + 1 : items'[j] = items[i]
  <2>1. CASE i <= index
    <3>1. i \in 1 .. Len(items) + 1 /\ items'[i] = items[i]
      BY <2>1, <1>1, <1>2
    <3> QED BY <3>1
  <2>2. CASE i > index
    <3>1. i + 1 \in 1 .. Len(items) + 1 /\ ~(i + 1 <= index) /\ i + 1 # index + 1 /\ i + 1 - 1 = i
      BY <2>2, <1>1
    <3>2. items'[i + 1] = items[i + 1 - 1]
      BY <3>1, <1>2
    <3> QED BY <3>1, <3>2
  <2> QED BY <2>1, <2>2, <1>1
<1>5. \E j \in 1 .. Len(items) + 1 : items'[j] = k
  <2>1. index + 1 \in 1 .. Len(items) + 1 /\ ~(index + 1 <= index)
    BY <1>1
  <2>2. items'[index + 1] = k
    BY <2>1, <1>2
  <2> QED BY <2>1, <2>2
<1>6. Keys' = {items'[i] : i \in 1 .. Len(items) + 1}
  BY <1>2 DEF Keys
<1> QED BY <1>3, <1>4, <1>5, <1>6, ZenonT(30) DEF Keys

LEMMA PushedKeys ==
  ASSUME items \in Seq(Key), NEW k \in Key, items' = Append(items, k)
  PROVE  Keys' = Keys \cup {k}
<1>1. Len(items) \in Nat
  BY VecElements
<1>2. /\ Len(items') = Len(items) + 1
      /\ \A i \in 1 .. Len(items) : items'[i] = items[i]
      /\ items'[Len(items) + 1] = k
  BY AppendProperties
<1>3. Keys' = {items'[i] : i \in 1 .. Len(items) + 1}
  BY <1>2 DEF Keys
<1>4. ASSUME NEW i \in 1 .. Len(items) + 1 PROVE items'[i] \in Keys \cup {k}
  <2>1. i = Len(items) + 1 \/ i \in 1 .. Len(items)
    BY <1>1
  <2> QED BY <2>1, <1>2 DEF Keys
<1>5. ASSUME NEW i \in 1 .. Len(items) PROVE items[i] \in Keys'
  <2>1. i \in 1 .. Len(items) + 1 /\ items'[i] = items[i]
    BY <1>1, <1>2
  <2> QED BY <2>1, <1>3
<1>6. k \in Keys'
  <2>1. Len(items) + 1 \in 1 .. Len(items) + 1
    BY <1>1
  <2> QED BY <2>1, <1>2, <1>3
<1> QED BY <1>3, <1>4, <1>5, <1>6 DEF Keys

\* What vec_find is about to return tells whether the key is in the set.
LEMMA FoundTells ==
  ASSUME VecInv, find_pc = "found"
  PROVE  /\ pos \in Int
         /\ ~sorted <=> pos = -1
         /\ pos >= 0 => in \in Keys
         /\ pos < -1 => in \notin Keys
<1>1. pos \in Int /\ in \in Int /\ Len(items) \in Nat
      /\ \A i \in 1 .. Len(items) : items[i] \in Int
  BY VecElements, KeyAssumption DEF VecInv, VecTypeOK, pos
<1>2. ASSUME pos >= 0 PROVE in \in Keys
  <2>1. pos + 1 \in 1 .. Len(items) /\ items[pos + 1] = in
    BY <1>1, <1>2 DEF VecInv, FindTells, vec_get
  <2> QED BY <2>1 DEF Keys
<1>3. ASSUME pos < -1, NEW i \in 1 .. Len(items) PROVE items[i] # in
  <2>1. (i <= -(pos + 2) => items[i] < in) /\ (i > -(pos + 2) => items[i] > in)
    BY <1>3 DEF VecInv, FindTells
  <2>2. i <= -(pos + 2) \/ i > -(pos + 2)
    BY <1>1
  <2> QED BY <2>1, <2>2, <1>1
<1> QED BY <1>1, <1>2, <1>3 DEF VecInv, FindTells, Keys

LEMMA VecStepImplements == VecInv /\ [VecNext]_vecVars => [KeySetPromise!Next]_(KeySetPromise!vars)
<1> SUFFICES ASSUME VecInv, [VecNext]_vecVars PROVE [KeySetPromise!Next]_(KeySetPromise!vars)
  OBVIOUS
<1> USE DEF KeySetPromise!Next, KeySetPromise!vars
<1>t. items \in Seq(Key) /\ in \in Key /\ use \in {"find", "insert"} /\ sorted \in BOOLEAN /\ val \in Int
  BY DEF VecInv, VecTypeOK
<1>1. ASSUME NEW k \in Key, VecPush(k) PROVE KeySetPromise!Push(k)
  <2>1. Keys' = Keys \cup {k}
    BY <1>1, <1>t, PushedKeys DEF VecPush
  <2> QED BY <1>1, <2>1 DEF VecPush, KeySetPromise!Push, Answers
<1>2. ASSUME VecClear PROVE KeySetPromise!Clear
  <2>1. Keys' = {}
    <3>1. Len(items') = 0
      BY <1>2, EmptySeq DEF VecClear
    <3> QED BY <3>1 DEF Keys
  <2> QED BY <1>2, <2>1 DEF VecClear, KeySetPromise!Clear, Answers
<1>3. ASSUME VecSort PROVE KeySetPromise!PutInOrder
  <2>1. items' \in Rearranged(items)
    BY <1>3 DEF VecSort
  <2>2. Keys' = Keys
    BY <2>1, <1>t, RearrangedElements DEF Keys
  <2> QED BY <1>3, <2>2 DEF VecSort, KeySetPromise!PutInOrder, Answers
<1>4. ASSUME NEW k \in Key, NEW caller \in {"find", "insert"}, VecFind(caller, k) PROVE KeySetPromise!Ask(k)
  BY <1>4 DEF VecFind, KeySetPromise!Ask, Answers, Keys
<1>5. ASSUME Search PROVE UNCHANGED KeySetPromise!vars
  <2>1. find_pc = "search" /\ find_pc' \in {"search", "found"} /\ items' = items /\ sorted' = sorted /\ in' = in
    BY <1>5 DEF Search, Match, SearchBelow, SearchAbove, NotThere
  <2>2. Keys' = Keys
    BY <2>1 DEF Keys
  <2>3. Answers = "none" /\ Answers' = "none"
    BY <2>1 DEF Answers
  <2> QED BY <2>1, <2>2, <2>3
<1>6. ASSUME FindReturns PROVE KeySetPromise!Answer \/ KeySetPromise!Refuse
  <2>1. /\ find_pc = "found" /\ use' = "find" /\ val' = pos /\ find_pc' = "idle"
        /\ Keys' = Keys /\ sorted' = sorted /\ in' = in
    BY <1>6 DEF FindReturns, Done, Keys
  <2>2. Answers = "none"
    BY <2>1 DEF Answers
  <2>3. Answers' = IF pos = -1 THEN "refused" ELSE IF pos >= 0 THEN "there" ELSE "not there"
    BY <2>1 DEF Answers
  <2>4. CASE pos = -1
    <3>1. ~sorted /\ Answers' = "refused"
      BY <2>1, <2>3, <2>4, FoundTells
    <3> QED BY <2>1, <2>2, <3>1 DEF KeySetPromise!Refuse
  <2>5. CASE pos # -1
    <3>1. pos >= 0 \/ pos < -1
      BY <2>1, <2>5, FoundTells
    <3>2. sorted
      BY <2>1, <2>5, FoundTells
    <3>3. Answers' = IF pos >= 0 THEN "there" ELSE "not there"
      BY <2>3, <2>5
    <3>4. Answers' = IF in \in Keys THEN "there" ELSE "not there"
      <4>1. CASE pos >= 0
        BY <4>1, <2>1, <3>3, FoundTells
      <4>2. CASE pos < -1
        <5>1. in \notin Keys /\ ~(pos >= 0)
          BY <4>2, <2>1, FoundTells
        <5> QED BY <5>1, <3>3
      <4> QED BY <3>1, <4>1, <4>2
    <3> QED BY <2>1, <2>2, <3>2, <3>4 DEF KeySetPromise!Answer
  <2> QED BY <2>4, <2>5
<1>7. ASSUME InsertUniqThere PROVE KeySetPromise!Answer
  <2>1. /\ find_pc = "found" /\ use' = "insert" /\ val' = 0 /\ find_pc' = "idle" /\ pos >= 0
        /\ Keys' = Keys /\ sorted' = sorted /\ in' = in
    BY <1>7 DEF InsertUniqThere, Done, Keys
  <2>2. Answers = "none" /\ Answers' = "there"
    BY <2>1 DEF Answers
  <2> QED BY <2>1, <2>2, FoundTells DEF KeySetPromise!Answer
<1>8. ASSUME InsertUniqNew PROVE KeySetPromise!Insert
  <2>1. /\ find_pc = "found" /\ use' = "insert" /\ val' = 1 /\ find_pc' = "idle" /\ pos < -1
        /\ sorted' = sorted /\ in' = in /\ items' = Inserted(-(pos + 2), in)
    BY <1>8 DEF InsertUniqNew, Done
  <2>2. Answers = "none" /\ Answers' = "not there"
    BY <2>1 DEF Answers
  <2>3. Keys' = Keys \cup {in}
    BY <2>1, <1>t, InsertKeepsOrder, InsertedKeys
  <2>4. in \notin Keys /\ sorted
    BY <2>1, FoundTells
  <2> QED BY <2>1, <2>2, <2>3, <2>4 DEF KeySetPromise!Insert
<1>9. ASSUME InsertUniqRefused PROVE KeySetPromise!Refuse
  <2>1. /\ find_pc = "found" /\ val' = -1 /\ find_pc' = "idle" /\ pos = -1
        /\ Keys' = Keys /\ sorted' = sorted /\ in' = in
    BY <1>9 DEF InsertUniqRefused, Done, Keys
  <2>2. Answers = "none" /\ Answers' = "refused"
    BY <2>1 DEF Answers
  <2> QED BY <2>1, <2>2, FoundTells DEF KeySetPromise!Refuse
<1>10. ASSUME UNCHANGED vecVars PROVE UNCHANGED KeySetPromise!vars
  BY <1>10 DEF vecVars, Answers, Keys
<1> QED BY <1>1, <1>2, <1>3, <1>4, <1>5, <1>6, <1>7, <1>8, <1>9, <1>10 DEF VecNext, Call, FindDone

\* A vector implements the set of KeySet: nothing in it is lost or found twice,
\* and without the flag it answers nothing.
THEOREM VecIsKeySet == VecSpec => IsKeySet
<1>1. VecInit => KeySetPromise!Init
  <2> SUFFICES ASSUME VecInit PROVE KeySetPromise!Init
    OBVIOUS
  <2>1. Len(items) = 0
    BY EmptySeq DEF VecInit
  <2> QED BY <2>1 DEF VecInit, KeySetPromise!Init, Keys, Answers
<1>2. VecInv /\ [VecNext]_vecVars => [KeySetPromise!Next]_(KeySetPromise!vars)
  BY VecStepImplements
<1> QED BY <1>1, <1>2, VecInvariance, PTL DEF VecSpec, IsKeySet, KeySetPromise!Spec

-----------------------------------------------------------------------------
(***************************************************************************)
(* Chunk pools.  The positions, the blocks and the elements, linked.       *)
(***************************************************************************)

InUse == pool_pc \notin {"unused", "freed"}

\* Positions are at multiples of the size.
Multiple(n) == \E k \in Nat : n = k * chunk_size
Sized ==
  InUse =>
    /\ chunk_size \in Sizes
    /\ Multiple(chunk_max) /\ chunk_size <= chunk_max
    /\ Multiple(chunk_pos)

\* The chunks in use are the live blocks, each once.
Blocks ==
  /\ live = {chunks[k] : k \in 1 .. chunk + 1}
  /\ \A k, l \in 1 .. chunk + 1 : k # l => chunks[k] # chunks[l]
  /\ ~InUse => chunk = -1

\* Nothing is forgotten of the chunks until they are freed.
Session ==
  InUse =>
    /\ given = <<>> => chunk = -1
    /\ given # <<>> => \A k, l \in 1 .. Len(chunks) : k # l => chunks[k] # chunks[l]
    /\ given # <<>> /\ pool_pc \notin {"free", "call", "release"} => Len(chunks) = chunk + 1

Place(i, c) == given[i].block = chunks[c]

\* An element follows the one before: in its chunk, or from the chunk before.
Link(i, c) ==
  /\ Place(i, c)
  /\ Multiple(given[i].offset)
  /\ given[i].offset + chunk_size <= chunk_max
  /\ given[i].offset # 0 =>
       i > 1 /\ given[i - 1] = Element(chunks[c], given[i].offset - chunk_size)
  /\ given[i].offset = 0 /\ c > 1 =>
       i > 1 /\ given[i - 1] = Element(chunks[c - 1], chunk_max - chunk_size)
  /\ given[i].offset = 0 /\ c = 1 => i = 1
Chain == InUse => \A i \in 1 .. Len(given) : \E c \in 1 .. Len(chunks) : Link(i, c)

\* Elements are given in the order of the chunks, and in a chunk one behind
\* the other.
InOrder ==
  InUse =>
    \A i, j \in 1 .. Len(given), c, d \in 1 .. Len(chunks) :
      i < j /\ Place(i, c) /\ Place(j, d) =>
        /\ c <= d
        /\ c = d => given[i].offset + chunk_size <= given[j].offset

\* Where chunkpool_free2 is in the chunks is where it is in the elements.
Rest == Len(given) - Len(called)
TopIs(c, at) == Rest > 0 /\ given[Rest] = Element(chunks[c], at)
Current ==
  /\ pool_pc \notin {"free", "call", "release", "freed"} => called = <<>>
  /\ ~f => called = <<>>
  /\ pool_pc \in {"call", "release"} => chunk >= 0
  /\ pool_pc = "call" => f
  /\ pool_pc = "freed" /\ f => Rest = 0
  /\ (InUse /\ pool_pc # "release" /\ (pool_pc = "free" => f)) =>
       /\ chunk >= 0 => TopIs(chunk + 1, chunk_pos - chunk_size) /\ chunk_pos > 0
       /\ chunk < 0 => Rest = 0 /\ chunk_pos = chunk_max
  /\ pool_pc = "release" /\ f =>
       /\ chunk_pos = chunk_max
       /\ chunk > 0 => TopIs(chunk, chunk_max - chunk_size)
       /\ chunk = 0 => Rest = 0

PoolInv == PoolTypeOK /\ Sized /\ Blocks /\ Session /\ Chain /\ InOrder /\ Current /\ LastFirst

-----------------------------------------------------------------------------
(***************************************************************************)
(* Arithmetic of positions.                                                *)
(***************************************************************************)
LEMMA Scaled ==
  ASSUME NEW s \in Nat \ {0}, NEW m \in Nat
  PROVE  m * s \in Nat /\ (m >= 1 => m * s >= s) /\ (m + 1) * s = m * s + s
<1>1. m * s \in Nat /\ (m + 1) * s = m * s + s
  BY SMTT(30)
<1>2. ASSUME m >= 1 PROVE m * s >= s
  <2>1. m - 1 \in Nat
    BY <1>2
  <2>2. (m - 1) * s \in Nat
    BY <2>1, SMTT(30)
  <2>3. m * s = (m - 1) * s + s
    BY SMTT(30)
  <2> QED BY <2>2, <2>3
<1> QED BY <1>1, <1>2

\* Between two multiples there is room for an element.
LEMMA NextMultiple ==
  ASSUME NEW s \in Nat \ {0}, NEW k \in Nat, NEW l \in Nat, k * s < l * s
  PROVE  k * s + s <= l * s
<1>1. k < l
  <2> SUFFICES ASSUME l <= k PROVE FALSE
    OBVIOUS
  <2>1. k - l \in Nat
    OBVIOUS
  <2>2. (k - l) * s \in Nat
    BY <2>1, Scaled
  <2>3. k * s = l * s + (k - l) * s
    BY SMTT(30)
  <2>4. k * s \in Nat /\ l * s \in Nat
    BY Scaled
  <2> QED BY <2>2, <2>3, <2>4
<1>2. l - k - 1 \in Nat
  BY <1>1
<1>3. (l - k - 1) * s \in Nat /\ k * s \in Nat /\ l * s \in Nat
  BY <1>2, Scaled
<1>4. l * s = k * s + s + (l - k - 1) * s
  BY SMTT(30)
<1> QED BY <1>3, <1>4

LEMMA PreviousMultiple ==
  ASSUME NEW s \in Nat \ {0}, NEW k \in Nat, k * s > 0
  PROVE  k - 1 \in Nat /\ k * s - s = (k - 1) * s
<1>1. k >= 1
  <2>1. CASE k = 0
    BY <2>1
  <2>2. CASE k # 0
    BY <2>2
  <2> QED BY <2>1, <2>2
<1> QED BY <1>1, SMTT(30)

\* The largest multiple that fits.
LEMMA LargestMultiple ==
  ASSUME NEW n \in Nat, NEW s \in 1 .. n
  PROVE  /\ n \div s \in Nat /\ n \div s >= 1
         /\ (n \div s) * s \in s .. n
<1>1. /\ n \div s \in Int
      /\ n = s * (n \div s) + (n % s)
      /\ n % s \in 0 .. s - 1
  BY SMTT(30)
<1> DEFINE q == n \div s
           r == n % s
<1> HIDE DEF q, r
<1>2. q \in Int /\ n = s * q + r /\ r \in 0 .. s - 1
  BY <1>1 DEF q, r
<1>3. q >= 1
  <2> SUFFICES ASSUME q <= 0 PROVE FALSE
    BY <1>2
  <2>1. s * q <= 0
    BY <1>2, SMTT(30)
  <2>2. s * q \in Int
    BY <1>2
  <2> QED BY <1>2, <2>1, <2>2
<1>4. q * s = s * q /\ s * q \in Int
  BY <1>2, SMTT(30)
<1>5. q * s >= s
  BY <1>2, <1>3, Scaled
<1> QED BY <1>2, <1>3, <1>4, <1>5 DEF q

-----------------------------------------------------------------------------
(***************************************************************************)
(* The invariant.                                                          *)
(***************************************************************************)
Elements == [block : Block, offset : 0 .. CHUNK_BYTES]

LEMMA SizeFacts == \A width \in Sizes : width \in Nat \ {0} /\ width <= CHUNK_BYTES
BY SizesAssumption, BytesAssumption

LEMMA PoolFacts ==
  ASSUME PoolInv
  PROVE  /\ chunk \in Int /\ chunk_pos \in Int /\ chunk_max \in Int /\ chunk_size \in Int
         /\ chunk_pos <= chunk_max /\ chunk_max <= CHUNK_BYTES /\ CHUNK_BYTES \in Nat
         /\ chunk >= -1 /\ chunk < Len(chunks) /\ Len(chunks) \in Nat /\ chunks \in Seq(Block)
         /\ Len(given) \in Nat /\ Len(called) \in Nat /\ Len(called) <= Len(given)
         /\ Rest \in 0 .. Len(given)
         /\ given \in Seq(Elements) /\ called \in Seq(Elements)
         /\ \A i \in 1 .. Len(given) : given[i] \in Elements /\ given[i].offset \in Nat
         /\ \A k \in 1 .. Len(chunks) : chunks[k] \in Block
         /\ InUse => chunk_size \in Nat \ {0}
<1>1. /\ chunk \in Int /\ chunk_pos \in Int /\ chunk_max \in Int /\ chunk_size \in Int
      /\ chunk_pos <= chunk_max /\ chunk_max <= CHUNK_BYTES /\ CHUNK_BYTES \in Nat
      /\ chunk >= -1 /\ chunk < Len(chunks) /\ chunks \in Seq(Block)
      /\ given \in Seq(Elements) /\ called \in Seq(Elements)
  <2>1. /\ chunk_size \in Sizes \cup {-1}
        /\ chunk \in -1 .. CHUNKPOOL_CHUNKS_MAX - 1
        /\ chunk_max \in -1 .. CHUNK_BYTES
        /\ chunk_pos \in -1 .. chunk_max
        /\ chunks \in Seq(Block) /\ chunk < Len(chunks)
        /\ given \in Seq(Elements) /\ called \in Seq(Elements)
    BY DEF PoolInv, PoolTypeOK, Elements
  <2>2. chunk_size \in Int
    BY <2>1, SizeFacts
  <2> QED BY <2>1, <2>2, BytesAssumption, ChunksAssumption
<1>2. Len(chunks) \in Nat /\ \A k \in 1 .. Len(chunks) : chunks[k] \in Block
  BY <1>1, LenProperties, ElementOfSeq
<1>3. Len(given) \in Nat /\ \A i \in 1 .. Len(given) : given[i] \in Elements
  BY <1>1, LenProperties, ElementOfSeq
<1>4. Len(called) \in Nat
  BY <1>1, LenProperties
<1>5. Len(called) <= Len(given)
  BY DEF PoolInv, LastFirst
<1>6. \A i \in 1 .. Len(given) : given[i].offset \in Nat
  BY <1>1, <1>3 DEF Elements
<1>7. InUse => chunk_size \in Nat \ {0}
  BY SizeFacts DEF PoolInv, Sized
<1>8. Rest \in 0 .. Len(given)
  BY <1>3, <1>4, <1>5 DEF Rest
<1> QED BY <1>1, <1>2, <1>3, <1>4, <1>5, <1>6, <1>7, <1>8

LEMMA PoolInitInvariant == PoolInit => PoolInv
<1> SUFFICES ASSUME PoolInit PROVE PoolInv
  OBVIOUS
<1>1. Len(<<>>) = 0 /\ <<>> \in Seq(Block) /\ <<>> \in Seq([block : Block, offset : 0 .. CHUNK_BYTES])
  BY EmptySeq
<1>2. PoolTypeOK
  <2>1. /\ chunk_size = -1 /\ chunk = -1 /\ chunk_pos = -1 /\ chunk_max = -1
        /\ chunks = <<>> /\ live = {} /\ given = <<>> /\ called = <<>>
        /\ pool_pc = "unused" /\ f = FALSE
    BY DEF PoolInit
  <2>2. -1 \in -1 .. CHUNKPOOL_CHUNKS_MAX - 1 /\ -1 \in -1 .. CHUNK_BYTES /\ -1 \in -1 .. -1
    BY BytesAssumption, ChunksAssumption
  <2>3. chunks \in Seq(Block) /\ Len(chunks) = 0
        /\ given \in Seq([block : Block, offset : 0 .. CHUNK_BYTES])
        /\ called \in Seq([block : Block, offset : 0 .. CHUNK_BYTES])
    BY <1>1, <2>1
  <2>4. chunk < Len(chunks)
    BY <2>1, <2>3
  <2>5. chunk_size \in Sizes \cup {-1} /\ chunk \in -1 .. CHUNKPOOL_CHUNKS_MAX - 1
        /\ chunk_max \in -1 .. CHUNK_BYTES /\ chunk_pos \in -1 .. chunk_max
    BY <2>1, <2>2
  <2>6. live \subseteq Block /\ f \in BOOLEAN
    BY <2>1
  <2> QED BY <2>1, <2>3, <2>4, <2>5, <2>6 DEF PoolTypeOK
<1> QED BY <1>1, <1>2 DEF PoolInit, PoolInv, InUse, Sized, Blocks, Session, Chain, InOrder,
                          Current, Rest, TopIs, LastFirst

LEMMA InitPool ==
  ASSUME PoolInv, NEW width \in Sizes, ChunkpoolInit(width)
  PROVE  PoolInv'
<1>1. Len(<<>>) = 0 /\ <<>> \in Seq(Elements)
  BY EmptySeq
<1>2. width \in 1 .. CHUNK_BYTES /\ width \in Nat
  BY SizesAssumption, BytesAssumption
<1>3. PICK q \in Nat : q = CHUNK_BYTES \div width /\ q * width \in width .. CHUNK_BYTES
  BY <1>2, BytesAssumption, LargestMultiple
<1>4. /\ chunk_size' = width /\ chunk' = -1 /\ chunk_max' = q * width /\ chunk_pos' = q * width
      /\ given' = <<>> /\ called' = <<>> /\ pool_pc' = "ready"
      /\ chunks' = chunks /\ live' = live /\ f' = f /\ pool_pc \in {"unused", "freed"}
  BY <1>3 DEF ChunkpoolInit
<1>5. chunk = -1 /\ live = {}
  BY <1>4 DEF PoolInv, Blocks, InUse
<1>6. PoolTypeOK'
  <2>1. chunk_max' \in -1 .. CHUNK_BYTES /\ chunk_pos' \in -1 .. chunk_max'
    BY <1>2, <1>3, <1>4, BytesAssumption
  <2>2. chunk' \in -1 .. CHUNKPOOL_CHUNKS_MAX - 1 /\ chunk' < Len(chunks')
    BY <1>4, <1>5, PoolFacts, ChunksAssumption
  <2> QED BY <2>1, <2>2, <1>1, <1>4 DEF PoolInv, PoolTypeOK, Elements
<1>7. Sized'
  <2>1. chunk_size' \in Sizes /\ chunk_size' <= chunk_max'
    BY <1>2, <1>3, <1>4
  <2>2. Multiple(chunk_max)' /\ Multiple(chunk_pos)'
    BY <1>4 DEF Multiple
  <2> QED BY <2>1, <2>2 DEF Sized
<1>8. Blocks' /\ Session'
  BY <1>4, <1>5 DEF Blocks, Session, InUse
<1>9. Chain' /\ InOrder' /\ LastFirst'
  BY <1>1, <1>4 DEF Chain, InOrder, LastFirst
<1>10. Current'
  BY <1>1, <1>4 DEF Current, Rest
<1> QED BY <1>6, <1>7, <1>8, <1>9, <1>10 DEF PoolInv

\* Where the next element goes.
LEMMA AtTop ==
  ASSUME PoolInv, pool_pc = "ready"
  PROVE  /\ called = <<>> /\ Len(called) = 0 /\ Rest = Len(given)
         /\ chunk >= 0 => /\ Len(given) > 0 /\ Len(chunks) = chunk + 1
                          /\ given[Len(given)] = Element(chunks[chunk + 1], chunk_pos - chunk_size)
                          /\ chunk_pos > 0
                          /\ \A k, l \in 1 .. Len(chunks) : k # l => chunks[k] # chunks[l]
         /\ chunk < 0 => chunk = -1 /\ Len(given) = 0 /\ chunk_pos = chunk_max
<1>1. called = <<>> /\ Len(called) = 0
  BY EmptySeq DEF PoolInv, Current
<1>2. Rest = Len(given)
  BY <1>1, PoolFacts DEF Rest
<1>3. ASSUME chunk >= 0
      PROVE  /\ Len(given) > 0 /\ chunk_pos > 0
             /\ given[Len(given)] = Element(chunks[chunk + 1], chunk_pos - chunk_size)
  BY <1>2, <1>3 DEF PoolInv, Current, InUse, TopIs
<1>4. ASSUME Len(given) > 0 PROVE given # <<>>
  BY <1>4, EmptySeq
<1>5. ASSUME chunk < 0 PROVE Len(given) = 0 /\ chunk_pos = chunk_max /\ chunk = -1
  BY <1>2, <1>5, PoolFacts DEF PoolInv, Current, InUse
<1>6. ASSUME given # <<>>
      PROVE  /\ Len(chunks) = chunk + 1
             /\ \A k, l \in 1 .. Len(chunks) : k # l => chunks[k] # chunks[l]
  BY <1>6 DEF PoolInv, Session, InUse
<1> QED BY <1>1, <1>2, <1>3, <1>4, <1>5, <1>6

LEMMA InChunk ==
  ASSUME PoolInv, MallocInChunk
  PROVE  PoolInv'
<1> DEFINE n == Len(given)
           s == chunk_size
           e == Element(chunks[chunk + 1], chunk_pos)
<1>1. pool_pc = "ready" /\ chunk_pos # chunk_max
  BY DEF MallocInChunk
<1>2. /\ chunk_pos' = chunk_pos + s /\ given' = Append(given, e) /\ chunk_size' = chunk_size
      /\ chunk' = chunk /\ chunk_max' = chunk_max /\ chunks' = chunks /\ live' = live
      /\ called' = called /\ pool_pc' = pool_pc /\ f' = f
  BY DEF MallocInChunk
<1>3. s \in Nat \ {0} /\ s \in Sizes
  BY <1>1, PoolFacts DEF PoolInv, Sized, InUse
<1>4. /\ called = <<>> /\ Len(called) = 0 /\ chunk >= 0 /\ chunk_pos > 0
      /\ n > 0 /\ n \in Nat /\ Len(chunks) = chunk + 1
      /\ given[n] = Element(chunks[chunk + 1], chunk_pos - s)
      /\ \A k, l \in 1 .. Len(chunks) : k # l => chunks[k] # chunks[l]
  BY <1>1, AtTop, PoolFacts
<1>5. chunk_pos + s <= chunk_max /\ Multiple(chunk_pos) /\ Multiple(chunk_pos + s)
  <2>1. PICK k \in Nat : chunk_pos = k * s
    BY <1>1 DEF PoolInv, Sized, Multiple, InUse
  <2>2. PICK l \in Nat : chunk_max = l * s
    BY <1>1 DEF PoolInv, Sized, Multiple, InUse
  <2>3. chunk_pos < chunk_max
    BY <1>1, PoolFacts
  <2>4. chunk_pos + s <= chunk_max
    BY ONLY <2>1, <2>2, <2>3, <1>3, NextMultiple
  <2>5. chunk_pos + s = (k + 1) * s /\ k + 1 \in Nat
    BY <2>1, <1>3, Scaled
  <2> QED BY <2>1, <2>4, <2>5 DEF Multiple
<1>6. e \in Elements
  <2>1. chunk + 1 \in 1 .. Len(chunks)
    BY <1>4, PoolFacts
  <2> QED BY <2>1, <1>3, <1>4, <1>5, PoolFacts DEF Element, Elements
<1> HIDE DEF e
<1>7. /\ given' \in Seq(Elements) /\ Len(given') = n + 1
      /\ \A i \in 1 .. n : given'[i] = given[i]
      /\ given'[n + 1] = e
  BY <1>2, <1>6, PoolFacts, AppendProperties
<1>8. given' # <<>> /\ given # <<>>
  BY <1>4, <1>7, EmptySeq
<1>9. PoolTypeOK'
  BY <1>1, <1>2, <1>3, <1>4, <1>5, <1>7, PoolFacts DEF PoolInv, PoolTypeOK, Elements
<1>10. Sized'
  BY <1>1, <1>2, <1>5 DEF PoolInv, Sized, Multiple, InUse
<1>11. Blocks' /\ Session'
  BY <1>1, <1>2, <1>8 DEF PoolInv, Blocks, Session, InUse
<1>12. Chain'
  <2> SUFFICES ASSUME NEW i \in 1 .. n + 1 PROVE \E c \in 1 .. Len(chunks) : Link(i, c)'
    BY <1>2, <1>7 DEF Chain
  <2>1. CASE i \in 1 .. n
    <3>1. PICK c \in 1 .. Len(chunks) : Link(i, c)
      BY <2>1, <1>1 DEF PoolInv, Chain, InUse
    <3>2. given'[i] = given[i] /\ (i > 1 => given'[i - 1] = given[i - 1])
      BY <2>1, <1>4, <1>7
    <3>3. Link(i, c)'
      BY <3>1, <3>2, <1>2 DEF Link, Place, Multiple
    <3> QED BY <3>1, <3>3, <1>2
  <2>2. CASE i = n + 1
    <3>1. given'[i] = e /\ given'[i - 1] = given[n] /\ i > 1
      BY <2>2, <1>4, <1>7
    <3>2. chunk + 1 \in 1 .. Len(chunks)
      BY <1>4, PoolFacts
    <3>3. e.block = chunks[chunk + 1] /\ e.offset = chunk_pos
      BY DEF e, Element
    <3>4. Link(i, chunk + 1)'
      BY <3>1, <3>3, <1>2, <1>4, <1>5 DEF Link, Place, Multiple
    <3> QED BY <3>2, <3>4, <1>2
  <2> QED BY <2>1, <2>2, <1>4
<1>13. InOrder'
  <2> SUFFICES ASSUME NEW i \in 1 .. n + 1, NEW j \in 1 .. n + 1,
                      NEW c \in 1 .. Len(chunks), NEW d \in 1 .. Len(chunks),
                      i < j, given'[i].block = chunks[c], given'[j].block = chunks[d]
               PROVE  c <= d /\ (c = d => given'[i].offset + s <= given'[j].offset)
    BY <1>2, <1>7 DEF InOrder, Place
  <2>1. i \in 1 .. n /\ given'[i] = given[i]
    BY <1>4, <1>7
  <2>2. CASE j \in 1 .. n
    BY <2>1, <2>2, <1>1, <1>7 DEF PoolInv, InOrder, Place, InUse
  <2>3. CASE j = n + 1
    <3>1. given'[j].block = chunks[chunk + 1] /\ given'[j].offset = chunk_pos
      BY <2>3, <1>7 DEF e, Element
    <3>2. d = chunk + 1
      <4>1. chunk + 1 \in 1 .. Len(chunks)
        BY <1>4, PoolFacts
      <4> QED BY <3>1, <4>1, <1>4
    <3>3. c <= d
      BY <3>2, <1>4
    <3>4. ASSUME c = d PROVE given[i].offset + s <= chunk_pos
      <4>1. given[n].block = chunks[d] /\ given[n].offset = chunk_pos - s
        BY <1>4, <3>2 DEF Element
      <4>2. CASE i = n
        BY <4>1, <4>2, <1>3, PoolFacts
      <4>3. CASE i < n
        <5>1. n \in 1 .. n
          BY <1>4
        <5>2. given[i].offset + s <= given[n].offset
          BY <4>1, <4>3, <5>1, <3>4, <2>1, <1>1 DEF PoolInv, InOrder, Place, InUse
        <5>3. given[i].offset \in Nat /\ chunk_pos \in Int
          BY <2>1, PoolFacts
        <5> QED BY <5>2, <5>3, <4>1, <1>3
      <4> QED BY <4>2, <4>3, <2>1, <1>4
    <3> QED BY <3>1, <3>3, <3>4, <2>1
  <2> QED BY <2>2, <2>3, <1>4
<1>14. Current'
  <2>1. Rest' = n + 1 /\ chunk_pos' - chunk_size' = chunk_pos /\ chunk_pos' > 0
    BY <1>2, <1>3, <1>4, <1>7, PoolFacts DEF Rest
  <2>2. TopIs(chunk + 1, chunk_pos - chunk_size)'
    BY <2>1, <1>2, <1>4, <1>7 DEF TopIs, e, Element
  <2>3. f' \in BOOLEAN /\ called' = <<>> /\ pool_pc' = "ready" /\ chunk' >= 0
    BY <1>1, <1>2, <1>4 DEF PoolInv, PoolTypeOK
  <2>4. ~(chunk' < 0)
    BY <1>2, <1>4, PoolFacts
  <2> QED BY <2>1, <2>2, <2>3, <2>4, <1>2 DEF Current
<1>15. LastFirst'
  BY <1>1, <1>2, <1>4, <1>7 DEF LastFirst
<1> QED BY <1>9, <1>10, <1>11, <1>12, <1>13, <1>14, <1>15 DEF PoolInv

\* The chunks once another is allocated.
LEMMA AnotherChunk ==
  ASSUME PoolInv, NEW b \in Block, pool_pc = "ready", chunks' = Append(SubSeq(chunks, 1, chunk + 1), b)
  PROVE  /\ chunks' \in Seq(Block) /\ Len(chunks') = chunk + 2
         /\ \A k \in 1 .. chunk + 1 : chunks'[k] = chunks[k]
         /\ chunks'[chunk + 2] = b
<1> DEFINE old == SubSeq(chunks, 1, chunk + 1)
<1>1. \A k \in 1 .. chunk + 1 : chunks[k] \in Block
  BY PoolFacts
<1>2. chunk \in Int /\ chunk + 1 \in Int /\ chunk + 1 >= 0
  BY PoolFacts
<1>3. /\ old \in Seq(Block)
      /\ Len(old) = IF 1 <= chunk + 1 THEN chunk + 1 - 1 + 1 ELSE 0
      /\ \A k \in 1 .. chunk + 1 - 1 + 1 : old[k] = chunks[1 + k - 1]
  BY <1>1, <1>2, SubSeqProperties
<1> HIDE DEF old
<1>4. Len(old) = chunk + 1 /\ \A k \in 1 .. chunk + 1 : old[k] = chunks[k]
  BY <1>2, <1>3
<1>5. /\ Append(old, b) \in Seq(Block) /\ Len(Append(old, b)) = chunk + 1 + 1
      /\ \A k \in 1 .. chunk + 1 : Append(old, b)[k] = old[k]
      /\ Append(old, b)[chunk + 1 + 1] = b
  BY <1>3, <1>4, AppendProperties
<1>6. chunk + 1 + 1 = chunk + 2
  BY <1>2
<1> QED BY <1>4, <1>5, <1>6 DEF old

LEMMA NewChunk ==
  ASSUME PoolInv, NEW b \in Block \ live, MallocNewChunk(b)
  PROVE  PoolInv'
<1> DEFINE n == Len(given)
           s == chunk_size
           L == chunk + 1
           e == Element(b, 0)
<1>1. pool_pc = "ready" /\ chunk_pos = chunk_max /\ chunk # CHUNKPOOL_CHUNKS_MAX - 1
  BY DEF MallocNewChunk
<1>2. /\ chunk_pos' = s /\ chunk_size' = chunk_size /\ chunk' = chunk + 1
      /\ chunk_max' = chunk_max /\ live' = live \cup {b}
      /\ called' = called /\ pool_pc' = pool_pc /\ f' = f
  BY DEF MallocNewChunk
<1>c. given' = Append(given, e) /\ chunks' = Append(SubSeq(chunks, 1, chunk'), b) /\ chunk' = chunk + 1
  BY DEF MallocNewChunk
<1>3. s \in Nat \ {0} /\ s \in Sizes /\ s <= chunk_max /\ chunk_max \in Int
  BY <1>1, PoolFacts DEF PoolInv, Sized, InUse
<1>4. L \in Nat /\ n \in Nat /\ called = <<>> /\ Len(called) = 0 /\ Rest = n
  BY <1>1, PoolFacts, AtTop
<1>5. /\ chunks' \in Seq(Block) /\ Len(chunks') = L + 1
      /\ \A k \in 1 .. L : chunks'[k] = chunks[k]
      /\ chunks'[L + 1] = b
  <2>1. L + 1 = chunk + 2
    BY PoolFacts
  <2> QED BY <2>1, <1>1, <1>c, AnotherChunk
<1>6. e \in Elements /\ e.block = b /\ e.offset = 0
  BY BytesAssumption DEF Element, Elements
<1> HIDE DEF e
<1>7. /\ given' \in Seq(Elements) /\ Len(given') = n + 1
      /\ \A i \in 1 .. n : given'[i] = given[i]
      /\ given'[n + 1] = e
  BY <1>c, <1>6, PoolFacts, AppendProperties
<1>8. given' # <<>>
  BY <1>4, <1>7, EmptySeq
<1>9. \A k, l \in 1 .. L + 1 : k # l => chunks'[k] # chunks'[l]
  <2>1. \A k \in 1 .. L : chunks[k] # b
    BY DEF PoolInv, Blocks
  <2>2. \A k, l \in 1 .. L : k # l => chunks[k] # chunks[l]
    BY DEF PoolInv, Blocks
  <2>3. \A k \in 1 .. L + 1 : k \in 1 .. L \/ k = L + 1
    BY <1>4
  <2> QED BY <2>1, <2>2, <2>3, <1>5
<1>10. n > 0 => L > 0 /\ Len(chunks) = L /\ given[n] = Element(chunks[L], chunk_max - s)
  BY <1>1, <1>4, AtTop, PoolFacts
<1>a. L = 0 => n = 0
  BY <1>1, <1>4, AtTop, PoolFacts
<1>b. L > 0 => n > 0
  BY <1>1, <1>4, AtTop, PoolFacts
<1>11. PoolTypeOK'
  <2>1. chunk' \in -1 .. CHUNKPOOL_CHUNKS_MAX - 1 /\ chunk' < Len(chunks')
    <3>1. chunk \in -1 .. CHUNKPOOL_CHUNKS_MAX - 1
      BY DEF PoolInv, PoolTypeOK
    <3> QED BY <3>1, <1>1, <1>2, <1>5, ChunksAssumption
  <2>2. chunk_pos' \in -1 .. chunk_max' /\ chunk_max' \in -1 .. CHUNK_BYTES
    <3>1. chunk_max <= CHUNK_BYTES /\ chunk_max \in Int
      BY PoolFacts
    <3> QED BY <3>1, <1>2, <1>3, BytesAssumption
  <2>3. live' \subseteq Block /\ chunks' \in Seq(Block) /\ given' \in Seq(Elements)
    BY <1>2, <1>5, <1>7 DEF PoolInv, PoolTypeOK
  <2> QED BY <2>1, <2>2, <2>3, <1>2 DEF PoolInv, PoolTypeOK, Elements
<1>12. Sized'
  <2>1. s = 1 * s
    BY <1>3
  <2>2. Multiple(chunk_pos)'
    BY <2>1, <1>2 DEF Multiple
  <2>3. Multiple(chunk_max)'
    BY <1>1, <1>2 DEF PoolInv, Sized, Multiple, InUse
  <2> QED BY <2>2, <2>3, <1>2, <1>3 DEF Sized
<1>13. Blocks'
  <2>1. chunk' + 1 = L + 1
    BY <1>2
  <2>2. {chunks'[k] : k \in 1 .. L + 1} = {chunks[k] : k \in 1 .. L} \cup {b}
    <3>1. \A k \in 1 .. L + 1 : k \in 1 .. L \/ k = L + 1
      BY <1>4
    <3>2. L + 1 \in 1 .. L + 1 /\ \A k \in 1 .. L : k \in 1 .. L + 1
      BY <1>4
    <3> QED BY <3>1, <3>2, <1>5
  <2>3. live' = {chunks'[k] : k \in 1 .. L + 1}
    BY <2>2, <1>2 DEF PoolInv, Blocks
  <2> QED BY <2>1, <2>3, <1>1, <1>2, <1>9 DEF Blocks, InUse
<1>14. Session'
  <2>1. Len(chunks') = chunk' + 1
    BY <1>2, <1>5
  <2> QED BY <2>1, <1>5, <1>8, <1>9 DEF Session
<1>15. Chain'
  <2> SUFFICES ASSUME NEW i \in 1 .. n + 1 PROVE \E c \in 1 .. L + 1 : Link(i, c)'
    BY <1>5, <1>7 DEF Chain
  <2>1. CASE i \in 1 .. n
    <3>1. PICK c \in 1 .. Len(chunks) : Link(i, c)
      BY <2>1, <1>1 DEF PoolInv, Chain, InUse
    <3>2. given'[i] = given[i] /\ (i > 1 => given'[i - 1] = given[i - 1])
      BY <2>1, <1>4, <1>7
    <3>3. c \in 1 .. L
      BY <2>1, <1>10, <1>4
    <3>4. chunks'[c] = chunks[c] /\ (c > 1 => chunks'[c - 1] = chunks[c - 1])
      BY <3>3, <1>5, <1>4
    <3>5. Link(i, c)'
      BY <3>1, <3>2, <3>4, <1>2 DEF Link, Place, Multiple
    <3> QED BY <3>3, <3>5, <1>4
  <2>2. CASE i = n + 1
    <3>1. given'[i] = e
      BY <2>2, <1>7
    <3>2. L + 1 \in 1 .. L + 1 /\ (L + 1 > 1 => n > 0) /\ (L + 1 = 1 => i = 1)
      BY <2>2, <1>4, <1>a, <1>b
    <3>3. ASSUME n > 0
          PROVE  i > 1 /\ given'[i - 1] = Element(chunks'[L + 1 - 1], chunk_max - s)
      <4>1. n \in 1 .. n /\ i - 1 = n /\ L + 1 - 1 = L /\ L \in 1 .. L
        BY <3>3, <2>2, <1>4, <1>10
      <4> QED BY <3>3, <4>1, <1>4, <1>5, <1>7, <1>10
    <3>4. Multiple(0)'
      <4>1. 0 = 0 * s
        BY <1>3
      <4> QED BY <4>1, <1>2 DEF Multiple
    <3>5. 0 + s <= chunk_max
      BY <1>3
    <3>6. PICK c \in Nat : c = L + 1
      BY <1>4
    <3>7. chunks'[c] = b /\ (c > 1 => i > 1 /\ given'[i - 1] = Element(chunks'[c - 1], chunk_max - s))
      <4>1. chunks'[c] = b /\ c - 1 = L + 1 - 1 /\ (c > 1 => n > 0)
        BY <3>2, <3>6, <1>4, <1>5
      <4> QED BY <4>1, <3>3
    <3>8. c = 1 => i = 1
      BY <3>2, <3>6
    <3>9. Link(i, c)'
      <4>1. given'[i].block = chunks'[c] /\ given'[i].offset = 0
        BY <3>1, <3>7, <1>6
      <4>2. Multiple(given[i].offset)'
        BY <3>4, <4>1 DEF Multiple
      <4>3. given'[i].offset + chunk_size' <= chunk_max'
        BY <3>5, <4>1, <1>2
      <4>4. (c > 1 => i > 1 /\ given'[i - 1] = Element(chunks'[c - 1], chunk_max' - chunk_size'))
        BY <3>7, <1>2
      <4> QED BY <4>1, <4>2, <4>3, <4>4, <3>8 DEF Link, Place
    <3> QED BY <3>2, <3>6, <3>9
  <2> QED BY <2>1, <2>2, <1>4
<1>16. InOrder'
  <2> SUFFICES ASSUME NEW i \in 1 .. n + 1, NEW j \in 1 .. n + 1,
                      NEW c \in 1 .. L + 1, NEW d \in 1 .. L + 1,
                      i < j, given'[i].block = chunks'[c], given'[j].block = chunks'[d]
               PROVE  c <= d /\ (c = d => given'[i].offset + s <= given'[j].offset)
    BY <1>2, <1>4, <1>5, <1>7 DEF InOrder, Place
  <2>1. i \in 1 .. n /\ given'[i] = given[i] /\ n > 0
    BY <1>4, <1>7
  <2>2. ASSUME NEW m \in 1 .. n PROVE given[m].block # b
    <3>1. PICK k \in 1 .. Len(chunks) : Link(m, k)
      BY <1>1 DEF PoolInv, Chain, InUse
    <3>2. given[m].block = chunks[k] /\ k \in 1 .. L
      BY <3>1, <2>1, <1>10 DEF Link, Place
    <3> QED BY <3>2 DEF PoolInv, Blocks
  <2>3. c \in 1 .. L /\ chunks'[c] = chunks[c]
    BY <2>1, <2>2, <1>4, <1>5
  <2>4. CASE j \in 1 .. n
    <3>1. given'[j] = given[j] /\ d \in 1 .. L /\ chunks'[d] = chunks[d]
      BY <2>4, <2>2, <1>4, <1>5, <1>7
    <3> QED BY <2>1, <2>3, <2>4, <3>1, <1>1, <1>10 DEF PoolInv, InOrder, Place, InUse
  <2>5. CASE j = n + 1
    <3>1. chunks'[d] = b
      BY <2>5, <1>6, <1>7
    <3>2. d = L + 1
      <4>1. L + 1 \in 1 .. L + 1
        BY <1>4
      <4> QED BY <3>1, <4>1, <1>5, <1>9
    <3> QED BY <3>2, <2>3, <1>4
  <2> QED BY <2>4, <2>5, <1>4
<1>17. Current'
  <2>1. Rest' = n + 1 /\ chunk_pos' - chunk_size' = 0 /\ chunk_pos' > 0 /\ chunk' + 1 = L + 1
    BY <1>2, <1>3, <1>4, <1>7, PoolFacts DEF Rest
  <2>2. TopIs(chunk + 1, chunk_pos - chunk_size)'
    BY <2>1, <1>4, <1>5, <1>7 DEF TopIs, e
  <2>3. f' \in BOOLEAN /\ called' = <<>> /\ pool_pc' = "ready" /\ chunk' >= 0 /\ ~(chunk' < 0)
    BY <1>1, <1>2, <1>4 DEF PoolInv, PoolTypeOK
  <2> QED BY <2>1, <2>2, <2>3 DEF Current
<1>18. LastFirst'
  BY <1>1, <1>2, <1>4, <1>7 DEF LastFirst
<1> QED BY <1>11, <1>12, <1>13, <1>14, <1>15, <1>16, <1>17, <1>18 DEF PoolInv

\* What chunkpool_free2 calls back for is what was given last.
LEMMA CallsBack ==
  ASSUME PoolInv, CallBack
  PROVE  PoolInv'
<1> DEFINE s == chunk_size
           at == chunk_pos - s
           r == Rest
<1>1. pool_pc = "call" /\ f = TRUE /\ chunk >= 0 /\ f \in BOOLEAN
  BY DEF CallBack, PoolInv, Current, PoolTypeOK
<1>2. /\ called' = Append(called, Element(chunks[chunk + 1], at))
      /\ IF at > 0 THEN chunk_pos' = at /\ pool_pc' = "call"
         ELSE chunk_pos' = chunk_max /\ pool_pc' = "release"
      /\ chunk_size' = chunk_size /\ chunk' = chunk /\ chunk_max' = chunk_max
      /\ chunks' = chunks /\ live' = live /\ given' = given /\ f' = f
  BY DEF CallBack
<1>3. s \in Nat \ {0}
  BY <1>1, PoolFacts DEF InUse
<1>4. /\ r > 0 /\ r \in 1 .. Len(given) /\ given[r] = Element(chunks[chunk + 1], at)
  BY <1>1, PoolFacts DEF PoolInv, Current, TopIs, InUse
<1>5. given # <<>>
  BY <1>4, EmptySeq, PoolFacts
<1>6. Link(r, chunk + 1) /\ chunk + 1 \in 1 .. Len(chunks)
  <2>1. PICK c \in 1 .. Len(chunks) : Link(r, c)
    BY <1>1, <1>4 DEF PoolInv, Chain, InUse
  <2>2. chunk + 1 \in 1 .. Len(chunks)
    BY <1>1, PoolFacts
  <2>3. chunks[c] = chunks[chunk + 1]
    BY <2>1, <1>4 DEF Link, Place, Element
  <2>4. c = chunk + 1
    BY <2>2, <2>3, <1>1, <1>5 DEF PoolInv, Session, InUse
  <2> QED BY <2>1, <2>2, <2>4
<1>7. /\ at \in Nat /\ Multiple(at) /\ at + s <= chunk_max
      /\ at # 0 => r > 1 /\ given[r - 1] = Element(chunks[chunk + 1], at - s)
      /\ at = 0 /\ chunk + 1 > 1 =>
           r > 1 /\ given[r - 1] = Element(chunks[chunk + 1 - 1], chunk_max - s)
      /\ at = 0 /\ chunk + 1 = 1 => r = 1
  <2>1. given[r].offset = at /\ given[r].offset \in Nat
    BY <1>4, PoolFacts DEF Element
  <2>a. Multiple(given[r].offset)
    BY <1>6 DEF Link
  <2>b. given[r].offset + s <= chunk_max
    BY <1>6 DEF Link
  <2>c. given[r].offset # 0 =>
          r > 1 /\ given[r - 1] = Element(chunks[chunk + 1], given[r].offset - s)
    BY <1>6 DEF Link
  <2>d. given[r].offset = 0 /\ chunk + 1 > 1 =>
          r > 1 /\ given[r - 1] = Element(chunks[chunk + 1 - 1], chunk_max - s)
    <3>1. PICK c \in Int : c = chunk + 1 /\ Link(r, c)
      BY <1>1, <1>6, PoolFacts
    <3>2. given[r].offset = 0 /\ c > 1 => r > 1 /\ given[r - 1] = Element(chunks[c - 1], chunk_max - s)
      BY <3>1 DEF Link
    <3>3. c - 1 = chunk + 1 - 1 /\ (c > 1 <=> chunk + 1 > 1)
      BY <3>1, PoolFacts
    <3> HIDE DEF r, s
    <3> QED BY <3>2, <3>3
  <2>e. given[r].offset = 0 /\ chunk + 1 = 1 => r = 1
    BY <1>6 DEF Link
  <2> HIDE DEF at, r
  <2> QED BY <2>1, <2>a, <2>b, <2>c, <2>d, <2>e
<1>8. /\ called' \in Seq(Elements) /\ Len(called') = Len(called) + 1
      /\ \A i \in 1 .. Len(called) : called'[i] = called[i]
      /\ called'[Len(called) + 1] = given[r]
  <2>1. Element(chunks[chunk + 1], at) \in Elements
    BY <1>4, PoolFacts
  <2> QED BY <2>1, <1>2, <1>4, PoolFacts, AppendProperties
<1>9. r = Len(given) - Len(called) /\ Rest' = r - 1 /\ r \in Int /\ Rest' \in Int
  BY <1>2, <1>8, PoolFacts DEF Rest
<1>10. PoolTypeOK'
  <2>1. chunk_pos' \in -1 .. chunk_max'
    <3>1. chunk_pos' = at \/ chunk_pos' = chunk_max
      BY <1>2
    <3>2. chunk_max \in Int /\ at \in Nat /\ at + s <= chunk_max
      BY <1>7, PoolFacts
    <3>3. at <= chunk_max /\ chunk_max >= 0
      BY <3>2, <1>3
    <3> HIDE DEF at
    <3> QED BY <3>1, <3>2, <3>3, <1>2
  <2>2. pool_pc' \in {"call", "release"}
    BY <1>2
  <2>3. called' \in Seq([block : Block, offset : 0 .. CHUNK_BYTES])
    BY <1>8 DEF Elements
  <2> QED BY <2>1, <2>2, <2>3, <1>2 DEF PoolInv, PoolTypeOK
<1>11. InUse /\ InUse' /\ pool_pc' \in {"call", "release"}
  BY <1>1, <1>2 DEF InUse
<1>12. Sized'
  <2>1. Multiple(chunk_pos)'
    BY <1>2, <1>7, <1>11 DEF PoolInv, Sized, Multiple
  <2> QED BY <2>1, <1>2, <1>11 DEF PoolInv, Sized, Multiple
<1>13. Blocks'
  BY <1>2, <1>11 DEF PoolInv, Blocks
<1>14. Session'
  BY <1>2, <1>11 DEF PoolInv, Session
<1>15. Chain'
  <2>1. ASSUME NEW i \in 1 .. Len(given) PROVE \E c \in 1 .. Len(chunks) : Link(i, c)'
    <3>1. PICK c \in 1 .. Len(chunks) : Link(i, c)
      BY <1>11 DEF PoolInv, Chain
    <3>2. Link(i, c)'
      BY <3>1, <1>2 DEF Link, Place, Multiple
    <3> QED BY <3>2
  <2> QED BY <2>1, <1>2 DEF Chain
<1>16. InOrder'
  BY <1>2, <1>11 DEF PoolInv, InOrder, Place
<1>17. LastFirst'
  <2>1. ASSUME NEW i \in 1 .. Len(called) + 1 PROVE called'[i] = given[Len(given) + 1 - i]
    <3>1. CASE i \in 1 .. Len(called)
      BY <3>1, <1>8 DEF PoolInv, LastFirst
    <3>2. CASE i = Len(called) + 1
      <4>1. Len(given) + 1 - i = r
        BY <3>2, <1>9, PoolFacts
      <4> QED BY <3>2, <4>1, <1>8
    <3> QED BY <3>1, <3>2, PoolFacts
  <2>2. Len(called') <= Len(given)
    BY <1>4, <1>8, <1>9, PoolFacts
  <2> QED BY <2>1, <2>2, <1>2, <1>8, <1>11 DEF LastFirst, InUse
<1>18. Current'
  <2>1. CASE at > 0
    <3>1. /\ chunk_pos' = at /\ pool_pc' = "call" /\ at # 0
          /\ r > 1 /\ given[r - 1] = Element(chunks[chunk + 1], at - s)
      BY <2>1, <1>2, <1>7
    <3>2. TopIs(chunk + 1, chunk_pos - chunk_size)'
      BY <3>1, <1>2, <1>9 DEF TopIs
    <3>3. ~(chunk' < 0) /\ chunk' >= 0 /\ chunk_pos' > 0 /\ f' = TRUE
      BY <3>1, <2>1, <1>1, <1>2, PoolFacts
    <3> QED BY <3>1, <3>2, <3>3 DEF Current
  <2>2. CASE at = 0
    <3>1. chunk_pos' = chunk_max' /\ pool_pc' = "release" /\ f' = TRUE /\ chunk' = chunk /\ chunk >= 0
      BY <2>2, <1>1, <1>2
    <3>2. ASSUME chunk > 0 PROVE TopIs(chunk, chunk_max - chunk_size)'
      <4>1. chunk + 1 > 1 /\ chunk + 1 - 1 = chunk
        BY <3>2, PoolFacts
      <4>2. r > 1 /\ given[r - 1] = Element(chunks[chunk], chunk_max - s)
        BY <4>1, <2>2, <1>7
      <4> QED BY <4>2, <1>2, <1>9 DEF TopIs
    <3>3. ASSUME chunk = 0 PROVE Rest' = 0
      BY <3>3, <2>2, <1>7, <1>9
    <3> QED BY <3>1, <3>2, <3>3 DEF Current
  <2> QED BY <2>1, <2>2, <1>7
<1> QED BY <1>10, <1>12, <1>13, <1>14, <1>15, <1>16, <1>17, <1>18 DEF PoolInv

\* What does not touch the elements keeps what is known of them.
LEMMA ElementsStay ==
  ASSUME PoolInv, InUse, UNCHANGED <<chunk_size, chunk_max, chunks, given>>
  PROVE  Chain' /\ InOrder'
<1>1. ASSUME NEW i \in 1 .. Len(given) PROVE \E c \in 1 .. Len(chunks) : Link(i, c)'
  <2>1. PICK c \in 1 .. Len(chunks) : Link(i, c)
    BY DEF PoolInv, Chain
  <2>2. Link(i, c)'
    BY <2>1 DEF Link, Place, Multiple
  <2> QED BY <2>2
<1>2. Chain'
  BY <1>1 DEF Chain
<1>3. InOrder'
  BY DEF PoolInv, InOrder, Place
<1> QED BY <1>2, <1>3

LEMMA Releases ==
  ASSUME PoolInv, Release
  PROVE  PoolInv'
<1>1. pool_pc = "release" /\ chunk >= 0 /\ chunk \in Int /\ InUse
  BY PoolFacts DEF Release, PoolInv, Current, InUse
<1>2. /\ live' = live \ {chunks[chunk + 1]} /\ chunk' = chunk - 1 /\ pool_pc' = "free"
      /\ chunk_size' = chunk_size /\ chunk_pos' = chunk_pos /\ chunk_max' = chunk_max
      /\ chunks' = chunks /\ given' = given /\ called' = called /\ f' = f
  BY DEF Release
<1>3. InUse'
  BY <1>2 DEF InUse
<1>4. PoolTypeOK'
  <2>1. chunk' \in -1 .. CHUNKPOOL_CHUNKS_MAX - 1 /\ chunk' < Len(chunks')
    <3>1. chunk \in -1 .. CHUNKPOOL_CHUNKS_MAX - 1
      BY DEF PoolInv, PoolTypeOK
    <3> QED BY <3>1, <1>1, <1>2, PoolFacts, ChunksAssumption
  <2> QED BY <2>1, <1>2 DEF PoolInv, PoolTypeOK
<1>5. Sized' /\ Session'
  BY <1>1, <1>2, <1>3 DEF PoolInv, Sized, Session, Multiple
<1>6. Blocks'
  <2>1. \A k, l \in 1 .. chunk + 1 : k # l => chunks[k] # chunks[l]
    BY DEF PoolInv, Blocks
  <2>2. live = {chunks[k] : k \in 1 .. chunk + 1}
    BY DEF PoolInv, Blocks
  <2>3. chunk' + 1 = chunk
    BY <1>1, <1>2
  <2>4. /\ chunk + 1 \in 1 .. chunk + 1
        /\ \A k \in 1 .. chunk + 1 : k \in 1 .. chunk \/ k = chunk + 1
        /\ \A k \in 1 .. chunk : k \in 1 .. chunk + 1 /\ k # chunk + 1
    BY <1>1
  <2>5. live' = {chunks[k] : k \in 1 .. chunk}
    BY <2>1, <2>2, <2>4, <1>2
  <2> QED BY <2>1, <2>3, <2>4, <2>5, <1>2, <1>3 DEF Blocks
<1>7. Chain' /\ InOrder'
  BY <1>1, <1>2, ElementsStay
<1>8. LastFirst'
  BY <1>2 DEF PoolInv, LastFirst
<1>9. Current'
  <2>1. Rest' = Rest
    BY <1>2 DEF Rest
  <2>2. CASE f = TRUE
    <3>1. /\ chunk_pos = chunk_max
          /\ chunk > 0 => TopIs(chunk, chunk_max - chunk_size)
          /\ chunk = 0 => Rest = 0
      BY <2>2, <1>1 DEF PoolInv, Current
    <3>2. ASSUME chunk' >= 0 PROVE TopIs(chunk + 1, chunk_pos - chunk_size)' /\ chunk_pos' > 0
      <4>1. chunk > 0 /\ chunk' + 1 = chunk
        BY <3>2, <1>1, <1>2
      <4>2. TopIs(chunk + 1, chunk_pos - chunk_size)'
        BY <4>1, <3>1, <2>1, <1>2 DEF TopIs
      <4>3. chunk_pos' > 0
        <5>1. chunk_size \in Nat \ {0} /\ chunk_size <= chunk_max /\ chunk_max \in Int
          BY <1>1, PoolFacts DEF PoolInv, Sized
        <5> QED BY <5>1, <3>1, <1>2
      <4> QED BY <4>2, <4>3
    <3>3. ASSUME chunk' < 0 PROVE Rest' = 0 /\ chunk_pos' = chunk_max'
      <4>1. chunk = 0
        BY <3>3, <1>1, <1>2
      <4> QED BY <4>1, <3>1, <2>1, <1>2
    <3> QED BY <3>2, <3>3, <2>2, <1>2 DEF Current
  <2>3. CASE f = FALSE
    <3>1. called = <<>>
      BY <2>3 DEF PoolInv, Current
    <3> QED BY <3>1, <2>3, <1>2 DEF Current
  <2> QED BY <2>2, <2>3 DEF PoolInv, PoolTypeOK
<1> QED BY <1>4, <1>5, <1>6, <1>7, <1>8, <1>9 DEF PoolInv

LEMMA Returns ==
  ASSUME PoolInv, FreeReturns
  PROVE  PoolInv'
<1>1. pool_pc = "free" /\ chunk = -1 /\ InUse
  BY PoolFacts DEF FreeReturns, InUse
<1>2. /\ chunk_size' = -1 /\ chunk_max' = -1 /\ chunk_pos' = -1 /\ pool_pc' = "freed"
      /\ chunk' = chunk /\ chunks' = chunks /\ live' = live /\ given' = given
      /\ called' = called /\ f' = f
  BY DEF FreeReturns
<1>3. PoolTypeOK'
  <2>1. -1 \in -1 .. CHUNK_BYTES /\ -1 \in -1 .. -1
    BY BytesAssumption
  <2> QED BY <2>1, <1>2 DEF PoolInv, PoolTypeOK
<1>4. ~InUse'
  BY <1>2 DEF InUse
<1>5. Sized' /\ Session' /\ Chain' /\ InOrder'
  BY <1>4 DEF Sized, Session, Chain, InOrder
<1>6. Blocks'
  BY <1>1, <1>2 DEF PoolInv, Blocks
<1>7. f = TRUE => Rest = 0
  BY <1>1, PoolFacts DEF PoolInv, Current
<1>8. Rest' = Rest
  BY <1>2 DEF Rest
<1>9. f = TRUE => Len(called) = Len(given)
  BY <1>7, PoolFacts DEF Rest
<1>10. f \in BOOLEAN /\ (f = FALSE => called = <<>>)
  BY DEF PoolInv, PoolTypeOK, Current
<1>11. Current'
  BY <1>2, <1>4, <1>7, <1>8, <1>10 DEF Current
<1>12. LastFirst'
  BY <1>2, <1>9, <1>10 DEF PoolInv, LastFirst
<1> QED BY <1>3, <1>5, <1>6, <1>11, <1>12 DEF PoolInv

\* The steps that only choose where to go on.
LEMMA OnlyControl ==
  ASSUME PoolInv, InUse, UNCHANGED <<ctx, live, given, called>>,
         \/ pool_pc = "ready" /\ pool_pc' \in {"out of chunks", "out of memory"} /\ f' = f
         \/ pool_pc = "ready" /\ pool_pc' = "free" /\ f' \in BOOLEAN
         \/ FreeNext
  PROVE  PoolInv'
<1>1. /\ chunk_size' = chunk_size /\ chunk' = chunk /\ chunk_pos' = chunk_pos
      /\ chunk_max' = chunk_max /\ chunks' = chunks /\ live' = live /\ given' = given
      /\ called' = called /\ f' \in BOOLEAN /\ f \in BOOLEAN
  BY DEF ctx, FreeNext, PoolInv, PoolTypeOK
<1>2. /\ InUse' /\ pool_pc' \in {"free", "call", "release", "out of chunks", "out of memory"}
      /\ pool_pc' \in {"out of chunks", "out of memory"} => pool_pc = "ready"
  BY DEF FreeNext, InUse
<1>3. PoolTypeOK'
  BY <1>1, <1>2 DEF PoolInv, PoolTypeOK
<1>4. Sized' /\ Blocks'
  BY <1>1, <1>2 DEF PoolInv, Sized, Blocks, Multiple
<1>5. Session'
  BY <1>1, <1>2 DEF PoolInv, Session
<1>6. Chain' /\ InOrder'
  BY <1>1, ElementsStay
<1>7. LastFirst'
  BY <1>1, <1>2 DEF PoolInv, LastFirst
<1>8. Current'
  <2>1. Rest' = Rest
    BY <1>1 DEF Rest
  <2>2. \A c, at : TopIs(c, at)' <=> TopIs(c, at)
    BY <2>1, <1>1 DEF TopIs
  <2>3. CASE pool_pc = "ready"
    <3>1. /\ called = <<>>
          /\ chunk >= 0 => TopIs(chunk + 1, chunk_pos - chunk_size) /\ chunk_pos > 0
          /\ chunk < 0 => Rest = 0 /\ chunk_pos = chunk_max
      BY <2>3 DEF PoolInv, Current, InUse
    <3>2. TopIs(chunk + 1, chunk_pos - chunk_size)' <=> TopIs(chunk + 1, chunk_pos - chunk_size)
      BY <2>1, <1>1 DEF TopIs
    <3>3. pool_pc' \in {"free", "out of chunks", "out of memory"}
      BY <2>3 DEF FreeNext
    <3> QED BY <3>1, <3>2, <3>3, <2>1, <1>1 DEF Current
  <2>4. CASE FreeNext
    <3>1. pool_pc = "free" /\ chunk >= 0 /\ f' = f /\ ~(chunk < 0)
      BY <2>4, PoolFacts DEF FreeNext
    <3>2. CASE f = TRUE
      <4>1. pool_pc' = "call"
        BY <3>2, <2>4 DEF FreeNext
      <4>2. TopIs(chunk + 1, chunk_pos - chunk_size) /\ chunk_pos > 0
        BY <3>1, <3>2 DEF PoolInv, Current, InUse
      <4>3. TopIs(chunk + 1, chunk_pos - chunk_size)'
        BY <4>2, <2>1, <1>1 DEF TopIs
      <4> QED BY <4>1, <4>2, <4>3, <3>1, <3>2, <1>1 DEF Current
    <3>3. CASE f = FALSE
      <4>1. pool_pc' = "release" /\ called = <<>>
        BY <3>3, <2>4 DEF FreeNext, PoolInv, Current
      <4> QED BY <4>1, <3>1, <3>3, <1>1 DEF Current
    <3> QED BY <3>2, <3>3, <1>1
  <2> QED BY <2>3, <2>4
<1> QED BY <1>3, <1>4, <1>5, <1>6, <1>7, <1>8 DEF PoolInv

LEMMA PoolNextInvariant == PoolInv /\ [PoolNext]_poolVars => PoolInv'
<1> SUFFICES ASSUME PoolInv, [PoolNext]_poolVars PROVE PoolInv'
  OBVIOUS
<1>1. ASSUME NEW width \in Sizes, ChunkpoolInit(width) PROVE PoolInv'
  BY <1>1, InitPool
<1>2. CASE MallocInChunk
  BY <1>2, InChunk
<1>3. ASSUME NEW b \in Block \ live, MallocNewChunk(b) PROVE PoolInv'
  BY <1>3, NewChunk
<1>4. CASE OutOfChunks
  BY <1>4, OnlyControl DEF OutOfChunks, InUse
<1>5. CASE OutOfMemory
  BY <1>5, OnlyControl DEF OutOfMemory, InUse
<1>6. ASSUME NEW callback \in BOOLEAN, ChunkpoolFree(callback) PROVE PoolInv'
  BY <1>6, OnlyControl DEF ChunkpoolFree, InUse
<1>7. CASE FreeNext
  BY <1>7, OnlyControl DEF FreeNext, InUse
<1>8. CASE CallBack
  BY <1>8, CallsBack
<1>9. CASE Release
  BY <1>9, Releases
<1>10. CASE FreeReturns
  BY <1>10, Returns
<1>11. CASE UNCHANGED poolVars
  <2>1. /\ chunk_size' = chunk_size /\ chunk' = chunk /\ chunk_pos' = chunk_pos
        /\ chunk_max' = chunk_max /\ chunks' = chunks /\ live' = live /\ given' = given
        /\ called' = called /\ f' = f /\ pool_pc' = pool_pc
    BY <1>11 DEF poolVars, ctx
  <2>2. PoolTypeOK' /\ Sized' /\ Blocks' /\ Session'
    BY <2>1 DEF PoolInv, PoolTypeOK, InUse, Sized, Multiple, Blocks, Session
  <2>3. Chain' /\ InOrder'
    <3>1. CASE InUse
      BY <3>1, <2>1, ElementsStay
    <3>2. CASE ~InUse
      BY <3>2, <2>1 DEF Chain, InOrder, InUse
    <3> QED BY <3>1, <3>2
  <2>4. Current' /\ LastFirst'
    BY <2>1 DEF PoolInv, Current, Rest, TopIs, LastFirst, InUse
  <2> QED BY <2>2, <2>3, <2>4 DEF PoolInv
<1> QED BY <1>1, <1>2, <1>3, <1>4, <1>5, <1>6, <1>7, <1>8, <1>9, <1>10, <1>11
        DEF PoolNext, Freeing, PoolExited

\* The invariant holds in every state.
THEOREM PoolInvariance == PoolSpec => []PoolInv
<1>1. PoolInit => PoolInv
  BY PoolInitInvariant
<1>2. PoolInv /\ [PoolNext]_poolVars => PoolInv'
  BY PoolNextInvariant
<1> QED BY <1>1, <1>2, PTL DEF PoolSpec

\* The position never leaves the chunk.
THEOREM PoolTypeCorrect == PoolSpec => []PoolTypeOK
<1>1. PoolInv => PoolTypeOK
  BY DEF PoolInv
<1> QED BY <1>1, PoolInvariance, PTL

\* The callback gets what was given, the last first, each once and all of it.
THEOREM CallsLastFirst == PoolSpec => []LastFirst
<1>1. PoolInv => LastFirst
  BY DEF PoolInv
<1> QED BY <1>1, PoolInvariance, PTL

\* Every chunk is freed.
THEOREM NothingIsLeft == PoolSpec => []NothingLeft
<1>1. PoolInv => NothingLeft
  <2> SUFFICES ASSUME PoolInv, pool_pc = "freed" PROVE live = {}
    BY DEF NothingLeft
  <2>1. chunk = -1 /\ live = {chunks[k] : k \in 1 .. chunk + 1}
    BY DEF PoolInv, Blocks, InUse
  <2> QED BY <2>1
<1> QED BY <1>1, PoolInvariance, PTL

\* Freeing a pool calls back every element, the last first, and leaves nothing.
THEOREM EverythingGivenBack == PoolSpec => []GivenBack
<1>1. LastFirst /\ NothingLeft => GivenBack
  BY DEF GivenBack
<1> QED BY <1>1, CallsLastFirst, NothingIsLeft, PTL

\* An element that is kept lies in one of the chunks in use.
LEMMA KeptIsLive ==
  ASSUME PoolInv, NEW i \in 1 .. Kept
  PROVE  /\ InUse /\ Kept \in 1 .. Len(given) /\ i \in 1 .. Len(given)
         /\ given[i].block \in live
<1>1. /\ InUse /\ Kept = Rest /\ (pool_pc = "ready" \/ (f /\ pool_pc \in {"free", "call", "release"}))
      /\ Kept \in 0 .. Len(given)
  <2>1. CASE pool_pc = "ready"
    BY <2>1, AtTop, PoolFacts DEF Kept, InUse
  <2>2. CASE pool_pc # "ready"
    BY <2>2, PoolFacts DEF Kept, Rest, InUse
  <2> QED BY <2>1, <2>2
<1>2. Kept \in 1 .. Len(given) /\ i \in 1 .. Len(given)
  BY <1>1, PoolFacts
<1>3. PICK top \in 1 .. chunk + 1 : given[Kept].block = chunks[top]
  <2>1. CASE pool_pc = "release"
    <3>1. chunk \in Int /\ chunk > 0 /\ TopIs(chunk, chunk_max - chunk_size)
      BY <2>1, <1>1, <1>2, PoolFacts DEF PoolInv, Current
    <3>2. given[Kept].block = chunks[chunk] /\ chunk \in 1 .. chunk + 1
      BY <3>1, <1>1 DEF TopIs, Element
    <3> QED BY <3>2
  <2>2. CASE pool_pc # "release"
    <3>1. chunk \in Int /\ chunk >= 0 /\ TopIs(chunk + 1, chunk_pos - chunk_size)
      BY <2>2, <1>1, <1>2, PoolFacts DEF PoolInv, Current
    <3>2. given[Kept].block = chunks[chunk + 1] /\ chunk + 1 \in 1 .. chunk + 1
      BY <3>1, <1>1 DEF TopIs, Element
    <3> QED BY <3>2
  <2> QED BY <2>1, <2>2
<1>4. PICK c \in 1 .. Len(chunks) : Link(i, c)
  BY <1>1, <1>2 DEF PoolInv, Chain
<1>5. c <= top
  <2>1. top \in 1 .. Len(chunks)
    BY PoolFacts
  <2>2. CASE i = Kept
    <3>1. given # <<>>
      BY <1>2, PoolFacts, EmptySeq
    <3>2. chunks[c] = chunks[top]
      BY <2>2, <1>3, <1>4 DEF Link, Place
    <3> QED BY <2>1, <3>1, <3>2, <1>1 DEF PoolInv, Session
  <2>3. CASE i # Kept
    <3>1. i < Kept
      BY <2>3, <1>2
    <3> QED BY <2>1, <3>1, <1>1, <1>2, <1>3, <1>4 DEF PoolInv, InOrder, Link, Place
  <2> QED BY <2>2, <2>3
<1>6. c \in 1 .. chunk + 1 /\ given[i].block = chunks[c]
  BY <1>4, <1>5, PoolFacts DEF Link, Place
<1> QED BY <1>1, <1>2, <1>6 DEF PoolInv, Blocks

\* No two elements share a byte, and all lie in memory that is allocated.
THEOREM ElementsDoNotOverlap == PoolSpec => []ElementsApart
<1>1. PoolInv => ElementsApart
  <2> SUFFICES ASSUME PoolInv, NEW i \in 1 .. Kept
               PROVE  /\ given[i].block \in live
                      /\ given[i].offset + chunk_size <= CHUNK_BYTES
                      /\ \A j \in 1 .. Kept :
                           i # j /\ given[i].block = given[j].block =>
                             \/ given[i].offset + chunk_size <= given[j].offset
                             \/ given[j].offset + chunk_size <= given[i].offset
    BY DEF ElementsApart
  <2>1. InUse /\ Kept \in 1 .. Len(given) /\ i \in 1 .. Len(given) /\ given[i].block \in live
    BY KeptIsLive
  <2>2. PICK c \in 1 .. Len(chunks) : Link(i, c)
    BY <2>1 DEF PoolInv, Chain
  <2>3. given[i].offset + chunk_size <= CHUNK_BYTES
    <3>1. given[i].offset + chunk_size <= chunk_max /\ given[i].offset \in Nat
      BY <2>1, <2>2, PoolFacts DEF Link
    <3> QED BY <3>1, PoolFacts, SMTT(30)
  <2>4. ASSUME NEW j \in 1 .. Kept, i # j, given[i].block = given[j].block
        PROVE  \/ given[i].offset + chunk_size <= given[j].offset
               \/ given[j].offset + chunk_size <= given[i].offset
    <3>1. j \in 1 .. Len(given) /\ Place(j, c) /\ Place(i, c)
      BY <2>1, <2>2, <2>4, PoolFacts DEF Link, Place
    <3>2. i < j \/ j < i
      BY <2>4, <2>1, <3>1
    <3> QED BY <3>1, <3>2, <2>1 DEF PoolInv, InOrder
  <2> QED BY <2>1, <2>3, <2>4
<1> QED BY <1>1, PoolInvariance, PTL

-----------------------------------------------------------------------------
(***************************************************************************)
(* Memory buffers.  What was asked for, and the room for it.               *)
(***************************************************************************)

\* What is asked for.
CallOK ==
  /\ buf_pc = "shrink" => call.op = "atmost" /\ call.n \in 0 .. MAX_LEN /\ want <= size
  /\ buf_pc \in {"grow", "copy"} =>
       \/ call.op \in {"append", "insert", "memcpy"} /\ call.mem \in Mem
       \/ call.op = "atleast"
  /\ buf_pc \in {"grow", "copy"} => newlen \in 0 .. MAX_LEN
  /\ buf_pc \in {"grow", "copy"} /\ call.op = "insert" => call.at \in 0 .. len

BufInv == MembufTypeOK /\ FitsTwice /\ CallOK

-----------------------------------------------------------------------------
(***************************************************************************)
(* Sequences as memory.                                                    *)
(***************************************************************************)
LEMMA Memory ==
  ASSUME NEW S, NEW n \in Nat, NEW b \in [1 .. n -> S]
  PROVE  b \in Seq(S) /\ Len(b) = n
<1>1. b \in Seq(S)
  BY SeqDef
<1>2. Len(b) \in Nat /\ DOMAIN b = 1 .. Len(b) /\ DOMAIN b = 1 .. n
  BY <1>1, LenProperties
<1> QED BY <1>1, <1>2

LEMMA Prefix ==
  ASSUME NEW S, NEW b \in Seq(S), NEW l \in 0 .. Len(b)
  PROVE  /\ SubSeq(b, 1, l) \in Seq(S) /\ Len(SubSeq(b, 1, l)) = l
         /\ \A i \in 1 .. l : SubSeq(b, 1, l)[i] = b[i]
<1>1. Len(b) \in Nat /\ l \in Int /\ 0 <= l
  BY LenProperties
<1>2. \A i \in 1 .. l : b[i] \in S
  BY <1>1, ElementOfSeq
<1> DEFINE p == SubSeq(b, 1, l)
<1>3. /\ p \in Seq(S) /\ Len(p) = IF 1 <= l THEN l - 1 + 1 ELSE 0
      /\ \A i \in 1 .. l - 1 + 1 : p[i] = b[1 + i - 1]
  BY <1>1, <1>2, SubSeqProperties
<1> HIDE DEF p
<1>4. p \in Seq(S) /\ Len(p) = l /\ \A i \in 1 .. l : p[i] = b[i]
  BY <1>1, <1>3
<1> QED BY <1>4 DEF p

LEMMA Suffix ==
  ASSUME NEW S, NEW b \in Seq(S), NEW n \in 0 .. Len(b)
  PROVE  /\ SubSeq(b, n + 1, Len(b)) \in Seq(S)
         /\ Len(SubSeq(b, n + 1, Len(b))) = Len(b) - n
         /\ \A i \in 1 .. Len(b) - n : SubSeq(b, n + 1, Len(b))[i] = b[i + n]
<1>1. Len(b) \in Nat /\ n \in Int /\ n + 1 \in Int /\ 0 <= n
  BY LenProperties
<1>2. \A i \in n + 1 .. Len(b) : b[i] \in S
  BY <1>1, ElementOfSeq
<1> DEFINE p == SubSeq(b, n + 1, Len(b))
<1>3. /\ p \in Seq(S) /\ Len(p) = IF n + 1 <= Len(b) THEN Len(b) - (n + 1) + 1 ELSE 0
      /\ \A i \in 1 .. Len(b) - (n + 1) + 1 : p[i] = b[n + 1 + i - 1]
  BY <1>1, <1>2, SubSeqProperties
<1> HIDE DEF p
<1>4. p \in Seq(S) /\ Len(p) = Len(b) - n /\ \A i \in 1 .. Len(b) - n : p[i] = b[i + n]
  BY <1>1, <1>3
<1> QED BY <1>4 DEF p

\* Memory that agrees up to a length holds the same bytes up to it.
LEMMA SamePrefix ==
  ASSUME NEW S, NEW b \in Seq(S), NEW c \in Seq(S), NEW l \in 0 .. Len(b), l <= Len(c),
         \A i \in 1 .. l : b[i] = c[i]
  PROVE  SubSeq(b, 1, l) = SubSeq(c, 1, l)
<1>1. l \in 0 .. Len(c)
  BY LenProperties
<1> DEFINE p == SubSeq(b, 1, l)
           q == SubSeq(c, 1, l)
<1>2. p \in Seq(S) /\ Len(p) = l /\ \A i \in 1 .. l : p[i] = b[i]
  BY Prefix
<1>3. q \in Seq(S) /\ Len(q) = l /\ \A i \in 1 .. l : q[i] = c[i]
  BY <1>1, Prefix
<1> HIDE DEF p, q
<1>4. p = q
  BY <1>2, <1>3, SeqEqual
<1> QED BY <1>4 DEF p, q

LEMMA AppendedBytes ==
  ASSUME NEW S, NEW b \in Seq(S), NEW l \in 0 .. Len(b), NEW m \in Seq(S),
         NEW k, k = l + Len(m), k <= Len(b), NEW c,
         c = [i \in 1 .. Len(b) |-> IF i > l /\ i <= k THEN m[i - l] ELSE b[i]]
  PROVE  /\ c \in Seq(S) /\ Len(c) = Len(b)
         /\ SubSeq(c, 1, k) = SubSeq(b, 1, l) \o m
<1> DEFINE n == Len(m)
           p == SubSeq(b, 1, l)
           q == SubSeq(c, 1, k)
           r == p \o m
<1>1. Len(b) \in Nat /\ n \in Nat /\ l \in Nat /\ k = l + n /\ k \in Nat
  BY LenProperties
<1>2. (\A i \in 1 .. Len(b) : b[i] \in S) /\ (\A i \in 1 .. n : m[i] \in S)
  BY ElementOfSeq
<1>3. c \in [1 .. Len(b) -> S]
  BY <1>1, <1>2
<1>4. c \in Seq(S) /\ Len(c) = Len(b)
  BY <1>1, <1>3, Memory
<1>5. k \in 0 .. Len(c)
  BY <1>1, <1>4
<1>6. q \in Seq(S) /\ Len(q) = k /\ \A i \in 1 .. k : q[i] = c[i]
  BY <1>4, <1>5, Prefix
<1>7. p \in Seq(S) /\ Len(p) = l /\ \A i \in 1 .. l : p[i] = b[i]
  BY Prefix
<1> HIDE DEF p, q
<1>8. r \in Seq(S) /\ Len(r) = k /\ \A i \in 1 .. k : r[i] = IF i <= l THEN p[i] ELSE m[i - l]
  BY <1>7, ConcatProperties
<1> HIDE DEF r
<1>9. ASSUME NEW i \in 1 .. k PROVE q[i] = r[i]
  <2>1. i \in 1 .. Len(b) /\ i <= k /\ i \in Int
    BY <1>1, <1>9
  <2>2. c[i] = IF i > l THEN m[i - l] ELSE b[i]
    BY <2>1, <1>1, <1>9
  <2>3. CASE i <= l
    <3>1. i \in 1 .. l /\ c[i] = b[i] /\ r[i] = p[i] /\ p[i] = b[i]
      BY <2>2, <2>3, <1>1, <1>7, <1>8, <1>9
    <3> QED BY <3>1, <1>6, <1>9
  <2>4. CASE i > l
    <3>1. c[i] = m[i - l] /\ r[i] = m[i - l]
      BY <2>1, <2>2, <2>4, <1>1, <1>8, <1>9
    <3> QED BY <3>1, <1>6, <1>9
  <2> QED BY <2>3, <2>4, <1>1
<1>10. q = r
  BY <1>6, <1>8, <1>9, SeqEqual
<1> QED BY <1>4, <1>10 DEF p, q, r

LEMMA OverwrittenBytes ==
  ASSUME NEW S, NEW b \in Seq(S), NEW l \in 0 .. Len(b), NEW m \in Seq(S), Len(m) <= Len(b), NEW c,
         c = [i \in 1 .. Len(b) |-> IF i <= Len(m) THEN m[i] ELSE b[i]]
  PROVE  /\ c \in Seq(S) /\ Len(c) = Len(b)
         /\ SubSeq(c, 1, l) = [i \in 1 .. Len(SubSeq(b, 1, l)) |->
                                 IF i <= Len(m) THEN m[i] ELSE SubSeq(b, 1, l)[i]]
<1> DEFINE p == SubSeq(b, 1, l)
           q == SubSeq(c, 1, l)
           r == [i \in 1 .. Len(p) |-> IF i <= Len(m) THEN m[i] ELSE p[i]]
<1>1. Len(b) \in Nat /\ Len(m) \in Nat /\ l \in Nat /\ l <= Len(b)
  BY LenProperties
<1>2. (\A i \in 1 .. Len(b) : b[i] \in S) /\ (\A i \in 1 .. Len(m) : m[i] \in S)
  BY ElementOfSeq
<1>3. c \in [1 .. Len(b) -> S]
  BY <1>1, <1>2
<1>4. c \in Seq(S) /\ Len(c) = Len(b)
  BY <1>1, <1>3, Memory
<1>5. q \in Seq(S) /\ Len(q) = l /\ \A i \in 1 .. l : q[i] = c[i]
  BY <1>1, <1>4, Prefix
<1>6. p \in Seq(S) /\ Len(p) = l /\ \A i \in 1 .. l : p[i] = b[i]
  BY Prefix
<1> HIDE DEF p, q
<1>7. ASSUME NEW i \in 1 .. l
      PROVE  q[i] = r[i] /\ r[i] \in S
  <2>1. i \in 1 .. Len(b) /\ q[i] = c[i] /\ p[i] = b[i] /\ i \in 1 .. Len(p)
    <3>1. i \in 1 .. l /\ i \in 1 .. Len(b)
      BY <1>1, <1>7
    <3>2. q[i] = c[i] /\ p[i] = b[i]
      BY <3>1, <1>5, <1>6
    <3> QED BY <3>1, <3>2, <1>6
  <2>2. CASE i <= Len(m)
    BY <2>1, <2>2, <1>1, <1>2
  <2>3. CASE ~(i <= Len(m))
    BY <2>1, <2>3, <1>1, <1>2
  <2> QED BY <2>2, <2>3
<1>8. r \in Seq(S) /\ Len(r) = l
  <2>1. r \in [1 .. l -> S]
    BY <1>6, <1>7
  <2> HIDE DEF r
  <2> QED BY <2>1, <1>1, Memory
<1> HIDE DEF r
<1>9. q = r
  BY <1>5, <1>7, <1>8, SeqEqual
<1> QED BY <1>4, <1>9 DEF p, q, r

LEMMA TrimmedBytes ==
  ASSUME NEW S, NEW b \in Seq(S), NEW l \in 0 .. Len(b), NEW at \in 0 .. l, NEW c,
         c = [i \in 1 .. Len(b) |-> IF i <= l - at THEN b[i + at] ELSE b[i]]
  PROVE  /\ c \in Seq(S) /\ Len(c) = Len(b)
         /\ SubSeq(c, 1, l - at) = SubSeq(SubSeq(b, 1, l), at + 1, Len(SubSeq(b, 1, l)))
<1> DEFINE p == SubSeq(b, 1, l)
           q == SubSeq(c, 1, l - at)
           r == SubSeq(p, at + 1, Len(p))
<1>1. Len(b) \in Nat /\ l \in Nat /\ at \in Nat /\ l <= Len(b) /\ at <= l
  BY LenProperties
<1>2. \A i \in 1 .. Len(b) : b[i] \in S
  BY ElementOfSeq
<1>3. c \in [1 .. Len(b) -> S]
  <2>1. ASSUME NEW i \in 1 .. Len(b) PROVE c[i] \in S
    <3>1. CASE i <= l - at
      <4>1. i + at \in 1 .. Len(b)
        BY <3>1, <1>1
      <4> QED BY <3>1, <4>1, <1>2
    <3> QED BY <3>1, <1>2
  <2> QED BY <2>1
<1>4. c \in Seq(S) /\ Len(c) = Len(b)
  BY <1>1, <1>3, Memory
<1>5. l - at \in 0 .. Len(c)
  BY <1>1, <1>4
<1>6. q \in Seq(S) /\ Len(q) = l - at /\ \A i \in 1 .. l - at : q[i] = c[i]
  BY <1>4, <1>5, Prefix
<1>7. p \in Seq(S) /\ Len(p) = l /\ \A i \in 1 .. l : p[i] = b[i]
  BY Prefix
<1> HIDE DEF p, q
<1>8. r \in Seq(S) /\ Len(r) = Len(p) - at /\ \A i \in 1 .. Len(p) - at : r[i] = p[i + at]
  BY <1>7, Suffix
<1> HIDE DEF r
<1>9. ASSUME NEW i \in 1 .. l - at PROVE q[i] = r[i]
  <2>1. i \in 1 .. Len(b) /\ i <= l - at /\ i + at \in 1 .. l /\ i \in 1 .. Len(p) - at
    BY <1>1, <1>7, <1>9
  <2>2. q[i] = c[i] /\ c[i] = b[i + at]
    BY <2>1, <1>6, <1>9
  <2>3. r[i] = p[i + at] /\ p[i + at] = b[i + at]
    BY <2>1, <1>7, <1>8
  <2> QED BY <2>2, <2>3
<1>10. q = r
  BY <1>6, <1>7, <1>8, <1>9, SeqEqual
<1> QED BY <1>4, <1>10 DEF p, q, r

LEMMA KeptBytes ==
  ASSUME NEW S, NEW b \in Seq(S), NEW l \in 0 .. Len(b), NEW n \in 0 .. l
  PROVE  SubSeq(b, 1, n) = SubSeq(SubSeq(b, 1, l), 1, n)
<1> DEFINE p == SubSeq(b, 1, l)
           q == SubSeq(b, 1, n)
           r == SubSeq(p, 1, n)
<1>1. Len(b) \in Nat /\ l \in Nat /\ n \in Nat /\ n \in 0 .. Len(b)
  BY LenProperties
<1>2. q \in Seq(S) /\ Len(q) = n /\ \A i \in 1 .. n : q[i] = b[i]
  BY <1>1, Prefix
<1>3. p \in Seq(S) /\ Len(p) = l /\ \A i \in 1 .. l : p[i] = b[i]
  BY Prefix
<1> HIDE DEF p, q
<1>4. r \in Seq(S) /\ Len(r) = n /\ \A i \in 1 .. n : r[i] = p[i]
  BY <1>3, Prefix
<1> HIDE DEF r
<1>5. ASSUME NEW i \in 1 .. n PROVE q[i] = r[i]
  <2>1. i \in 1 .. l
    BY <1>1, <1>5
  <2> QED BY <2>1, <1>2, <1>3, <1>4, <1>5
<1>6. q = r
  BY <1>2, <1>4, <1>5, SeqEqual
<1> QED BY <1>6 DEF p, q, r

-----------------------------------------------------------------------------
(***************************************************************************)
(* The invariant.                                                          *)
(***************************************************************************)
\* A size is an int, and the one that was meant unless it is too large for one.
LEMMA WrappedFacts ==
  ASSUME NEW n \in Int
  PROVE  /\ Wrapped(n) \in -INT_MAX - 1 .. INT_MAX
         /\ n \in 0 .. INT_MAX => Wrapped(n) = n
<1>1. PICK k \in Nat : k = INT_MAX + 1 /\ k > 0
  BY LengthAssumption
<1>2. PICK m \in Int : m = n + k
  OBVIOUS
<1>3. PICK w \in Nat : w = 2 * k /\ w > 0
  BY <1>1
<1>4. m % w \in 0 .. w - 1
  BY <1>3
<1>5. m \in 0 .. w - 1 => m % w = m
  BY <1>3
<1>6. Wrapped(n) = (m % w) - k
  BY <1>1, <1>2, <1>3, LengthAssumption DEF Wrapped
<1>7. INT_MAX = k - 1
  BY <1>1, LengthAssumption
<1> QED BY ONLY <1>2, <1>3, <1>4, <1>5, <1>6, <1>7, n \in Int, k \in Nat, m \in Int, w \in Nat

LEMMA BufFacts ==
  ASSUME MembufTypeOK
  PROVE  /\ MAX_LEN \in Nat /\ INT_MAX \in Nat /\ 1 <= INT_MAX
         /\ buf \in Seq(Byte) /\ Len(buf) = size
         /\ size \in Nat /\ size <= INT_MAX
         /\ len \in Nat /\ len <= size /\ len \in 0 .. Len(buf)
         /\ want \in Int /\ want <= INT_MAX /\ want >= -INT_MAX - 1
         /\ buf_pc # "grow" => want \in Nat
BY LengthAssumption DEF MembufTypeOK

\* What is passed is a string of bytes.
LEMMA Passed == ASSUME NEW mem \in Mem PROVE mem \in Seq(Byte) /\ Len(mem) \in Nat
BY MemAssumption, LenProperties

LEMMA BufInitInvariant == MembufInit => BufInv
<1> SUFFICES ASSUME MembufInit PROVE BufInv
  OBVIOUS
<1>1. buf \in Seq(Byte) /\ Len(buf) = 0
  BY EmptySeq DEF MembufInit
<1> QED BY <1>1, LengthAssumption DEF MembufInit, BufInv, MembufTypeOK, CallOK, FitsTwice

\* A call that begins asks for a length within the bound.
LEMMA EnterInvariant ==
  ASSUME BufInv, NEW c, Enter(c), c # Nothing, newlen' \in 0 .. MAX_LEN,
         \/ c.op \in {"append", "insert", "memcpy"} /\ c.mem \in Mem
         \/ c.op = "atleast",
         c.op = "insert" => c.at \in 0 .. len
  PROVE  BufInv'
<1>1. /\ buf_pc' = "grow" /\ call' = c /\ buf' = buf /\ len' = len /\ size' = size
      /\ want' = IF size = 0 THEN 1 ELSE size
  BY DEF Enter
<1>2. MembufTypeOK
  BY DEF BufInv
<1>3. want' \in 0 .. INT_MAX /\ want' > 0
  BY <1>1, <1>2, BufFacts
<1>4. MembufTypeOK'
  <2>1. want' \in -INT_MAX - 1 .. INT_MAX
    BY <1>2, <1>3, BufFacts
  <2> QED BY <1>1, <1>2, <1>3, <2>1 DEF MembufTypeOK
<1>5. FitsTwice'
  <2>1. want' <= size' \/ want' = 1
    BY <1>1, <1>2, BufFacts
  <2> QED BY <2>1 DEF FitsTwice
<1>6. CallOK'
  BY <1>1 DEF CallOK
<1> QED BY <1>4, <1>5, <1>6 DEF BufInv

LEMMA CallInvariant == BufInv /\ Calls => BufInv'
<1> SUFFICES ASSUME BufInv, Calls PROVE BufInv'
  OBVIOUS
<1>t. MembufTypeOK /\ FitsTwice /\ CallOK
  BY DEF BufInv
<1>f. /\ MAX_LEN \in Nat /\ INT_MAX \in Nat /\ buf \in Seq(Byte) /\ Len(buf) = size
      /\ size \in Nat /\ len \in Nat /\ len <= size
  BY <1>t, BufFacts
<1>1. CASE MembufClear
  BY <1>1, <1>t, <1>f DEF MembufClear, BufInv, MembufTypeOK, FitsTwice, CallOK
<1>2. CASE MembufFree
  <2>1. buf' \in Seq(Byte) /\ Len(buf') = 0
    BY <1>2, EmptySeq DEF MembufFree
  <2>2. /\ buf' = <<>> /\ len' = 0 /\ size' = 0 /\ buf_pc = "idle" /\ buf_pc' = buf_pc /\ call' = call /\ want' = want
    BY <1>2 DEF MembufFree
  <2> QED BY <2>1, <2>2, <1>t, <1>f DEF BufInv, MembufTypeOK, FitsTwice, CallOK
<1>3. ASSUME NEW n \in 0 .. MAX_LEN, MembufTruncate(n) PROVE BufInv'
  BY <1>3, <1>t, <1>f DEF MembufTruncate, BufInv, MembufTypeOK, FitsTwice, CallOK
<1>4. ASSUME NEW at \in 0 .. MAX_LEN, MembufTrim(at) PROVE BufInv'
  <2>1. /\ at \in 0 .. len /\ buf_pc = "idle" /\ size' = size /\ len' = len - at
        /\ buf_pc' = buf_pc /\ call' = call /\ want' = want
    BY <1>4 DEF MembufTrim
  <2>2. buf' \in Seq(Byte) /\ Len(buf') = Len(buf)
    <3>1. buf' = [i \in 1 .. Len(buf) |-> IF i <= len - at THEN buf[i + at] ELSE buf[i]]
      BY <1>4, <1>f DEF MembufTrim
    <3> QED BY <3>1, <2>1, <1>t, BufFacts, TrimmedBytes
  <2> QED BY <2>1, <2>2, <1>t, <1>f DEF BufInv, MembufTypeOK, FitsTwice, CallOK
<1>5. ASSUME NEW mem \in Mem, MembufAppend(mem) PROVE BufInv'
  <2> DEFINE c == [op |-> "append", mem |-> mem]
  <2>1. Enter(c) /\ len + Len(mem) <= MAX_LEN /\ call' = c /\ len' = len
    BY <1>5 DEF MembufAppend, Enter
  <2>2. newlen' = len + Len(mem) /\ c # Nothing
    BY <2>1 DEF newlen, Nothing, ByteStringPromise!Nothing
  <2>3. newlen' \in 0 .. MAX_LEN
    BY <2>1, <2>2, <1>f, Passed
  <2> QED BY <2>1, <2>2, <2>3, EnterInvariant
<1>6. ASSUME NEW mem \in Mem, NEW at \in 0 .. MAX_LEN, MembufInsert(at, mem) PROVE BufInv'
  <2> DEFINE c == [op |-> "insert", at |-> at, mem |-> mem]
  <2>1. Enter(c) /\ len + Len(mem) <= MAX_LEN /\ call' = c /\ len' = len /\ at \in 0 .. len
    BY <1>6 DEF MembufInsert, Enter
  <2>2. newlen' = len + Len(mem) /\ c # Nothing
    BY <2>1 DEF newlen, Nothing, ByteStringPromise!Nothing
  <2>3. newlen' \in 0 .. MAX_LEN
    BY <2>1, <2>2, <1>f, Passed
  <2> QED BY <2>1, <2>2, <2>3, EnterInvariant
<1>7. ASSUME NEW mem \in Mem, MembufMemcpy(mem) PROVE BufInv'
  <2> DEFINE c == [op |-> "memcpy", mem |-> mem]
  <2>1. Enter(c) /\ Len(mem) <= MAX_LEN /\ call' = c
    BY <1>7 DEF MembufMemcpy, Enter
  <2>2. newlen' = Len(mem) /\ c # Nothing
    BY <2>1 DEF newlen, Nothing, ByteStringPromise!Nothing
  <2>3. newlen' \in 0 .. MAX_LEN
    BY <2>1, <2>2, <1>f, Passed
  <2> QED BY <2>1, <2>2, <2>3, EnterInvariant
<1>8. ASSUME NEW n \in 0 .. MAX_LEN, MembufAtleast(n) PROVE BufInv'
  <2> DEFINE c == [op |-> "atleast", n |-> n]
  <2>1. Enter(c) /\ call' = c
    BY <1>8 DEF MembufAtleast, Enter
  <2>2. newlen' = n /\ c # Nothing
    BY <2>1 DEF newlen, Nothing, ByteStringPromise!Nothing
  <2> QED BY <2>1, <2>2, EnterInvariant
<1>9. ASSUME NEW n \in 0 .. MAX_LEN, MembufAtmost(n) PROVE BufInv'
  <2>1. /\ buf_pc' = "shrink" /\ call' = [op |-> "atmost", n |-> n] /\ want' = size
        /\ buf' = buf /\ len' = len /\ size' = size
    BY <1>9 DEF MembufAtmost
  <2>2. call' # Nothing /\ call'.op = "atmost" /\ call'.n = n
    BY <2>1 DEF Nothing, ByteStringPromise!Nothing
  <2> QED BY <2>1, <2>2, <1>t, <1>f DEF BufInv, MembufTypeOK, FitsTwice, CallOK
<1> QED BY <1>1, <1>2, <1>3, <1>4, <1>5, <1>6, <1>7, <1>8, <1>9 DEF Calls

\* The memory a call that copies works on.
LEMMA CopyFacts ==
  ASSUME BufInv, buf_pc = "copy", call.op \in {"append", "insert", "memcpy"}
  PROVE  /\ call.mem \in Seq(Byte) /\ Len(call.mem) \in Nat
         /\ newlen \in Nat /\ newlen <= size
         /\ newlen = IF call.op = "memcpy" THEN Len(call.mem) ELSE len + Len(call.mem)
<1>1. call.mem \in Mem /\ newlen \in 0 .. MAX_LEN /\ newlen <= size
  BY DEF BufInv, CallOK, MembufTypeOK
<1>2. MembufTypeOK
  BY DEF BufInv
<1>3. newlen = IF call.op = "memcpy" THEN Len(call.mem) ELSE len + Len(call.mem)
  BY DEF newlen
<1> QED BY <1>1, <1>2, <1>3, Passed, BufFacts

LEMMA AppendCopied ==
  ASSUME BufInv, CopyAppended
  PROVE  /\ buf' \in Seq(Byte) /\ Len(buf') = Len(buf)
         /\ SubSeq(buf', 1, len') = SubSeq(buf, 1, len) \o call.mem
<1>1. buf_pc = "copy" /\ call.op = "append"
  BY DEF CopyAppended
<1> DEFINE m == call.mem
<1>2. m \in Seq(Byte) /\ Len(m) \in Int /\ newlen <= size /\ newlen = len + Len(m)
  BY <1>1, CopyFacts
<1>3. MembufTypeOK
  BY DEF BufInv
<1>4. buf \in Seq(Byte) /\ len \in Int /\ Len(buf) \in Int /\ Len(buf) = size /\ len \in 0 .. Len(buf)
  BY <1>3, BufFacts
<1>5. /\ len' = newlen
      /\ buf' = [i \in 1 .. Len(buf) |-> IF i > len /\ i <= newlen THEN m[i - len] ELSE buf[i]]
  BY <1>2, <1>4 DEF CopyAppended
<1>6. newlen <= Len(buf)
  BY <1>2, <1>4
<1> HIDE DEF m
<1>7. /\ buf' \in Seq(Byte) /\ Len(buf') = Len(buf)
      /\ SubSeq(buf', 1, newlen) = SubSeq(buf, 1, len) \o m
  <2>1. buf \in Seq(Byte) /\ len \in 0 .. Len(buf) /\ m \in Seq(Byte) /\ newlen = len + Len(m)
    BY <1>2, <1>4
  <2>2. buf' = [i \in 1 .. Len(buf) |-> IF i > len /\ i <= newlen THEN m[i - len] ELSE buf[i]]
    BY <1>5
  <2> QED BY ONLY <2>1, <2>2, <1>6, AppendedBytes
<1> QED BY <1>5, <1>7 DEF m

\* With what is inserted in between, the bytes around it are those there were.
LEMMA InsertedBytes ==
  ASSUME buf \in Seq(Byte), len \in 0 .. Len(buf), NEW m \in Seq(Byte),
         NEW at \in 0 .. len, newlen = len + Len(m), newlen <= Len(buf),
         NEW c \in Seq(Byte), Len(c) = Len(buf),
         \A i \in 1 .. newlen : c[i] = IF i <= at THEN buf[i]
                                      ELSE IF i <= at + Len(m) THEN m[i - at]
                                      ELSE buf[i - Len(m)]
  PROVE  SubSeq(c, 1, newlen) = SubSeq(SubSeq(buf, 1, len), 1, at) \o m
                                  \o SubSeq(SubSeq(buf, 1, len), at + 1, Len(SubSeq(buf, 1, len)))
<1> DEFINE n == Len(m)
           k == newlen
           l == len
           b == buf
           S == Byte
           bs == SubSeq(b, 1, l)
           p == SubSeq(bs, 1, at)
           z == SubSeq(bs, at + 1, Len(bs))
           q == SubSeq(c, 1, k)
           r == p \o m
           t == r \o z
<1>4. /\ c \in Seq(S) /\ Len(c) = Len(b) /\ b \in Seq(S) /\ m \in Seq(S)
      /\ l \in 0 .. Len(b) /\ at \in 0 .. l /\ k <= Len(b) /\ k = l + n
      /\ \A i \in 1 .. k : c[i] = IF i <= at THEN b[i]
                               ELSE IF i <= at + n THEN m[i - at]
                               ELSE b[i - n]
  OBVIOUS
<1>1. Len(b) \in Nat /\ n \in Nat /\ l \in Nat /\ at \in Nat /\ k = l + n /\ k \in Nat /\ n = Len(m)
  BY <1>4, LenProperties
<1> HIDE DEF k, l, b, S
<1>5. k \in 0 .. Len(c)
  BY <1>1, <1>4
<1>6. q \in Seq(S) /\ Len(q) = k /\ \A i \in 1 .. k : q[i] = c[i]
  BY <1>4, <1>5, Prefix
<1>7. bs \in Seq(S) /\ Len(bs) = l /\ \A i \in 1 .. l : bs[i] = b[i]
  BY <1>4, Prefix
<1> HIDE DEF bs, q
<1>8. p \in Seq(S) /\ Len(p) = at /\ \A i \in 1 .. at : p[i] = b[i]
  <2>1. p \in Seq(S) /\ Len(p) = at /\ \A i \in 1 .. at : p[i] = bs[i]
    BY <1>4, <1>7, Prefix
  <2> HIDE DEF p
  <2> QED BY <2>1, <1>1, <1>4, <1>7
<1>9. z \in Seq(S) /\ Len(z) = l - at /\ \A i \in 1 .. l - at : z[i] = b[i + at]
  <2>1. z \in Seq(S) /\ Len(z) = Len(bs) - at /\ \A i \in 1 .. Len(bs) - at : z[i] = bs[i + at]
    <3>1. bs \in Seq(S) /\ at \in 0 .. Len(bs)
      BY <1>4, <1>7
    <3> QED BY ONLY <3>1, Suffix DEF z
  <2> HIDE DEF z
  <2> QED BY <2>1, <1>1, <1>4, <1>7
<1> HIDE DEF p, z
<1>10. r \in Seq(S) /\ Len(r) = at + n
       /\ \A i \in 1 .. at + n : r[i] = IF i <= at THEN p[i] ELSE m[i - at]
  <2>1. r \in Seq(S) /\ Len(r) = Len(p) + Len(m)
        /\ \A i \in 1 .. Len(p) + Len(m) : r[i] = IF i <= Len(p) THEN p[i] ELSE m[i - Len(p)]
    <3>1. p \in Seq(S) /\ m \in Seq(S)
      BY <1>4, <1>8
    <3> QED BY ONLY <3>1, ConcatProperties DEF r
  <2> HIDE DEF r
  <2> QED BY <2>1, <1>1, <1>8
<1> HIDE DEF r
<1>11. t \in Seq(S) /\ Len(t) = k
       /\ \A i \in 1 .. k : t[i] = IF i <= at + n THEN r[i] ELSE z[i - (at + n)]
  <2>1. t \in Seq(S) /\ Len(t) = Len(r) + Len(z)
        /\ \A i \in 1 .. Len(r) + Len(z) : t[i] = IF i <= Len(r) THEN r[i] ELSE z[i - Len(r)]
    <3>1. r \in Seq(S) /\ z \in Seq(S)
      BY <1>9, <1>10
    <3> QED BY ONLY <3>1, ConcatProperties DEF t
  <2> HIDE DEF t
  <2>2. Len(r) = at + n /\ Len(z) = l - at /\ at + n + (l - at) = k
    BY <1>1, <1>9, <1>10
  <2>3. t \in Seq(S) /\ Len(t) = at + n + (l - at)
        /\ \A i \in 1 .. at + n + (l - at) : t[i] = IF i <= at + n THEN r[i] ELSE z[i - (at + n)]
    BY <2>1, <2>2
  <2> QED BY <2>2, <2>3
<1> HIDE DEF t
<1> HIDE DEF n
<1>12. ASSUME NEW i \in 1 .. k PROVE q[i] = t[i]
  <2>1. i \in 1 .. Len(b) /\ q[i] = c[i]
    <3>1. i \in Nat /\ 1 <= i /\ i <= k
      BY <1>1, <1>12
    <3>2. q[i] = c[i]
      BY <1>6, <1>12
    <3> QED BY <3>1, <3>2, <1>1, <1>4
  <2>2. CASE i <= at
    <3>1. c[i] = b[i] /\ i \in 1 .. at /\ i <= at + n
      BY <2>1, <2>2, <1>1, <1>4, <1>12
    <3>2. t[i] = r[i] /\ r[i] = p[i] /\ p[i] = b[i]
      <4>1. t[i] = r[i]
        BY <3>1, <1>11, <1>12
      <4>2. i \in 1 .. at + n
        BY <3>1, <1>1
      <4>3. r[i] = p[i]
        BY <4>2, <2>2, <1>10
      <4> QED BY <4>1, <4>3, <3>1, <1>8
    <3> QED BY <2>1, <3>1, <3>2
  <2>3. CASE i > at /\ i <= at + n
    <3>1. c[i] = m[i - at] /\ i \in 1 .. at + n /\ ~(i <= at)
      BY <2>1, <2>3, <1>1, <1>4, <1>12
    <3>2. t[i] = r[i] /\ r[i] = m[i - at]
      <4>1. t[i] = r[i]
        BY <2>3, <1>11, <1>12
      <4>2. r[i] = IF i <= at THEN p[i] ELSE m[i - at]
        BY <3>1, <1>10
      <4> QED BY <4>1, <4>2, <3>1
    <3> QED BY <2>1, <3>1, <3>2
  <2>4. CASE i > at + n
    <3>1. c[i] = b[i - n]
      BY <2>1, <2>4, <1>1, <1>4, <1>12, SMTT(30)
    <3>2. t[i] = z[i - (at + n)]
      <4>1. i \in 1 .. k /\ ~(i <= at + n)
        BY ONLY <2>4, <1>1, <1>12
      <4> QED BY <4>1, <1>11, Zenon
    <3>3. i - (at + n) \in 1 .. l - at
      BY ONLY <2>4, <1>1, <1>12
    <3>4. z[i - (at + n)] = b[i - (at + n) + at] /\ i - (at + n) + at = i - n
      BY <3>3, <1>1, <1>9
    <3> QED BY <2>1, <3>1, <3>2, <3>4
  <2> QED BY <2>2, <2>3, <2>4, <1>1
<1>13. q = t
  BY <1>6, <1>11, <1>12, SeqEqual
<1> QED BY <1>4, <1>13 DEF bs, p, z, q, r, t, k, l, b, n

LEMMA InsertCopied ==
  ASSUME BufInv, CopyInserted
  PROVE  /\ buf' \in Seq(Byte) /\ Len(buf') = Len(buf)
         /\ SubSeq(buf', 1, len')
              = SubSeq(SubSeq(buf, 1, len), 1, call.at) \o call.mem
                  \o SubSeq(SubSeq(buf, 1, len), call.at + 1, Len(SubSeq(buf, 1, len)))
<1>1. buf_pc = "copy" /\ call.op = "insert"
  BY DEF CopyInserted
<1> DEFINE m == call.mem
           at == call.at
           n == Len(m)
<1>2. m \in Seq(Byte) /\ n \in Nat /\ newlen <= size /\ newlen = len + n
  BY <1>1, CopyFacts
<1>3. MembufTypeOK
  BY DEF BufInv
<1>4. buf \in Seq(Byte) /\ len \in Int /\ Len(buf) \in Nat /\ Len(buf) = size
      /\ len \in 0 .. Len(buf) /\ at \in 0 .. len
  BY <1>1, <1>3, BufFacts DEF BufInv, CallOK
<1>5. /\ len' = newlen
      /\ buf' = [i \in 1 .. Len(buf) |->
                   IF i > at /\ i <= at + n THEN m[i - at]
                   ELSE IF i > at + n /\ i <= newlen THEN buf[i - n]
                   ELSE buf[i]]
  BY <1>2, <1>4 DEF CopyInserted
<1>n. n = Len(m)
  OBVIOUS
<1> HIDE DEF m, at, n
<1>6. newlen <= Len(buf) /\ newlen = len + Len(m) /\ newlen \in Int /\ at \in Int
  BY <1>2, <1>4, <1>n
<1>7. (\A i \in 1 .. Len(buf) : buf[i] \in Byte) /\ (\A i \in 1 .. n : m[i] \in Byte)
  BY <1>2, <1>4, <1>n, ElementOfSeq
<1>8. ASSUME NEW i \in 1 .. Len(buf)
      PROVE  /\ buf'[i] \in Byte
             /\ i <= newlen => buf'[i] = IF i <= at THEN buf[i]
                                        ELSE IF i <= at + n THEN m[i - at]
                                        ELSE buf[i - n]
  <2>1. CASE i <= at
    <3>1. buf'[i] = buf[i]
      BY <2>1, <1>2, <1>4, <1>5, <1>6
    <3> QED BY <2>1, <3>1, <1>7
  <2>2. CASE i > at /\ i <= at + n
    <3>1. buf'[i] = m[i - at] /\ i - at \in 1 .. n /\ ~(i <= at)
      BY <2>2, <1>2, <1>4, <1>5, <1>6
    <3> QED BY <2>2, <3>1, <1>7
  <2>3. CASE i > at + n /\ i <= newlen
    <3>1. buf'[i] = buf[i - n] /\ i - n \in 1 .. Len(buf) /\ ~(i <= at) /\ ~(i <= at + n)
      BY <2>3, <1>2, <1>4, <1>5, <1>6
    <3> QED BY <3>1, <1>7
  <2>4. CASE i > at + n /\ ~(i <= newlen)
    <3>1. buf'[i] = buf[i]
      BY <2>4, <1>2, <1>4, <1>5, <1>6
    <3> QED BY <2>4, <3>1, <1>7
  <2> QED BY <2>1, <2>2, <2>3, <2>4, <1>2, <1>6
<1>9. buf' \in Seq(Byte) /\ Len(buf') = Len(buf)
  <2>1. buf' \in [1 .. Len(buf) -> Byte]
    BY <1>5, <1>8
  <2> QED BY <2>1, <1>4, Memory
<1>10. \A i \in 1 .. newlen : buf'[i] = IF i <= at THEN buf[i]
                                       ELSE IF i <= at + n THEN m[i - at]
                                       ELSE buf[i - n]
  BY <1>4, <1>6, <1>8
<1>a. \A i \in 1 .. newlen : buf'[i] = IF i <= at THEN buf[i]
                                      ELSE IF i <= at + Len(m) THEN m[i - at]
                                      ELSE buf[i - Len(m)]
  BY <1>10, <1>n
<1>11. SubSeq(buf', 1, newlen) = SubSeq(SubSeq(buf, 1, len), 1, at) \o m
                                   \o SubSeq(SubSeq(buf, 1, len), at + 1, Len(SubSeq(buf, 1, len)))
  BY <1>2, <1>4, <1>6, <1>9, <1>a, InsertedBytes
<1> QED BY <1>5, <1>9, <1>11 DEF m, at

LEMMA OverCopied ==
  ASSUME BufInv, CopyOver
  PROVE  /\ buf' \in Seq(Byte) /\ Len(buf') = Len(buf) /\ len' = len
         /\ SubSeq(buf', 1, len) = [i \in 1 .. Len(SubSeq(buf, 1, len)) |->
              IF i <= Len(call.mem) THEN call.mem[i] ELSE SubSeq(buf, 1, len)[i]]
<1>1. buf_pc = "copy" /\ call.op = "memcpy" /\ len' = len
  BY DEF CopyOver
<1> DEFINE m == call.mem
<1>2. m \in Seq(Byte) /\ Len(m) \in Int /\ newlen <= size /\ newlen = Len(m)
  BY <1>1, CopyFacts
<1>3. MembufTypeOK
  BY DEF BufInv
<1>4. buf \in Seq(Byte) /\ len \in Int /\ Len(buf) \in Int /\ Len(buf) = size /\ len \in 0 .. Len(buf)
  BY <1>3, BufFacts
<1>5. buf' = [i \in 1 .. Len(buf) |-> IF i <= Len(m) THEN m[i] ELSE buf[i]]
  BY <1>2, <1>4 DEF CopyOver
<1>6. Len(m) <= Len(buf)
  BY <1>2, <1>4
<1> HIDE DEF m
<1>7. /\ buf' \in Seq(Byte) /\ Len(buf') = Len(buf)
      /\ SubSeq(buf', 1, len) = [i \in 1 .. Len(SubSeq(buf, 1, len)) |->
           IF i <= Len(m) THEN m[i] ELSE SubSeq(buf, 1, len)[i]]
  BY <1>2, <1>4, <1>5, <1>6, OverwrittenBytes
<1> QED BY <1>1, <1>7 DEF m

\* A call that returned asks for nothing any more.
LEMMA ReturnInvariant ==
  ASSUME BufInv, Return, buf' \in Seq(Byte), Len(buf') = size', size' \in 0 .. INT_MAX, len' \in 0 .. size'
  PROVE  BufInv'
<1>1. buf_pc' = "idle" /\ call' = Nothing /\ want' = 0
  BY DEF Return
<1>2. INT_MAX \in Nat
  BY LengthAssumption
<1> QED BY <1>1, <1>2 DEF BufInv, MembufTypeOK, FitsTwice, CallOK

LEMMA WorkInvariant == BufInv /\ Working => BufInv'
<1> SUFFICES ASSUME BufInv, Working PROVE BufInv'
  OBVIOUS
<1>t. MembufTypeOK /\ FitsTwice /\ CallOK
  BY DEF BufInv
<1>f. /\ MAX_LEN \in Nat /\ INT_MAX \in Nat /\ buf \in Seq(Byte) /\ Len(buf) = size
      /\ size \in 0 .. INT_MAX /\ len \in Nat /\ len <= size /\ want \in Int /\ want <= INT_MAX
      /\ len \in 0 .. size /\ (buf_pc # "grow" => want \in Nat)
  BY <1>t, BufFacts DEF MembufTypeOK
<1>1. CASE Double
  <2>1. /\ buf_pc = "grow" /\ want < newlen /\ want' = Wrapped(2 * want) /\ buf_pc' = buf_pc /\ call' = call
        /\ buf' = buf /\ len' = len /\ size' = size /\ newlen' = newlen
    BY <1>1 DEF Double, newlen
  <2>2. PICK n \in 0 .. MAX_LEN : n = newlen /\ (want > 0 \/ TooLong)
    BY <2>1, <1>t DEF CallOK, MembufTypeOK
  <2>3. TooLong' <=> TooLong
    BY <2>1 DEF TooLong
  <2>4. want' \in -INT_MAX - 1 .. INT_MAX
    BY <2>1, <1>f, WrappedFacts
  <2>5. ASSUME ~TooLong PROVE MembufTypeOK' /\ FitsTwice'
    <3>1. 2 * n <= INT_MAX + 2 /\ want > 0 /\ want < n
      BY <2>1, <2>2, <2>5, <1>f DEF TooLong
    <3>2. 2 * want \in 0 .. INT_MAX
      BY <3>1, <1>f
    <3>3. want' = 2 * want
      BY <2>1, <3>2, WrappedFacts
    <3>4. want' > 0 /\ want' < 2 * n
      BY <3>1, <3>3, <1>f
    <3>5. MembufTypeOK'
      BY <2>1, <2>4, <3>4, <1>t DEF MembufTypeOK
    <3>6. FitsTwice'
      BY <2>1, <2>2, <3>4 DEF FitsTwice
    <3> QED BY <3>5, <3>6
  <2>6. ASSUME TooLong PROVE MembufTypeOK' /\ FitsTwice'
    BY <2>1, <2>3, <2>4, <2>6, <1>t DEF MembufTypeOK, FitsTwice
  <2>7. MembufTypeOK' /\ FitsTwice'
    BY <2>5, <2>6
  <2>8. CallOK'
    BY <2>1, <1>t DEF CallOK
  <2> QED BY <2>7, <2>8 DEF BufInv
<1>2. CASE Enlarge
  <2>1. /\ buf_pc = "grow" /\ want >= newlen /\ buf_pc' = "copy" /\ call' = call /\ len' = len /\ want' = want
        /\ newlen' = newlen
    BY <1>2 DEF Enlarge, newlen
  <2>2. newlen \in 0 .. MAX_LEN /\ want \in Nat /\ call # Nothing
    BY <2>1, <1>t DEF CallOK, MembufTypeOK
  <2>3. buf' \in Seq(Byte) /\ Len(buf') = size' /\ size' \in 0 .. INT_MAX /\ len \in 0 .. size' /\ newlen <= size'
    <3>1. CASE want > size
      <4>1. size' = want /\ buf' \in [1 .. want -> Byte]
        BY <1>2, <3>1 DEF Enlarge
      <4> QED BY <4>1, <3>1, <2>1, <2>2, <1>f, Memory
    <3>2. CASE ~(want > size)
      BY <1>2, <3>2, <2>1, <2>2, <1>f DEF Enlarge
    <3> QED BY <3>1, <3>2
  <2>4. MembufTypeOK'
    BY <2>1, <2>2, <2>3, <1>t DEF MembufTypeOK
  <2>5. CallOK'
    BY <2>1, <1>t DEF CallOK
  <2> QED BY <2>1, <2>4, <2>5 DEF BufInv, FitsTwice
<1>3. CASE CopyAppended
  <2>1. len' = newlen /\ size' = size /\ Return /\ buf_pc = "copy" /\ call.op = "append"
    BY <1>3 DEF CopyAppended
  <2>2. newlen \in 0 .. size
    BY <2>1, <1>f, CopyFacts
  <2> QED BY <1>3, <2>1, <2>2, <1>f, AppendCopied, ReturnInvariant
<1>4. CASE CopyInserted
  <2>1. len' = newlen /\ size' = size /\ Return /\ buf_pc = "copy" /\ call.op = "insert"
    BY <1>4 DEF CopyInserted
  <2>2. newlen \in 0 .. size
    BY <2>1, <1>f, CopyFacts
  <2> QED BY <1>4, <2>1, <2>2, <1>f, InsertCopied, ReturnInvariant
<1>5. CASE CopyOver
  <2>1. size' = size /\ Return
    BY <1>5 DEF CopyOver
  <2> QED BY <1>5, <2>1, <1>f, OverCopied, ReturnInvariant
<1>6. CASE AtleastReturns
  BY <1>6, <1>f, ReturnInvariant DEF AtleastReturns
<1>7. CASE Halve
  <2>1. /\ buf_pc = "shrink" /\ want' = want \div 2 /\ buf_pc' = buf_pc /\ call' = call
        /\ buf' = buf /\ len' = len /\ size' = size
    BY <1>7 DEF Halve
  <2>2. want' \in 0 .. INT_MAX /\ want' <= want
    BY <2>1, <1>f
  <2>3. want' <= size
    BY <2>1, <2>2, <1>t, <1>f DEF CallOK
  <2>4. want' \in -INT_MAX - 1 .. INT_MAX /\ want' >= 0
    BY <2>2, <1>f
  <2> QED BY <2>1, <2>3, <2>4, <1>t DEF BufInv, MembufTypeOK, FitsTwice, CallOK
<1>8. CASE Shrink
  <2>1. Return /\ want \in Nat
    BY <1>8, <1>f DEF Shrink
  <2>2. CASE want < size
    <3>1. size' = want /\ len' = want /\ buf' \in [1 .. want -> Byte]
      BY <1>8, <2>2 DEF Shrink
    <3>2. buf' \in Seq(Byte) /\ Len(buf') = want
      BY <2>1, <3>1, <1>f, Memory
    <3>3. size' \in 0 .. INT_MAX /\ len' \in 0 .. size'
      BY <2>1, <3>1, <1>f
    <3> QED BY <2>1, <3>1, <3>2, <3>3, ReturnInvariant
  <2>3. CASE ~(want < size)
    BY <1>8, <2>1, <2>3, <1>f, ReturnInvariant DEF Shrink
  <2> QED BY <2>2, <2>3
<1> QED BY <1>1, <1>2, <1>3, <1>4, <1>5, <1>6, <1>7, <1>8 DEF Working

LEMMA BufNextInvariant == BufInv /\ [MembufNext]_bufVars => BufInv'
<1> SUFFICES ASSUME BufInv, [MembufNext]_bufVars PROVE BufInv'
  OBVIOUS
<1>t. MembufTypeOK /\ FitsTwice /\ CallOK
  BY DEF BufInv
<1>1. CASE ReallocFails
  <2>1. /\ buf_pc' = "exited" /\ buf' = buf /\ len' = len /\ size' = size /\ call' = call /\ want' = want
        /\ buf_pc \in {"grow", "shrink"}
    BY <1>1 DEF ReallocFails
  <2>2. want >= 0
    BY <1>1, <1>t DEF ReallocFails, MembufTypeOK, CallOK
  <2> QED BY <2>1, <2>2, <1>t DEF BufInv, MembufTypeOK, FitsTwice, CallOK
<1>2. CASE UNCHANGED bufVars
  <2>1. /\ buf_pc' = buf_pc /\ buf' = buf /\ len' = len /\ size' = size /\ call' = call
        /\ want' = want /\ newlen' = newlen
    BY <1>2 DEF bufVars, newlen
  <2>2. TooLong' <=> TooLong
    BY <2>1 DEF TooLong
  <2> QED BY <2>1, <2>2, <1>t DEF BufInv, MembufTypeOK, FitsTwice, CallOK
<1> QED BY <1>1, <1>2, CallInvariant, WorkInvariant DEF MembufNext, MembufExited

LEMMA MembufInvariance == MembufSpec => []BufInv
<1>1. MembufInit => BufInv
  BY BufInitInvariant
<1>2. BufInv /\ [MembufNext]_bufVars => BufInv'
  BY BufNextInvariant
<1> QED BY <1>1, <1>2, PTL DEF MembufSpec

\* The bytes lie within the memory, and doubling overflows for no length that
\* there is a size for.
THEOREM MembufTypeCorrect == MembufSpec => []MembufTypeOK
<1>1. BufInv => MembufTypeOK
  BY DEF BufInv
<1> QED BY <1>1, MembufInvariance, PTL

\* A buffer that grows takes less than twice what was asked for.
THEOREM TakesNoMoreThanTwice == MembufSpec => []FitsTwice
<1>1. BufInv => FitsTwice
  BY DEF BufInv
<1> QED BY <1>1, MembufInvariance, PTL

-----------------------------------------------------------------------------
(***************************************************************************)
(* The refinement.                                                         *)
(***************************************************************************)
LEMMA InitImplements == MembufInit => ByteStringPromise!Init
<1> SUFFICES ASSUME MembufInit PROVE ByteStringPromise!Init
  OBVIOUS
<1>1. buf \in Seq(Byte) /\ Len(buf) = 0 /\ len = 0 /\ call = Nothing
  BY EmptySeq DEF MembufInit
<1> DEFINE p == SubSeq(buf, 1, len)
<1>2. p \in Seq(Byte) /\ Len(p) = 0
  BY <1>1, Prefix
<1> HIDE DEF p
<1>3. p = <<>>
  BY <1>2, EmptySeq
<1> QED BY <1>1, <1>3 DEF p, ByteStringPromise!Init, Nothing

\* A call that begins is asked for; nothing else changes.
LEMMA EnterImplements ==
  ASSUME BufInv, NEW c, c # Nothing, Enter(c)
  PROVE  ByteStringPromise!Ask
<1>1. buf_pc = "idle" /\ call' = c /\ buf' = buf /\ len' = len
  BY DEF Enter
<1>2. call = Nothing
  BY <1>1 DEF BufInv, MembufTypeOK
<1> QED BY <1>1, <1>2 DEF ByteStringPromise!Ask, Nothing

LEMMA CallImplements == BufInv /\ Calls => ByteStringPromise!Next
<1> SUFFICES ASSUME BufInv, Calls PROVE ByteStringPromise!Next
  OBVIOUS
<1>t. MembufTypeOK /\ FitsTwice /\ CallOK
  BY DEF BufInv
<1>f. buf \in Seq(Byte) /\ Len(buf) = size /\ len \in 0 .. Len(buf) /\ len \in Nat
  BY <1>t, BufFacts
<1>p. Len(SubSeq(buf, 1, len)) = len
  BY <1>f, Prefix
<1>k. ASSUME NEW n \in 0 .. len, buf_pc = "idle", call' = call,
             SubSeq(buf', 1, len') = SubSeq(SubSeq(buf, 1, len), 1, n)
      PROVE  ByteStringPromise!Next
  <2>1. call = Nothing
    BY <1>k, <1>t DEF MembufTypeOK
  <2> QED BY <1>k, <2>1, <1>p DEF ByteStringPromise!Next, ByteStringPromise!Keep, Nothing
<1>1. CASE MembufClear
  <2>1. 0 \in 0 .. len /\ buf_pc = "idle" /\ call' = call /\ buf' = buf /\ len' = 0
    BY <1>1, <1>f DEF MembufClear
  <2>2. SubSeq(buf', 1, len') = SubSeq(SubSeq(buf, 1, len), 1, 0)
    BY <2>1, <1>f, KeptBytes
  <2> QED BY <2>1, <2>2, <1>k
<1>2. CASE MembufFree
  <2>1. 0 \in 0 .. len /\ buf_pc = "idle" /\ call' = call /\ buf' = <<>> /\ len' = 0
    BY <1>2, <1>f DEF MembufFree
  <2>2. SubSeq(buf', 1, len') = SubSeq(SubSeq(buf, 1, len), 1, 0)
    <3> DEFINE p == SubSeq(buf, 1, len)
               q == SubSeq(buf', 1, len')
               r == SubSeq(p, 1, 0)
    <3>1. buf' \in Seq(Byte) /\ Len(buf') = 0
      BY <2>1, EmptySeq
    <3>2. q \in Seq(Byte) /\ Len(q) = 0
      BY <3>1, <2>1, Prefix
    <3>3. p \in Seq(Byte) /\ 0 \in 0 .. Len(p)
      BY <1>f, <1>p, Prefix
    <3> HIDE DEF p, q
    <3>4. r \in Seq(Byte) /\ Len(r) = 0
      BY <3>3, Prefix
    <3> HIDE DEF r
    <3>5. q = r
      BY <3>2, <3>4, EmptySeq
    <3> QED BY <3>5 DEF p, q, r
  <2> QED BY <2>1, <2>2, <1>k
<1>3. ASSUME NEW n \in 0 .. MAX_LEN, MembufTruncate(n) PROVE ByteStringPromise!Next
  <2>1. n \in 0 .. len /\ buf_pc = "idle" /\ call' = call /\ buf' = buf /\ len' = n
    BY <1>3 DEF MembufTruncate
  <2>2. SubSeq(buf', 1, len') = SubSeq(SubSeq(buf, 1, len), 1, n)
    BY <2>1, <1>f, KeptBytes
  <2> QED BY <2>1, <2>2, <1>k
<1>4. ASSUME NEW at \in 0 .. MAX_LEN, MembufTrim(at) PROVE ByteStringPromise!Next
  <2>1. at \in 0 .. len /\ buf_pc = "idle" /\ call' = call /\ len' = len - at
    BY <1>4 DEF MembufTrim
  <2>2. buf' = [i \in 1 .. Len(buf) |-> IF i <= len - at THEN buf[i + at] ELSE buf[i]]
    BY <1>4, <1>f DEF MembufTrim
  <2>3. SubSeq(buf', 1, len') = SubSeq(SubSeq(buf, 1, len), at + 1, Len(SubSeq(buf, 1, len)))
    BY <2>1, <2>2, <1>f, TrimmedBytes
  <2>4. call = Nothing
    BY <2>1, <1>t DEF MembufTypeOK
  <2> QED BY <2>1, <2>3, <2>4, <1>p DEF ByteStringPromise!Next, ByteStringPromise!Drop, Nothing
<1>5. ASSUME NEW c, c # Nothing, Enter(c) PROVE ByteStringPromise!Next
  BY <1>5, EnterImplements DEF ByteStringPromise!Next
<1>6. ASSUME NEW mem \in Mem, MembufAppend(mem) PROVE ByteStringPromise!Next
  <2>1. Enter([op |-> "append", mem |-> mem]) /\ [op |-> "append", mem |-> mem] # Nothing
    BY <1>6 DEF MembufAppend, Nothing, ByteStringPromise!Nothing
  <2> QED BY <2>1, <1>5
<1>7. ASSUME NEW mem \in Mem, NEW at \in 0 .. MAX_LEN, MembufInsert(at, mem) PROVE ByteStringPromise!Next
  <2>1. Enter([op |-> "insert", at |-> at, mem |-> mem])
        /\ [op |-> "insert", at |-> at, mem |-> mem] # Nothing
    BY <1>7 DEF MembufInsert, Nothing, ByteStringPromise!Nothing
  <2> QED BY <2>1, <1>5
<1>8. ASSUME NEW mem \in Mem, MembufMemcpy(mem) PROVE ByteStringPromise!Next
  <2>1. Enter([op |-> "memcpy", mem |-> mem]) /\ [op |-> "memcpy", mem |-> mem] # Nothing
    BY <1>8 DEF MembufMemcpy, Nothing, ByteStringPromise!Nothing
  <2> QED BY <2>1, <1>5
<1>9. ASSUME NEW n \in 0 .. MAX_LEN, MembufAtleast(n) PROVE ByteStringPromise!Next
  <2>1. Enter([op |-> "atleast", n |-> n]) /\ [op |-> "atleast", n |-> n] # Nothing
    BY <1>9 DEF MembufAtleast, Nothing, ByteStringPromise!Nothing
  <2> QED BY <2>1, <1>5
<1>10. ASSUME NEW n \in 0 .. MAX_LEN, MembufAtmost(n) PROVE ByteStringPromise!Next
  <2>1. call' = [op |-> "atmost", n |-> n] /\ [op |-> "atmost", n |-> n] # Nothing
        /\ buf_pc = "idle" /\ buf' = buf /\ len' = len
    BY <1>10 DEF MembufAtmost, Nothing, ByteStringPromise!Nothing
  <2>2. call = Nothing
    BY <2>1, <1>t DEF MembufTypeOK
  <2> QED BY <2>1, <2>2 DEF ByteStringPromise!Next, ByteStringPromise!Ask, Nothing
<1> QED BY <1>1, <1>2, <1>3, <1>4, <1>6, <1>7, <1>8, <1>9, <1>10 DEF Calls

\* Moving the memory, and looking for a size, change no byte.
LEMMA WorkImplements == BufInv /\ Working => [ByteStringPromise!Next]_(ByteStringPromise!vars)
<1> SUFFICES ASSUME BufInv, Working PROVE [ByteStringPromise!Next]_(ByteStringPromise!vars)
  OBVIOUS
<1> USE DEF ByteStringPromise!vars
<1>t. MembufTypeOK /\ FitsTwice /\ CallOK
  BY DEF BufInv
<1>f. /\ buf \in Seq(Byte) /\ Len(buf) = size /\ len \in 0 .. Len(buf) /\ len \in Nat
      /\ size \in Nat /\ (buf_pc # "grow" => want \in Nat) /\ MAX_LEN \in Nat
  BY <1>t, BufFacts
<1>r. ASSUME buf_pc # "idle", Return,
             ByteStringPromise!Append_ \/ ByteStringPromise!Insert \/ ByteStringPromise!Overwrite \/ ByteStringPromise!Reserve \/ ByteStringPromise!Limit
      PROVE  ByteStringPromise!Next
  <2>1. call # Nothing /\ call' = Nothing
    BY <1>r, <1>t DEF Return, MembufTypeOK
  <2> QED BY <1>r, <2>1 DEF ByteStringPromise!Next, ByteStringPromise!Perform, Nothing
<1>1. CASE Double \/ Halve
  BY <1>1 DEF Double, Halve
<1>2. CASE Enlarge
  <2>1. call' = call /\ len' = len /\ want >= newlen /\ buf_pc = "grow"
    BY <1>2 DEF Enlarge
  <2>2. SubSeq(buf', 1, len') = SubSeq(buf, 1, len)
    <3>1. CASE want > size
      <4>1. buf' \in [1 .. want -> Byte] /\ \A i \in 1 .. want : i <= size => buf'[i] = buf[i]
        BY <1>2, <3>1 DEF Enlarge, Reallocated
      <4>w. want \in Int
        BY <1>t, BufFacts
      <4>2. buf' \in Seq(Byte) /\ Len(buf') = want
        <5>1. want \in Nat
          BY <3>1, <4>w, <1>f
        <5> QED BY <4>1, <5>1, Memory
      <4>3. len <= Len(buf') /\ \A i \in 1 .. len : buf[i] = buf'[i]
        BY <4>1, <4>2, <3>1, <1>f
      <4>4. SubSeq(buf, 1, len) = SubSeq(buf', 1, len)
        BY <4>2, <4>3, <1>f, SamePrefix
      <4> QED BY <4>4, <2>1
    <3>2. CASE ~(want > size)
      BY <1>2, <3>2, <2>1 DEF Enlarge
    <3> QED BY <3>1, <3>2
  <2> QED BY <2>1, <2>2
<1>3. CASE CopyAppended
  <2>1. call.op = "append" /\ buf_pc = "copy" /\ Return
    BY <1>3 DEF CopyAppended
  <2>2. ByteStringPromise!Append_
    BY <1>3, <2>1, AppendCopied DEF ByteStringPromise!Append_
  <2> QED BY <2>1, <2>2, <1>r
<1>4. CASE CopyInserted
  <2>1. call.op = "insert" /\ buf_pc = "copy" /\ Return
    BY <1>4 DEF CopyInserted
  <2>2. ByteStringPromise!Insert
    BY <1>4, <2>1, InsertCopied DEF ByteStringPromise!Insert
  <2> QED BY <2>1, <2>2, <1>r
<1>5. CASE CopyOver
  <2>1. call.op = "memcpy" /\ buf_pc = "copy" /\ Return
    BY <1>5 DEF CopyOver
  <2>2. ByteStringPromise!Overwrite
    BY <1>5, <2>1, OverCopied DEF ByteStringPromise!Overwrite
  <2> QED BY <2>1, <2>2, <1>r
<1>6. CASE AtleastReturns
  <2>1. call.op = "atleast" /\ buf_pc = "copy" /\ Return /\ buf' = buf /\ len' = len
    BY <1>6 DEF AtleastReturns
  <2>2. ByteStringPromise!Reserve
    BY <2>1 DEF ByteStringPromise!Reserve
  <2> QED BY <2>1, <2>2, <1>r
<1>7. CASE Shrink
  <2>1. buf_pc = "shrink" /\ Return /\ want <= call.n /\ want \in Nat
    BY <1>7, <1>f DEF Shrink
  <2>2. call.op = "atmost" /\ call.n \in 0 .. MAX_LEN
    BY <2>1, <1>t DEF CallOK
  <2>3. CASE want < size
    <3> DEFINE p == SubSeq(buf, 1, len)
               q == SubSeq(buf', 1, len')
    <3>1. /\ len' = want /\ buf' \in [1 .. want -> Byte]
          /\ \A i \in 1 .. want : i <= size => buf'[i] = buf[i]
      BY <1>7, <2>3 DEF Shrink, Reallocated
    <3>2. buf' \in Seq(Byte) /\ Len(buf') = want
      BY <2>1, <3>1, Memory
    <3>3. want \in 0 .. Len(buf')
      BY <2>1, <3>2
    <3>4. q \in Seq(Byte) /\ Len(q) = want /\ \A i \in 1 .. want : q[i] = buf'[i]
      BY <3>1, <3>2, <3>3, Prefix
    <3>5. Len(p) = len /\ \A i \in 1 .. len : p[i] = buf[i]
      BY <1>f, Prefix
    <3> HIDE DEF p, q
    <3>6. ASSUME NEW i \in 1 .. Len(q), i <= Len(p) PROVE q[i] = p[i]
      <4>1. i \in 1 .. want /\ i \in 1 .. len /\ i <= size
        BY <3>4, <3>5, <3>6, <2>3, <1>f
      <4> QED BY <4>1, <3>1, <3>4, <3>5
    <3>7. q \in Seq(Byte) /\ Len(q) <= call.n
      BY <3>4, <2>1
    <3>8. ByteStringPromise!Limit
      BY <3>6, <3>7, <2>2 DEF ByteStringPromise!Limit, p, q
    <3> QED BY <3>8, <2>1, <1>r
  <2>4. CASE ~(want < size)
    <3>1. buf' = buf /\ len' = len
      BY <1>7, <2>4 DEF Shrink
    <3>2. ByteStringPromise!Limit
      BY <3>1, <2>2 DEF ByteStringPromise!Limit
    <3> QED BY <3>2, <2>1, <1>r
  <2> QED BY <2>3, <2>4
<1> QED BY <1>1, <1>2, <1>3, <1>4, <1>5, <1>6, <1>7 DEF Working

LEMMA StepImplements == BufInv /\ [MembufNext]_bufVars => [ByteStringPromise!Next]_(ByteStringPromise!vars)
<1>1. ASSUME ReallocFails \/ UNCHANGED bufVars PROVE UNCHANGED ByteStringPromise!vars
  BY <1>1 DEF ReallocFails, bufVars, ByteStringPromise!vars
<1> QED BY <1>1, CallImplements, WorkImplements DEF MembufNext, MembufExited

\* Wherever its memory moves, a buffer is the string of bytes that was appended
\* to, inserted into and cut as it was asked for.
THEOREM MembufIsByteString == MembufSpec => IsByteString
<1>1. MembufInit => ByteStringPromise!Init
  BY InitImplements
<1>2. BufInv /\ [MembufNext]_bufVars => [ByteStringPromise!Next]_(ByteStringPromise!vars)
  BY StepImplements
<1> QED BY <1>1, <1>2, MembufInvariance, PTL DEF MembufSpec, IsByteString, ByteStringPromise!Spec

-----------------------------------------------------------------------------
(***************************************************************************)
(* The three together.                                                     *)
(***************************************************************************)
\* A step of the containers is a step of the one that is used: the others
\* stutter.
LEMMA ContainersStep ==
  [ContainersNext]_containersVars => [VecNext]_vecVars /\ [PoolNext]_poolVars /\ [MembufNext]_bufVars
BY DEF ContainersNext, containersVars

\* Whichever container is used, each of them behaves as its module says, its
\* calls go on, and what is proved of it alone holds here.
THEOREM ContainersImplement ==
  ContainersSpec => VecSpec /\ PoolSpec /\ MembufSpec
<1>1. ContainersInit => VecInit /\ PoolInit /\ MembufInit
  BY DEF ContainersInit
<1> QED
  BY <1>1, ContainersStep, PTL DEF ContainersSpec, VecSpec, PoolSpec, MembufSpec

\* The types of all variables, for every instance of the containers.
THEOREM ContainersTypeCorrect == ContainersSpec => []ContainersTypeOK
<1>1. VecTypeOK /\ PoolTypeOK /\ MembufTypeOK => ContainersTypeOK
  BY DEF ContainersTypeOK
<1> QED
  BY <1>1, ContainersImplement, VecTypeCorrect, PoolTypeCorrect, MembufTypeCorrect, PTL

\* Elements of a pool never share memory and are all given back, a vector is
\* a set that answers truly, and a buffer is the string of bytes it was told
\* to be, also where the three are used together.
THEOREM ContainersCorrect ==
  ContainersSpec => []ElementsApart /\ []GivenBack /\ IsKeySet /\ IsByteString
BY ContainersImplement, ElementsDoNotOverlap, EverythingGivenBack, VecIsKeySet,
   MembufIsByteString, PTL
=============================================================================
