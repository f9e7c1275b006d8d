--------------------------------- MODULE Vec ---------------------------------
(***************************************************************************)
(* A vector of elements, the binary search in it, and the insertion of     *)
(* what the search did not find.                                           *)
(*                                                                         *)
(* Of an element only its place in the order of the comparison function    *)
(* matters: an element is a number.                                        *)
(***************************************************************************)
EXTENDS Integers, Sequences

CONSTANTS Key,        \* the elements
          MAX_COUNT   \* bound on the length

ASSUME KeyAssumption == Key \subseteq Int /\ Key # {}
ASSUME CountAssumption == MAX_COUNT \in Nat

VARIABLES
  items,   \* the elements in the buffer
  sorted,  \* VEC_FLAG_SORTED
  find_pc,      \* "idle", "search", or "found" when vec_find is about to return
  use,     \* who calls vec_find: "find" or "insert"
  in,      \* the element looked for
  lo, hi,  \* bounds of the search
  val      \* what the last call returned

vecVars == <<items, sorted, find_pc, use, in, lo, hi, val>>

vec_count == Len(items)
vec_get(index) == items[index + 1]

\* vec_init
VecInit ==
  /\ items = <<>>
  /\ sorted = TRUE
  /\ find_pc = "idle"
  /\ use = "find"
  /\ in \in Key
  /\ lo = -1
  /\ hi = -1
  /\ val = -1

-----------------------------------------------------------------------------
\* As if what is pushed came in order.
VecPush_KeepsFlag(k) ==
  /\ find_pc = "idle"
  /\ vec_count < MAX_COUNT
  /\ items' = Append(items, k)
  /\ UNCHANGED <<sorted, find_pc, use, in, lo, hi, val>>

\* vec_push: whatever the order was, it is not relied on any more.
VecPush(k) ==
  /\ find_pc = "idle"
  /\ vec_count < MAX_COUNT
  /\ items' = Append(items, k)
  /\ sorted' = FALSE
  /\ UNCHANGED <<find_pc, use, in, lo, hi, val>>

\* vec_clear
VecClear ==
  /\ find_pc = "idle"
  /\ items' = <<>>
  /\ sorted' = TRUE
  /\ UNCHANGED <<find_pc, use, in, lo, hi, val>>

Ordered(s) == \A i, j \in 1 .. Len(s) : i < j => s[i] <= s[j]

\* s in another order.
Rearranged(s) ==
  {[i \in 1 .. Len(s) |-> s[p[i]]] :
     p \in {q \in [1 .. Len(s) -> 1 .. Len(s)] :
              \A i \in 1 .. Len(s) : \E j \in 1 .. Len(s) : q[j] = i}}

\* vec_sort
VecSort ==
  /\ find_pc = "idle"
  /\ items' \in {s \in Rearranged(items) : Ordered(s)}
  /\ sorted' = TRUE
  /\ UNCHANGED <<find_pc, use, in, lo, hi, val>>

-----------------------------------------------------------------------------
(***************************************************************************)
(* vec_find, and its call in vec_insert_uniq.                              *)
(***************************************************************************)
VecFind(caller, k) ==
  /\ find_pc = "idle"
  /\ use' = caller
  /\ in' = k
  /\ IF sorted
     THEN lo' = 0 /\ hi' = vec_count - 1 /\ find_pc' = "search"
     ELSE lo' = -1 /\ hi' = -1 /\ find_pc' = "found"
  /\ UNCHANGED <<items, sorted, val>>

next == (lo + hi) \div 2

Match ==
  /\ find_pc = "search"
  /\ lo <= hi
  /\ in = vec_get(next)
  /\ lo' = -(next + 2)
  /\ find_pc' = "found"
  /\ UNCHANGED <<items, sorted, use, in, hi, val>>

\* The element compared with stays in the range.
SearchBelow_Keeps ==
  /\ find_pc = "search"
  /\ lo <= hi
  /\ in < vec_get(next)
  /\ hi' = next
  /\ UNCHANGED <<items, sorted, find_pc, use, in, lo, val>>

SearchBelow ==
  /\ find_pc = "search"
  /\ lo <= hi
  /\ in < vec_get(next)
  /\ hi' = next - 1
  /\ UNCHANGED <<items, sorted, find_pc, use, in, lo, val>>

SearchAbove ==
  /\ find_pc = "search"
  /\ lo <= hi
  /\ in > vec_get(next)
  /\ lo' = next + 1
  /\ UNCHANGED <<items, sorted, find_pc, use, in, hi, val>>

NotThere ==
  /\ find_pc = "search"
  /\ lo > hi
  /\ find_pc' = "found"
  /\ UNCHANGED <<items, sorted, use, in, lo, hi, val>>

\* What vec_find returns.
pos == -(lo + 2)

\* The locals of vec_find are gone.
Done == find_pc' = "idle" /\ lo' = -1 /\ hi' = -1

FindReturns ==
  /\ find_pc = "found"
  /\ use = "find"
  /\ val' = pos
  /\ Done
  /\ UNCHANGED <<items, sorted, use, in>>

\* items with k in front of the element at index.
Inserted(index, k) == SubSeq(items, 1, index) \o <<k>> \o SubSeq(items, index + 1, Len(items))

\* vec_insert_uniq, when vec_find has returned to it.
InsertUniqThere ==
  /\ find_pc = "found"
  /\ use = "insert"
  /\ pos >= 0
  /\ val' = 0
  /\ Done
  /\ UNCHANGED <<items, sorted, use, in>>

InsertUniqNew ==
  /\ find_pc = "found"
  /\ use = "insert"
  /\ pos < -1
  /\ items' = Inserted(-(pos + 2), in)
  /\ val' = 1
  /\ Done
  /\ UNCHANGED <<sorted, use, in>>

InsertUniqRefused ==
  /\ find_pc = "found"
  /\ use = "insert"
  /\ pos = -1
  /\ val' = -1
  /\ Done
  /\ UNCHANGED <<items, sorted, use, in>>

Search == Match \/ SearchBelow \/ SearchAbove \/ NotThere
FindDone == FindReturns \/ InsertUniqThere \/ InsertUniqNew \/ InsertUniqRefused

Call ==
  \/ \E k \in Key : VecPush(k)
  \/ VecClear
  \/ VecSort
  \/ \E k \in Key : VecFind("find", k)
  \/ \E k \in Key : vec_count < MAX_COUNT /\ VecFind("insert", k)

VecNext == Call \/ Search \/ FindDone

\* A call that was made goes on.
VecSpec == VecInit /\ [][VecNext]_vecVars /\ WF_vecVars(Search \/ FindDone)

-----------------------------------------------------------------------------
(***************************************************************************)
(* Properties.                                                             *)
(***************************************************************************)
\* The types of the variables, and the bounds of the search.
VecTypeOK ==
  /\ items \in Seq(Key) /\ Len(items) <= MAX_COUNT
  /\ sorted \in BOOLEAN
  /\ find_pc \in {"idle", "search", "found"}
  /\ use \in {"find", "insert"}
  /\ in \in Key
  /\ lo \in Int /\ hi \in Int /\ val \in Int
  /\ find_pc = "search" => 0 <= lo /\ lo <= hi + 1 /\ hi < Len(items)

\* A vector with the flag is in order, however it got the flag and whatever
\* was inserted since.
FlagMeansOrder == sorted => Ordered(items)

\* What vec_find is about to return: the place of the element; or, as a
\* negative number, the place where it belongs, with all that are less in front
\* and all that are greater behind; or -1, but only without the flag.
FindTells ==
  find_pc = "found" =>
    /\ pos = -1 <=> ~sorted
    /\ pos >= 0 => pos < Len(items) /\ vec_get(pos) = in
    /\ pos < -1 =>
         /\ -(pos + 2) <= Len(items)
         /\ \A i \in 1 .. Len(items) :
              /\ i <= -(pos + 2) => items[i] < in
              /\ i > -(pos + 2) => items[i] > in

\* A vector is a set that answers truly, but for one that was pushed to and
\* not sorted.
Keys == {items[i] : i \in 1 .. Len(items)}
Answers ==
  IF find_pc # "idle" THEN "none"
  ELSE IF val = -1 THEN "refused"
  ELSE IF use = "insert" THEN IF val = 0 THEN "there" ELSE "not there"
  ELSE IF val >= 0 THEN "there" ELSE "not there"

KeySetPromise == INSTANCE KeySet WITH keys <- Keys, loose <- ~sorted,
                                 asked <- in, answer <- Answers
IsKeySet == KeySetPromise!Spec

\* Every call of vec_find and vec_insert_uniq returns.
VecReturns == [](find_pc # "idle" => <>(find_pc = "idle"))
=============================================================================
