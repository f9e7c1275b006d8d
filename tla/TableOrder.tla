----------------------------- MODULE TableOrder -----------------------------
(***************************************************************************)
(* The order of the tables as the option -O gives it, and the ranges of    *)
(* the addresses: what main accepts and the layout relies on.              *)
(*                                                                         *)
(* "d" is the depacker, "t" the argument table, the other letters are the  *)
(* data tables, "." separates the two files.                               *)
(***************************************************************************)
EXTENDS Opcodes

Id == Table \cup {"d", "t"}

Upper == [d |-> "D", t |-> "T", o |-> "O", l |-> "L", h |-> "H",
          i |-> "I", r |-> "R", z |-> "Z"]

Char == Id \cup {"."} \cup {Upper[id] : id \in Id}

\* c is the character of the list that strcasestr finds for x.
SameLetter(c, x) == c = x \/ (x \in Id /\ c = Upper[x])

TABLE_ORDER_LENGTH == 9

\* Each character of the list once, in either case, and the separator neither
\* at the start nor at the end.
ValidOrder(order) ==
  /\ Len(order) = TABLE_ORDER_LENGTH
  /\ \A x \in Id \cup {"."} : \E n \in 1 .. Len(order) : SameLetter(order[n], x)
  /\ order[1] # "."
  /\ order[TABLE_ORDER_LENGTH] # "."

ValidTempaddr(a) == 2 * PAGE <= a /\ a <= (PAGE - 1) * PAGE

ValidZpaddr(a) == 0 <= a /\ a <= PAGE - 12
=============================================================================
