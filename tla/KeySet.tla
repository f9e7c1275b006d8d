------------------------------- MODULE KeySet -------------------------------
(***************************************************************************)
(* What a vector promises to those who look things up in it: it is a set   *)
(* of keys that answers whether a key is in it.  Keys may also be thrown   *)
(* in loosely; from then on it refuses to answer, until it is put in order *)
(* or emptied.                                                             *)
(***************************************************************************)
CONSTANT Key

VARIABLES
  keys,      \* the set
  loose,     \* keys were thrown in
  asked,     \* the key that is looked up
  answer     \* "none" while it is, "there", "not there", or "refused"

vars == <<keys, loose, asked, answer>>

Init == keys = {} /\ loose = FALSE /\ asked \in Key /\ answer = "refused"

Ask(k) ==
  /\ answer # "none"
  /\ asked' = k
  /\ answer' = "none"
  /\ UNCHANGED <<keys, loose>>

Answer ==
  /\ answer = "none" /\ ~loose
  /\ answer' = IF asked \in keys THEN "there" ELSE "not there"
  /\ UNCHANGED <<keys, loose, asked>>

\* A key that is not there is inserted.
Insert ==
  /\ answer = "none" /\ ~loose
  /\ answer' = IF asked \in keys THEN "there" ELSE "not there"
  /\ keys' = keys \cup {asked}
  /\ UNCHANGED <<loose, asked>>

Refuse ==
  /\ answer = "none" /\ loose
  /\ answer' = "refused"
  /\ UNCHANGED <<keys, loose, asked>>

Push(k) ==
  /\ answer # "none"
  /\ keys' = keys \cup {k}
  /\ loose' = TRUE
  /\ UNCHANGED <<asked, answer>>

Clear ==
  /\ answer # "none"
  /\ keys' = {}
  /\ loose' = FALSE
  /\ UNCHANGED <<asked, answer>>

PutInOrder ==
  /\ answer # "none"
  /\ loose' = FALSE
  /\ UNCHANGED <<keys, asked, answer>>

Next ==
  \/ \E k \in Key : Ask(k) \/ Push(k)
  \/ Answer
  \/ Insert
  \/ Refuse
  \/ Clear
  \/ PutInOrder

Spec == Init /\ [][Next]_vars
=============================================================================
