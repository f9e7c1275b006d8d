----------------------------- MODULE ByteString -----------------------------
(***************************************************************************)
(* What a memory buffer promises: a sequence of bytes that is added to,    *)
(* inserted into, overwritten and cut as it is asked for, and otherwise    *)
(* stays as it is, wherever it is kept.                                    *)
(***************************************************************************)
EXTENDS Integers, Sequences

CONSTANTS Byte, Mem     \* bytes, and the strings of them callers pass

VARIABLES bytes, call   \* what is asked for, [op |-> "none"] if nothing is

vars == <<bytes, call>>
Nothing == [op |-> "none"]

Init == bytes = <<>> /\ call = Nothing

Ask ==
  /\ call = Nothing /\ call' # Nothing
  /\ UNCHANGED bytes

Append_ ==
  /\ call.op = "append"
  /\ bytes' = bytes \o call.mem

Insert ==
  /\ call.op = "insert"
  /\ bytes' = SubSeq(bytes, 1, call.at) \o call.mem \o SubSeq(bytes, call.at + 1, Len(bytes))

\* Bytes behind the end are not added.
Overwrite ==
  /\ call.op = "memcpy"
  /\ bytes' = [i \in 1 .. Len(bytes) |-> IF i <= Len(call.mem) THEN call.mem[i] ELSE bytes[i]]

Reserve == call.op = "atleast" /\ UNCHANGED bytes

\* Whatever the memory holds is added if the buffer is not that long.
Limit ==
  /\ call.op = "atmost"
  /\ \/ UNCHANGED bytes
     \/ /\ bytes' \in Seq(Byte)
        /\ Len(bytes') <= call.n
        /\ \A i \in 1 .. Len(bytes') : i <= Len(bytes) => bytes'[i] = bytes[i]

Perform ==
  /\ call # Nothing /\ call' = Nothing
  /\ Append_ \/ Insert \/ Overwrite \/ Reserve \/ Limit

\* The first n are dropped, or all but the first n.
Drop(n) == bytes' = SubSeq(bytes, n + 1, Len(bytes))
Keep(n) == bytes' = SubSeq(bytes, 1, n)

Next ==
  \/ Ask
  \/ Perform
  \/ /\ call = Nothing /\ call' = Nothing
     /\ \E n \in 0 .. Len(bytes) : Drop(n) \/ Keep(n)

Spec == Init /\ [][Next]_vars
=============================================================================
