---------------------------- MODULE MCContainers ----------------------------
(***************************************************************************)
(* Instances of the three containers:                                      *)
(*   - a vector of up to four elements out of four;                        *)
(*   - a pool of three chunks of seven bytes: three elements of two fill   *)
(*     six of them, two of three six, one of five five, seven of one all;  *)
(*   - a buffer with ints of four bits: sizes 1, 2 and 4, which is half of *)
(*     the range, and lengths up to 7, for which there is no size.         *)
(***************************************************************************)
EXTENDS Containers

MCKey == 1 .. 4
MCSizes == {1, 2, 3, 5}
MCMem == UNION {[1 .. n -> Byte] : n \in 0 .. 2}
=============================================================================
