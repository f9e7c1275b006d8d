---------------------------- MODULE MCUnsplitter ----------------------------
(***************************************************************************)
(* A small instance of Unsplitter: a byte has 22 values, six opcodes cover *)
(* the modes, the others take no argument.                                 *)
(***************************************************************************)
EXTENDS Unsplitter

MCModes ==
  [b \in 0 .. 21 |-> CASE b = 0 -> 0
                       [] b = 1 -> 4
                       [] b = 2 -> 6
                       [] b = 3 -> 8
                       [] b = 4 -> 11
                       [] b = 5 -> 33
                       [] OTHER -> 11]

\* A program that uses every opcode, and then starts an instruction with two
\* arguments.
MCAll == <<0, 1, 1, 1, 1, 2, 1, 3, 1>> \o [k \in 1 .. 18 |-> k + 3] \o <<0>>

\* All short programs over four modes, cut off or not; programs that use all
\* opcodes, all but the last, or all and a cut off one; programs at and
\* behind the limit of the buffer.
MCBodies ==
  UNION {[1 .. n -> {0, 1, 2, 4}] : n \in 0 .. 4}
    \cup {<<3, 0, 5, 3, 3>>, <<5, 3>>, <<5>>}
    \cup {SubSeq(MCAll, 1, n) : n \in 26 .. 28}
    \cup {[k \in 1 .. n |-> 0] : n \in {29, 30, 31, 40}}
=============================================================================
