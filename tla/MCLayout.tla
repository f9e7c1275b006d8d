------------------------------ MODULE MCLayout ------------------------------
(***************************************************************************)
(* A small instance of Layout: 22 pages of 22 bytes.  The depacker has its *)
(* real length, so the ranges are a fair part of the memory and meet, touch*)
(* and leave it.                                                           *)
(***************************************************************************)
EXTENDS Layout

MCModes ==
  [b \in 0 .. 21 |-> CASE b = 0 -> 0
                       [] b = 1 -> 4
                       [] b = 2 -> 6
                       [] b = 3 -> 8
                       [] b = 4 -> 11
                       [] b = 5 -> 33
                       [] OTHER -> 11]

\* A program that uses every opcode.
MCAll == <<0, 1, 1, 1, 1, 2, 1, 3, 1>> \o [n \in 1 .. 18 |-> n + 3]

MCBodies ==
  {<<>>, <<4>>, <<1, 7, 0, 8, 9, 3, 4, 2, 5, 4>>, <<2, 4, 0>>, MCAll,
   [n \in 1 .. 30 |-> 4]}

\* An upper case letter is taken.
MCMixedOrder == <<"d", "O", ".", "t", "l", "i", "r", "z", "h">>

MCMixedOptions ==
  [order : {MCMixedOrder}, tempaddr : {90}, tempaddr2 : {0},
   zpaddr : {10}, do_split : BOOLEAN]
=============================================================================
