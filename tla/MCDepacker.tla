----------------------------- MODULE MCDepacker -----------------------------
(***************************************************************************)
(* A small instance of Depacker: 22 pages of 22 bytes.  The programs and   *)
(* the tables cross page borders, which is where pointers and the store    *)
(* instruction carry.                                                      *)
(***************************************************************************)
EXTENDS Depacker

MCModes ==
  [b \in 0 .. 21 |-> CASE b = 0 -> 0
                       [] b = 1 -> 4
                       [] b = 2 -> 6
                       [] b = 3 -> 8
                       [] b = 4 -> 11
                       [] b = 5 -> 33
                       [] OTHER -> 11]

\* A program that uses every opcode.
MCAll == <<0, 1, 1, 1, 1, 2, 1, 3, 1>> \o [n \in 1 .. 18 |-> n + 3]

\* Programs with every mode, cut off in their arguments or not, without an
\* argument, without the opcode 0, with every opcode, empty, and too long.
MCBodies ==
  {<<>>, <<4>>, <<1, 7, 0, 8, 9, 3, 4, 2, 5, 4>>, <<2, 4, 0>>, <<5, 1, 2, 5, 1>>,
   <<0, 0, 0, 0, 0, 0, 0, 0, 0>>, MCAll, Append(MCAll, 0), [n \in 1 .. 30 |-> 4]}

\* The default, and the separator between other tables.
MCOrders ==
  {<<"d", "o", ".", "t", "l", "i", "r", "z", "h">>,
   <<"h", "z", "l", "t", "i", "o", "r", ".", "d">>}

\* A missing table, one that occurs twice, the separator at the ends.
MCBadOrders ==
  {<<"d", "o", "t", "l", "i", "r", "z", "h">>,
   <<"d", "o", ".", "t", "l", "i", "r", "z", "Z">>,
   <<".", "d", "o", "t", "l", "i", "r", "z", "h">>,
   <<"d", "o", "t", "l", "i", "r", "z", "h", ".">>}

\* Addresses for which the ranges lie apart, touch, share bytes, contain each
\* other and reach the end of the memory; and settings that are refused.
MCOptions ==
  [order : MCOrders, tempaddr : {44, 90, 390, 462}, tempaddr2 : {0, 44, 150, 462},
   zpaddr : {10}, do_split : BOOLEAN] \cup
  [order : MCOrders, tempaddr : {90}, tempaddr2 : {0, 150},
   zpaddr : {0}, do_split : BOOLEAN] \cup
  [order : MCBadOrders, tempaddr : {90}, tempaddr2 : {0, 200},
   zpaddr : {10}, do_split : BOOLEAN] \cup
  [order : MCOrders, tempaddr : {43, 463}, tempaddr2 : {0, 43},
   zpaddr : {10, 11}, do_split : BOOLEAN]

\* One call; the program ends at the end of the memory.
MCTopBodies == {<<1, 7>>, <<4, 4>>}
MCTopOptions ==
  [order : {<<"d", "o", ".", "t", "l", "i", "r", "z", "h">>},
   tempaddr : {90}, tempaddr2 : {0}, zpaddr : {10}, do_split : BOOLEAN]
=============================================================================
