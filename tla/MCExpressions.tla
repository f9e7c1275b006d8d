---------------------------- MODULE MCExpressions ----------------------------
(***************************************************************************)
(* Instance of Expressions: two leaves, an expression over them, and one   *)
(* over all three, so that arguments are shared.  Symbols may be defined   *)
(* by any of the four, before or after they are asked for, or in a circle. *)
(***************************************************************************)
EXTENDS Expressions

MCLeaves == {Number(0), Number(-1), Number(-LIMIT), Symref("a"), Symref("b")}

MCInner == {Op1("vNEG", 1), Op1("LNOT", 1)}
             \cup {Op2(op, 1, 2) : op \in {"PLUS", "DIV", "LAND", "LOR"}}

MCOuter == {Op2(op, x, y) : op \in {"MINUS", "MOD", "LAND", "LOR"},
                            x \in {1, 3}, y \in {3}}

MCPools == {<<l1, l2, n, o>> :
              l1 \in MCLeaves, l2 \in MCLeaves, n \in MCInner, o \in MCOuter}
=============================================================================
