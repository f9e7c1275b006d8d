------------------------------ MODULE Statements ------------------------------
(***************************************************************************)
(* The statements of the assembler as sequences of the items that module   *)
(* Assembler takes: the rules of the grammar in the order in which they    *)
(* are reduced, and the directives of the scanner.                         *)
(***************************************************************************)
EXTENDS Integers, Sequences

StatementItem ==
       [k : {"IF", "ELIF", "ELSE", "ENDIF", "if", "org", "res", "endmacro", "error"}]
  \cup [k : {"number"}, n : Int]
  \cup [k : {"symref", "defined", "symbol", "label", "incword", "macro", "include"}, name : STRING]
  \cup [k : {"op1"}, op : {"vNEG", "LNOT"}]
  \cup [k : {"op2"}, op : {"PLUS", "MINUS", "MULT", "DIV", "MOD", "LT", "GT", "EQ", "NEQ", "LAND", "LOR"}]
  \cup [k : {"incbin"}, name : STRING, args : 0 .. 2]
  \cup [k : {"op"}, type : {"NONE", "U8", "U16", "UI8", "I8"}, code : 0 .. 255]
  \cup [k : {"byte", "word"}, n : Nat \ {0}]
  \cup [k : {"text"}, text : STRING \cup Int]

\* The expressions a rule takes from the value stack.
Takes(i) ==
  CASE i.k \in {"op1", "incword", "symbol", "org", "if"} -> 1
    [] i.k \in {"op2", "res"}  -> 2
    [] i.k = "op"              -> IF i.type = "NONE" THEN 0 ELSE 1
    [] i.k \in {"byte", "word"} -> i.n
    [] i.k = "incbin"          -> i.args
    [] OTHER                   -> 0

IsExpression(i) == i.k \in {"number", "symref", "defined", "op1", "op2", "incword"}

\* Of n expressions that wait the last ones become one; or the statement takes
\* all there are.
FoundBy(i, n) == IF IsExpression(i) THEN Takes(i) <= n ELSE Takes(i) = n
LeftBy(i, n) == IF IsExpression(i) THEN n - Takes(i) + 1 ELSE 0

\* Expressions
Num(n) == <<[k |-> "number", n |-> n]>>
Sym(s) == <<[k |-> "symref", name |-> s]>>
Apply1(op, e) == e \o <<[k |-> "op1", op |-> op]>>
Apply2(op, e1, e2) == e1 \o e2 \o <<[k |-> "op2", op |-> op]>>
Defined(s) == <<[k |-> "defined", name |-> s]>>
Incword(name, e) == e \o <<[k |-> "incword", name |-> name]>>

\* Statements
Symbol(s, e) == e \o <<[k |-> "symbol", name |-> s]>>
Label(s) == <<[k |-> "label", name |-> s]>>
Org(e) == e \o <<[k |-> "org"]>>
Op0(code) == <<[k |-> "op", type |-> "NONE", code |-> code]>>
OpArg(type, code, e) == e \o <<[k |-> "op", type |-> type, code |-> code]>>
Byte(n, es) == es \o <<[k |-> "byte", n |-> n]>>
Words(n, es) == es \o <<[k |-> "word", n |-> n]>>
Res(length, value) == length \o value \o <<[k |-> "res"]>>
Incbin(name, n, es) == es \o <<[k |-> "incbin", name |-> name, args |-> n]>>
IncludeNamed(name) == <<[k |-> "include", name |-> name]>>
Error == <<[k |-> "error"]>>

\* Directives
Decide(e) == e \o <<[k |-> "if"]>>
If(e) == <<[k |-> "IF"]>> \o Decide(e)
Elif(e) == <<[k |-> "ELIF"]>> \o Decide(e)
Else == <<[k |-> "ELSE"]>>
Endif == <<[k |-> "ENDIF"]>>
MacroNamed(name) == <<[k |-> "macro", name |-> name]>>
MacroText(text) == <<[k |-> "text", text |-> text]>>
Macro(name, text) == MacroNamed(name) \o text \o <<[k |-> "endmacro"]>>
=============================================================================
