----------------------------- MODULE MCAssembler -----------------------------
(***************************************************************************)
(* Instances of Assembler: all short programs over a few statements, and   *)
(* some longer ones for what they do not reach.                            *)
(***************************************************************************)
EXTENDS Assembler, Statements, SequencesExt

Bne(e) == OpArg("I8", 208, e)
Nop == Op0(234)
Start == Org(Num(4096))

\* The grammar has no negative numbers, and no conditions but comparisons,
\* their combinations, and .DEFINED.
Neg(n) == Apply1("vNEG", Num(n))
True == Apply2("LT", Num(0), Num(1))
False == Apply2("NEQ", Num(1), Num(1))

-----------------------------------------------------------------------------
\* Code: labels that come later or never, lengths known later or never, code
\* that depends on what was defined before, and a macro that does.
CodeStatements ==
  {Label("a"), Bne(Sym("a")), Byte(2, Num(1) \o Sym("a")), Res(Sym("b"), Num(0)),
   Symbol("b", Num(2)), If(Defined("a")), Else, Endif, IncludeNamed("m"), Org(Num(512))}

CodePrefix == Start \o Macro("m", If(Defined("b")) \o Nop \o Else \o
                                  Symbol("b", Sym("a")) \o Label("c") \o Endif)

CodeSources == {CodePrefix \o FlattenSeq(s) :
                  s \in UNION {[1 .. n -> CodeStatements] : n \in 0 .. 4}}

\* What those do not reach.
OtherSources == {
  Nop \o Res(Num(1), Neg(1)) \o Start \o Nop,
  Bne(Num(4096)),
  Label("a"),
  Start \o Bne(Sym("a")) \o Res(Sym("b"), Num(7)) \o Label("a") \o Nop \o
    OpArg("U16", 76, Sym("a")) \o Symbol("b", Apply2("MINUS", Sym("c"), Sym("d"))) \o
    Label("d") \o OpArg("UI8", 169, Neg(1)) \o Label("c") \o Bne(Sym("d")),
  Start \o Bne(Sym("a")) \o Res(Num(200), Num(0)) \o Label("a"),
  Start \o OpArg("U8", 165, Num(256)),
  Start \o OpArg("U16", 76, Neg(1)),
  Start \o OpArg("UI8", 169, Sym("a")),
  Start \o Res(Num(1), Num(256)) \o Res(Neg(1), Num(0)),
  Start \o Symbol("a", Sym("b")) \o Symbol("b", Sym("a")) \o Words(1, Sym("a")),
  Start \o Label("a") \o Words(2, Sym("a") \o Num(70000)) \o Label("c") \o
    Words(1, Apply2("MULT", Sym("c"), Num(2))) \o Byte(1, Num(300)),
  Symbol("a", Num(1)) \o If(Apply1("LNOT", Apply2("GT", Sym("a"), Num(1)))) \o Endif \o Symbol("a", Num(2)),
  Symbol("a", Incword("f", Neg(2))) \o Words(1, Sym("a")) \o If(Apply2("EQ", Num(0), Sym("b"))) \o Endif,
  Symbol("a", Incword("f", Num(2))),
  Symbol("a", Incword("missing", Num(0))),
  Incbin("missing", 0, <<>>),
  Start \o Incbin("f", 2, Neg(2) \o Neg(1)) \o Incbin("f", 0, <<>>) \o
    Incbin("f", 1, Apply2("MINUS", Num(2), Num(1))) \o Label("a") \o Words(1, Sym("a")),
  Incbin("f", 2, Apply2("PLUS", Num(0), Num(4)) \o Apply2("DIV", Num(1), Num(0))),
  Incbin("f", 2, Apply2("PLUS", Num(0), Num(1)) \o Apply2("MOD", Num(5), Num(3))),
  Incbin("f", 2, Num(1) \o Apply2("DIV", Num(1), Num(0))),
  IncludeNamed("none"),
  Macro("m", Nop \o IncludeNamed("m")) \o IncludeNamed("m"),
  Macro("m", Nop) \o Macro("m", Nop),
  IncludeNamed("source") \o Macro("source", Nop),
  IncludeNamed("source") \o IncludeNamed("source") \o Nop,
  If(Apply2("LAND", True, Apply2("LOR", False, True))) \o Error \o Endif,
  Endif,
  Else \o Elif(True) \o Nop \o Endif}

MCCode == CodeSources \cup OtherSources

-----------------------------------------------------------------------------
\* Conditionals, well formed or not.
ConditionStatements ==
  {If(False), If(True), Elif(False), Elif(True), Else, Endif}

MCConditions ==
  {FlattenSeq(s) \o Nop : s \in [1 .. 5 -> ConditionStatements]}

MCSources == MCCode \cup MCConditions

-----------------------------------------------------------------------------
MCWords == {Start \o Words(1, Neg(32768)) \o Words(1, Neg(1))}

MCFiles == [f |-> <<1, 2, 3>>, source |-> If(False) \o Else \o Nop \o Endif]
=============================================================================
