------------------------------ MODULE MCParser ------------------------------
(***************************************************************************)
(* Texts for the parser, each with what it means.                          *)
(***************************************************************************)
EXTENDS Automaton, SequencesExt

Dir(v) == <<[t |-> "directive", v |-> v]>>
W(v) == <<[t |-> "word", v |-> v]>>
S(v) == <<[t |-> "sign", v |-> v]>>
N(n) == <<[t |-> "number", n |-> n]>>
Q(v) == <<[t |-> "quoted", v |-> v]>>

Parens(t) == S("(") \o t \o S(")")

-----------------------------------------------------------------------------
(***************************************************************************)
(* Expressions and conditions: text, meaning, and how strongly the         *)
(* outermost operator binds.  Parentheses stand only where they must.      *)
(***************************************************************************)
Within(e, level) == IF e.level < level THEN Parens(e.text) ELSE e.text

Unary(op, sign, level, e) ==
  [text |-> S(sign) \o Within(e, level), means |-> Apply1(op, e.means), level |-> level]

\* Operators of one level associate to the left.
Binary(op, sign, level, l, r) ==
  [text |-> Within(l, level) \o S(sign) \o Within(r, level + 1),
   means |-> Apply2(op, l.means, r.means), level |-> level]

E0 == {[text |-> N(1), means |-> Num(1), level |-> 4],
       [text |-> W("a"), means |-> Sym("a"), level |-> 4]}

Over(ls, rs) ==
  {Binary("PLUS", "+", 1, l, r) : l \in ls, r \in rs} \cup
  {Binary("MINUS", "-", 1, l, r) : l \in ls, r \in rs} \cup
  {Binary("MULT", "*", 2, l, r) : l \in ls, r \in rs} \cup
  {Binary("DIV", "/", 2, l, r) : l \in ls, r \in rs} \cup
  {Binary("MOD", "%", 2, l, r) : l \in ls, r \in rs}

Negated(es) == {Unary("vNEG", "-", 3, e) : e \in es}

\* Two operators in every order and nesting.
E1 == E0 \cup Negated(E0) \cup Over(E0, E0)
E2 == E1 \cup Negated(E1) \cup Over(E1, E0) \cup Over(E0, E1)

IncwordOf(e) ==
  [text |-> Dir("incword") \o S("(") \o Q("f") \o S(",") \o e.text \o S(")"),
   means |-> Incword("f", e.means), level |-> 4]

Compare(op, sign, l, r) ==
  [text |-> l.text \o S(sign) \o r.text, means |-> Apply2(op, l.means, r.means), level |-> 4]

DefinedA == [text |-> Dir("defined") \o S("(") \o W("a") \o S(")"),
             means |-> Defined("a"), level |-> 4]

One == CHOOSE e \in E0 : e.means = Num(1)
SymA == CHOOSE e \in E0 : e.means = Sym("a")

C0 == {DefinedA, Compare("LT", "<", SymA, One)}

OverC(cs) ==
  cs \cup {Unary("LNOT", "!", 3, c) : c \in cs}
     \cup {Binary("LAND", "&&", 2, l, r) : l, r \in cs}
     \cup {Binary("LOR", "||", 1, l, r) : l, r \in cs}

C2 == OverC(OverC(C0)) \cup
  {Compare("LT", "<", l, r) : l, r \in E1} \cup
  {Compare("GT", ">", SymA, One), Compare("EQ", "==", One, SymA), Compare("NEQ", "!=", SymA, SymA)}

-----------------------------------------------------------------------------
(***************************************************************************)
(* Instructions: the forms the grammar has for each mnemonic, in the order *)
(* of its rules.                                                           *)
(***************************************************************************)
FormsOf(mnemonics, forms) ==
  [n \in 1 .. Len(mnemonics) * Len(forms) |->
     <<mnemonics[(n - 1) \div Len(forms) + 1], forms[((n - 1) % Len(forms)) + 1]>>]
Forms(mnemonic, forms) == FormsOf(<<mnemonic>>, forms)

AllForms == <<"im", "zp", "zpx", "a", "ax", "ay", "ix", "iy">>

OpList ==
  Forms("lda", AllForms) \o
  Forms("ldx", <<"im", "zp", "zpy", "a", "ay">>) \o
  Forms("ldy", <<"im", "zp", "zpx", "a", "ay">>) \o
  Forms("sta", Tail(AllForms)) \o
  Forms("stx", <<"zp", "zpy", "a">>) \o
  Forms("sty", <<"zp", "zpx", "a">>) \o
  FormsOf(<<"and", "ora", "eor", "adc", "sbc", "cmp">>, AllForms) \o
  FormsOf(<<"cpx", "cpy">>, <<"im", "zp", "a">>) \o
  FormsOf(<<"txs", "tsx", "pha", "pla", "php", "plp", "sei", "cli", "nop", "tya", "tay", "txa",
            "tax", "clc", "sec", "rts">>, <<"none">>) \o
  FormsOf(<<"jsr", "jmp", "beq", "bne", "bcc", "bcs", "bpl", "bmi", "bvc", "bvs">>, <<"a">>) \o
  FormsOf(<<"inx", "dex", "iny", "dey">>, <<"none">>) \o
  FormsOf(<<"inc", "dec">>, <<"zp", "zpx", "a", "ax">>) \o
  FormsOf(<<"lsr", "asl", "ror", "rol">>, <<"none", "zp", "zpx", "a", "ax">>)

Branch == {"beq", "bne", "bcc", "bcs", "bpl", "bmi", "bvc", "bvs"}

\* The mode of an instruction, by its mnemonic and the form of its argument.
ModeWritten(op) ==
  CASE op[2] = "none" -> Table!MODEimpl
    [] op[2] = "im"   -> Table!MODEimm
    [] op[2] \in {"zp", "zpx", "zpy", "ix", "iy"} -> Table!MODEzp
    [] op[2] \in {"a", "ax", "ay"} ->
         IF op[1] \in Branch THEN Table!MODErel ELSE Table!MODEabs

\* The splitter takes each opcode for the mode it is written in.
ASSUME FormAssumption ==
  \A n \in 1 .. Len(OpList) : Real!opcodes_6502[Ops[n][2]] = ModeWritten(OpList[n])

Argument(form, e) ==
  CASE form = "none" -> <<>>
    [] form = "im"   -> S("#") \o e
    [] form = "zp"   -> S("<") \o e
    [] form = "zpx"  -> S("<") \o e \o S(",") \o W("x")
    [] form = "zpy"  -> S("<") \o e \o S(",") \o W("y")
    [] form = "a"    -> e
    [] form = "ax"   -> e \o S(",") \o W("x")
    [] form = "ay"   -> e \o S(",") \o W("y")
    [] form = "ix"   -> S("(") \o e \o S(",") \o W("x") \o S(")")
    [] form = "iy"   -> Parens(e) \o S(",") \o W("y")

\* The n-th instruction with e as its argument.
Instr(n, e) ==
  LET op == OpList[n]
  IN [text |-> W(op[1]) \o Argument(op[2], e.text),
      items |-> IF op[2] = "none" THEN Op0(Ops[n][2]) ELSE OpArg(Ops[n][1], Ops[n][2], e.means),
      ops |-> <<op>>, fate |-> "accepted"]

\* The word bvs is left to MCMnemonics.
Usable == {n \in 1 .. Len(OpList) : OpList[n][1] # "bvs"}

-----------------------------------------------------------------------------
(***************************************************************************)
(* Statements and programs.                                                *)
(***************************************************************************)
St(t, does) == [text |-> t, items |-> does, ops |-> <<>>, fate |-> "accepted"]

Then(p, q) == [text |-> p.text \o q.text, items |-> p.items \o q.items,
               ops |-> p.ops \o q.ops, fate |-> q.fate]

\* One after the other; halved, because there may be many.
RECURSIVE Program(_)
Program(sts) ==
  LET half == Len(sts) \div 2
  IN IF half = 0 THEN sts[1]
     ELSE Then(Program(SubSeq(sts, 1, half)), Program(SubSeq(sts, half + 1, Len(sts))))

OpAt(mnemonic, form) ==
  LET list == OpList IN CHOOSE n \in 1 .. Len(list) : list[n] = <<mnemonic, form>>
Nop == Instr(OpAt("nop", "none"), One)

Sets(e) == St(W("a") \o S("=") \o e.text, Symbol("a", e.means))
IfTrue(c) == Then(Then(St(Dir("if") \o Parens(c.text), Decide(c.means)), Nop), St(Dir("endif"), <<>>))

Call(directive, args) == Dir(directive) \o Parens(args)

\* The included text ends with an expression.
MCFiles == [m |-> Sets(One).text]

LabelA == St(W("a") \o S(":"), Label("a"))
IncludeM == St(Call("include", Q("m")), IncludeNamed("m") \o Sets(One).items)
MacroN == St(Call("macro", Q("n")) \o W("l") \o Dir("if") \o Dir("endmacro"),
             MacroNamed("n") \o MacroText("l") \o MacroText("if"))

MCStatements ==
  {LabelA, Sets(SymA), IfTrue(DefinedA), IncludeM, MacroN,
   St(Call("org", N(1)), Org(Num(1))),
   St(Call("echo", Q("m")), <<>>),
   St(Call("res", N(1) \o S(",") \o W("a")), Res(Num(1), Sym("a"))),
   St(Call("word", N(1)), Words(1, Num(1))),
   St(Call("byte", N(1) \o S(",") \o Parens(W("a")) \o S(",") \o N(2)),
      Byte(3, Num(1) \o Sym("a") \o Num(2))),
   St(Call("incbin", Q("f")), Incbin("f", 0, <<>>)),
   St(Call("incbin", Q("f") \o S(",") \o N(1)), Incbin("f", 1, Num(1))),
   St(Call("incbin", Q("f") \o S(",") \o N(1) \o S(",") \o W("a")),
      Incbin("f", 2, Num(1) \o Sym("a"))),
   Nop, [Nop EXCEPT !.text = Dir("nop")], Instr(OpAt("lda", "ay"), SymA)}

\* What the grammar does not accept.
Refused(t) == [text |-> t, items |-> <<>>, ops |-> <<>>, fate |-> "aborted"]

Has(mnemonic, form) == <<mnemonic, form>> \in ToSet(OpList)

Stem(form) == CASE form = "im" -> "im" [] form \in {"zp", "zpx", "zpy"} -> "zp" [] OTHER -> "a"

\* The part of the instruction that is accepted before the rest is refused.
Accepted(mnemonic, form) ==
  IF form # Stem(form) /\ Has(mnemonic, Stem(form))
  THEN IF \E f \in {"zpx", "zpy", "ax", "ay"} : Stem(f) = Stem(form) /\ Has(mnemonic, f)
       THEN "" ELSE Stem(form)
  ELSE IF Has(mnemonic, "none") THEN "none" ELSE ""

RefusedOp(mnemonic, form) ==
  LET whole == Refused(W(mnemonic) \o Argument(form, W("a")))
      part == Accepted(mnemonic, form)
  IN IF part = "" THEN whole
     ELSE LET i == Instr(OpAt(mnemonic, part), SymA)
          IN [whole EXCEPT !.items = i.items, !.ops = i.ops]

NotStatements ==
  {RefusedOp(mnemonic, form) :
     <<mnemonic, form>> \in
       ({OpList[n][1] : n \in Usable} \X {"im", "zp", "zpx", "zpy", "ax", "ay"})
       \ {OpList[n] : n \in Usable}} \cup
  {Refused(W("sta") \o Parens(W("a")) \o S(",") \o W("x")),
   Refused(W("a")), Refused(N(1)), Refused(Dir("if") \o Parens(N(1))),
   Then(Instr(OpAt("lda", "iy"), SymA), Refused(S("+") \o N(1))),
   Refused(W("lda") \o S("#") \o S("!") \o N(1)),
   Refused(Dir("byte") \o S("(") \o S(")")),
   Refused(Call("include", W("m")))}

\* Ends of lines are no tokens: the name of a label behind an instruction that
\* may have an argument is taken for the argument.
Swallowed == [Refused(W("lsr") \o LabelA.text) EXCEPT
                !.items = OpArg("U16", 78, Sym("a")), !.ops = <<<<"lsr", "a">>>>]

\* Nested deeper than the stacks.
Deep == [text |-> W("a") \o S("=") \o FlattenSeq([n \in 1 .. 30 |-> S("(")]),
         items |-> <<>>, ops |-> <<>>, fate |-> "exhausted"]

Exits ==
  {[St(Call("error", Q("m")), Error) EXCEPT !.fate = "exit"],
   [St(Call("include", Q("f")), IncludeNamed("f")) EXCEPT !.fate = "exit"]}

\* An .endif without its .if.
Stray == [St(Dir("endif"), <<>>) EXCEPT !.fate = "exit"]

\* Operands in parentheses, or that begin with one.
Operands == {SymA, [One EXCEPT !.text = Parens(@)],
             Binary("MULT", "*", 2, Binary("PLUS", "+", 1, One, SymA), One)}

\* Parentheses around all of an argument change nothing, but before an index
\* they make it indirect where the instruction has that.
Instrs ==
  {Instr(n, e) : n \in Usable, e \in Operands} \
  {Instr(n, [One EXCEPT !.text = Parens(@)]) :
     n \in {k \in Usable : OpList[k][2] \in {"ax", "ay"} /\ Has(OpList[k][1], "iy")}}

Everything == Program([n \in 1 .. Len(OpList) |-> IF n \in Usable THEN Instr(n, One) ELSE Nop])

MCPrograms ==
  {Sets(e) : e \in E2 \cup {IncwordOf(e) : e \in E1}} \cup
  {IfTrue(c) : c \in C2} \cup
  {Then(i, Nop) : i \in Instrs} \cup
  {Then(Nop, q) : q \in NotStatements} \cup
  {Then(p, q) : p \in MCStatements, q \in MCStatements \cup Exits \cup {Swallowed, Deep}} \cup
  {Then(Then(p, p), p) : p \in MCStatements} \cup
  {Then(p, Stray) : p \in {LabelA, Nop, IfTrue(DefinedA)}} \cup
  {Everything}

-----------------------------------------------------------------------------
\* All mnemonics.
MCMnemonics ==
  {Then(Instr(m, One), Instr(n, One)) :
     m, n \in {k \in 1 .. Len(OpList) : OpList[k][1] \in Branch}}
=============================================================================
