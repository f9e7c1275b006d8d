------------------------------- MODULE Parser -------------------------------
(***************************************************************************)
(* The parser of the assembler: the generated automaton with its stacks    *)
(* and its token of look-ahead, the scanner that delivers the tokens, and  *)
(* what the rules of the grammar do.                                       *)
(*                                                                         *)
(* What a rule does is recorded as the items of module Statements, from    *)
(* which module Assembler starts.  Conditionals are seen from the parser:  *)
(* the text is what the scanner does not skip, a branch that is assembled. *)
(***************************************************************************)
EXTENDS GrammarTables, Lexemes, Statements

CONSTANTS Programs,     \* texts to parse, and what they mean
          SourceFiles,  \* the texts to include, by name
          YYMAXDEPTH    \* limit of the stacks

ASSUME DepthAssumption == YYMAXDEPTH \in Nat \ {0}
ASSUME TextAssumption ==
  /\ \A p \in Programs : p.text \in Seq(Lexeme)
  /\ \A name \in DOMAIN SourceFiles : SourceFiles[name] \in Seq(Lexeme)

VARIABLES
  program,      \* the program to parse: text, meaning, and fate
  text,         \* what the scanner has not read yet
  yytext,       \* the lexeme the scanner found last
  condition,    \* stack of start conditions, the current one last
  push_state,   \* the start condition the parser wants pushed, or "none"
  yychar,       \* the token of look-ahead, or YYEMPTY
  yylval,       \* its value
  yyss, yyvs,   \* stacks of states and of values
  yyresult,     \* "none" while the parser runs
  items         \* what the rules did

scanVars == <<text, yytext, condition, push_state>>
vars == <<program, scanVars, yychar, yylval, yyss, yyvs, yyresult, items>>

YYEMPTY == "YYEMPTY"
YYEOF == "$end"
Unset == "unset"

Init ==
  /\ program \in Programs
  /\ text = program.text
  /\ yytext = Unset
  /\ condition = <<"INITIAL">>
  /\ push_state = "none"
  /\ yychar = YYEMPTY
  /\ yylval = Unset
  /\ yyss = <<0>>
  /\ yyvs = <<Unset>>
  /\ yyresult = "none"
  /\ items = <<>>

-----------------------------------------------------------------------------
(***************************************************************************)
(* The state of the automaton, and what it does next.                      *)
(***************************************************************************)
yystate == yyss[Len(yyss)]

Running == yyresult = "none" /\ Len(yyss) < YYMAXDEPTH

\* As if the token of look-ahead were always read.
Consistent_Never == FALSE

\* The state decides without a look-ahead.
Consistent == Entry(yypact, yystate) = YYPACT_NINF

Decided == Running /\ (Consistent \/ yychar # YYEMPTY)

\* Without the check that the entry of the table is one of this state.
ShiftTo_Unchecked ==
  LET n == Entry(yypact, yystate) + yytranslate[yychar]
  IN IF 0 <= n /\ n <= YYLAST THEN Entry(yytable, n) ELSE 0

\* The state to shift the token of look-ahead to, 0 if there is none.
ShiftTo == ShiftOn(yystate, yytranslate[yychar])

Shifts == ~Consistent /\ ShiftTo # 0
Rule == Entry(yydefact, yystate)
Reduces(rules) == Decided /\ ~Shifts /\ Rule \in rules

-----------------------------------------------------------------------------
(***************************************************************************)
(* The scanner.                                                            *)
(***************************************************************************)
Wanted == Running /\ ~Consistent /\ yychar = YYEMPTY

\* The condition the parser asked for is pushed when yylex is called.
PushCondition ==
  /\ Wanted
  /\ push_state # "none"
  /\ condition' = Append(condition, push_state)
  /\ push_state' = "none"
  /\ UNCHANGED <<program, text, yytext, yychar, yylval, yyss, yyvs, yyresult, items>>

IsDirective(v) == text[1] = [t |-> "directive", v |-> v]

Scans(start) ==
  /\ Wanted
  /\ push_state = "none"
  /\ condition[Len(condition)] = start
  /\ text # <<>>

\* Nothing the parser gets to see ends a macro or a conditional: yy_pop_state,
\* which exits when nothing was pushed.
ScanEnd ==
  /\ \/ Scans("MACROO") /\ IsDirective("endmacro")
     \/ Scans("INITIAL") /\ IsDirective("endif")
  /\ text' = Tail(text)
  /\ yytext' = Value(text[1])
  /\ IF Len(condition) = 1
       THEN yyresult' = "exit" /\ UNCHANGED condition
       ELSE condition' = SubSeq(condition, 1, Len(condition) - 1) /\ UNCHANGED yyresult
  /\ UNCHANGED <<program, push_state, yychar, yylval, yyss, yyvs, items>>

Deliver(token, value) ==
  /\ yychar' = token
  /\ yylval' = value
  /\ UNCHANGED <<program, condition, push_state, yyss, yyvs, yyresult, items>>

ScanToken ==
  /\ Scans("INITIAL")
  /\ ~IsDirective("endif")
  /\ text' = Tail(text)
  /\ yytext' = Value(text[1])
  /\ Deliver(Token(text[1]), Value(text[1]))

\* The value is a pointer to yytext, not a copy of it.
ScanMacroString ==
  /\ Scans("MACROO")
  /\ ~IsDirective("endmacro")
  /\ text' = Tail(text)
  /\ yytext' = Value(text[1])
  /\ Deliver("MACRO_STRING", "yytext")

\* The ends of included texts are not seen: an included text continues with
\* the one that includes it.
ScanEof ==
  /\ Wanted
  /\ push_state = "none"
  /\ text = <<>>
  /\ Deliver(YYEOF, yylval)
  /\ UNCHANGED <<text, yytext>>

-----------------------------------------------------------------------------
(***************************************************************************)
(* What the rules do.                                                      *)
(***************************************************************************)
V(n) == yyvs[Len(yyvs) - n]     \* yyvsp[-n]

Im(code) == <<"UI8", code>>
U8(code) == <<"U8", code>>
U16(code) == <<"U16", code>>
I8(code) == <<"I8", code>>
Op(code) == <<"NONE", code>>

Loads == <<
  Im(\hA9), U8(\hA5), U8(\hB5), U16(\hAD), U16(\hBD), U16(\hB9), U8(\hA1), U8(\hB1),
  Im(\hA2), U8(\hA6), U8(\hB6), U16(\hAE), U16(\hBE),
  Im(\hA0), U8(\hA4), U8(\hB4), U16(\hAC), U16(\hBC)>>

\* sta addr,x takes one byte of its address.
Stores_OneByte == <<
  U8(\h85), U8(\h95), U16(\h8D), U8(\h9D), U16(\h99), U8(\h81), U8(\h91),
  U8(\h86), U8(\h96), U16(\h8E), U8(\h84), U8(\h94), U16(\h8C)>>

Stores == <<
  U8(\h85), U8(\h95), U16(\h8D), U16(\h9D), U16(\h99), U8(\h81), U8(\h91),
  U8(\h86), U8(\h96), U16(\h8E), U8(\h84), U8(\h94), U16(\h8C)>>

Logic == <<
  Im(\h29), U8(\h25), U8(\h35), U16(\h2D), U16(\h3D), U16(\h39), U8(\h21), U8(\h31),
  Im(\h09), U8(\h05), U8(\h15), U16(\h0D), U16(\h1D), U16(\h19), U8(\h01), U8(\h11),
  Im(\h49), U8(\h45), U8(\h55), U16(\h4D), U16(\h5D), U16(\h59), U8(\h41), U8(\h51)>>

Arithmetic == <<
  Im(\h69), U8(\h65), U8(\h75), U16(\h6D), U16(\h7D), U16(\h79), U8(\h61), U8(\h71),
  Im(\hE9), U8(\hE5), U8(\hF5), U16(\hED), U16(\hFD), U16(\hF9), U8(\hE1), U8(\hF1)>>

Compares == <<
  Im(\hC9), U8(\hC5), U8(\hD5), U16(\hCD), U16(\hDD), U16(\hD9), U8(\hC1), U8(\hD1),
  U8(\hE0), U8(\hE4), U16(\hEC), U8(\hC0), U8(\hC4), U16(\hCC)>>

Implied == <<
  Op(\h9A), Op(\hBA), Op(\h48), Op(\h68), Op(\h08), Op(\h28), Op(\h78), Op(\h58),
  Op(\hEA), Op(\h98), Op(\hA8), Op(\h8A), Op(\hAA), Op(\h18), Op(\h38), Op(\h60)>>

Jumps == <<
  U16(\h20), U16(\h4C), I8(\hF0), I8(\hD0), I8(\h90), I8(\hB0), I8(\h10), I8(\h30),
  I8(\h50), I8(\h70)>>

Counts == <<
  Op(\hE8), Op(\hCA), Op(\hC8), Op(\h88), U8(\hE6), U8(\hF6), U16(\hEE), U16(\hFE),
  U8(\hC6), U8(\hD6), U16(\hCE), U16(\hDE)>>

Shiftings == <<
  Op(\h4A), U8(\h46), U8(\h56), U16(\h4E), U16(\h5E),
  Op(\h0A), U8(\h06), U8(\h16), U16(\h0E), U16(\h1E),
  Op(\h6A), U8(\h66), U8(\h76), U16(\h6E), U16(\h7E),
  Op(\h2A), U8(\h26), U8(\h36), U16(\h2E), U16(\h3E)>>

Ops == Loads \o Stores \o Logic \o Arithmetic \o Compares \o Implied \o Jumps \o Counts \o
       Shiftings

OpRules == 23 .. 165
OpOf(rule) == Ops[rule - 22]

Instruction(op) == IF op[1] = "NONE" THEN Op0(op[2]) ELSE OpArg(op[1], op[2], V(0))

\* The operators of the rules for expressions and conditions.
Op2Of == 175 :> "PLUS" @@ 176 :> "MINUS" @@ 177 :> "MULT" @@ 178 :> "DIV" @@ 179 :> "MOD" @@
         185 :> "LOR" @@ 186 :> "LAND" @@ 189 :> "LT" @@ 190 :> "GT" @@ 191 :> "EQ" @@
         192 :> "NEQ"

ExprRules == 166 .. 193

\* An expression: the items that make it.
Expression(rule) ==
  CASE rule \in DOMAIN Op2Of          -> Apply2(Op2Of[rule], V(2), V(0))
    [] rule = 180                     -> Apply1("vNEG", V(0))
    [] rule = 187                     -> Apply1("LNOT", V(0))
    [] rule = 182                     -> Incword(V(3), V(1))
    [] rule = 183                     -> Num(V(0))
    [] rule = 184                     -> Sym(V(0))
    [] rule = 193                     -> Defined(V(1))
    [] rule \in {166, 167, 170}       -> V(0)
    [] rule \in {181, 188}            -> V(1)
    [] rule \in {168, 169, 171, 172}  -> V(2)
    [] rule \in {173, 174}            -> V(3)

\* The first expression is not counted once more follow.
Exprs_KeepsFirst(rule) ==
  IF rule = 21 THEN [n |-> V(2).n, es |-> V(2).es \o V(0)]
               ELSE [n |-> 1, es |-> V(0)]

\* A list of expressions.
Exprs(rule) ==
  IF rule = 21 THEN [n |-> V(2).n + 1, es |-> V(2).es \o V(0)]
               ELSE [n |-> 1, es |-> V(0)]

\* What yytext points to is read when the rule is reduced.
Pointee(value) == IF value = "yytext" THEN yytext ELSE value

\* The statements.
Statement(rule) ==
  CASE rule = 4  -> Label(V(1))
    [] rule = 5  -> Symbol(V(2), V(0))
    [] rule = 6  -> Decide(V(1))
    [] rule = 7  -> Org(V(1))
    [] rule = 8  -> Error
    [] rule = 10 -> IncludeNamed(V(1))
    [] rule = 11 -> MacroNamed(V(1))
    [] rule = 13 -> MacroText(Pointee(V(0)))
    [] rule = 15 -> Res(V(3), V(1))
    [] rule = 16 -> Words(V(1).n, V(1).es)
    [] rule = 17 -> Byte(V(1).n, V(1).es)
    [] rule = 18 -> Incbin(V(1), 0, <<>>)
    [] rule = 19 -> Incbin(V(3), 1, V(1))
    [] rule = 20 -> Incbin(V(5), 2, V(3) \o V(1))
    [] rule \in OpRules -> Instruction(OpOf(rule))

-----------------------------------------------------------------------------
(***************************************************************************)
(* The steps of the automaton.                                             *)
(***************************************************************************)
Shift ==
  /\ Decided
  /\ Shifts
  /\ ShiftTo # YYFINAL
  /\ yyss' = Append(yyss, ShiftTo)
  /\ yyvs' = Append(yyvs, yylval)
  /\ yychar' = IF yychar = YYEOF THEN YYEOF ELSE YYEMPTY
  /\ UNCHANGED <<program, scanVars, yylval, yyresult, items>>

Accept ==
  /\ Decided
  /\ Shifts
  /\ ShiftTo = YYFINAL
  /\ yyresult' = "accepted"
  /\ UNCHANGED <<program, scanVars, yychar, yylval, yyss, yyvs, items>>

\* Without the value of the left side.
Replace_OfStates(yyval) ==
  LET yylen == Entry(yyr2, Rule)
      below == SubSeq(yyss, 1, Len(yyss) - yylen)
  IN /\ yyss' = Append(below, GoTo(below[Len(below)], Entry(yyr1, Rule)))
     /\ yyvs' = SubSeq(yyvs, 1, Len(yyvs) - yylen)

\* The right side of the rule is replaced by its left side.
Replace(yyval) ==
  LET yylen == Entry(yyr2, Rule)
      below == SubSeq(yyss, 1, Len(yyss) - yylen)
  IN /\ yyss' = Append(below, GoTo(below[Len(below)], Entry(yyr1, Rule)))
     /\ yyvs' = Append(SubSeq(yyvs, 1, Len(yyvs) - yylen), yyval)

\* $$ = $1
Default == V(Entry(yyr2, Rule) - 1)

ParserOnly == UNCHANGED <<program, yytext, condition, yychar, yylval>>

ReduceExpression ==
  /\ Reduces(ExprRules)
  /\ Replace(Expression(Rule))
  /\ UNCHANGED <<text, push_state, yyresult, items>>
  /\ ParserOnly

ReduceExprs ==
  /\ Reduces({21, 22})
  /\ Replace(Exprs(Rule))
  /\ UNCHANGED <<text, push_state, yyresult, items>>
  /\ ParserOnly

\* Atoms are values of the grammar,
ReduceAtom ==
  /\ Reduces({15, 16, 17, 18, 19, 20} \cup OpRules)
  /\ Replace(Statement(Rule))
  /\ UNCHANGED <<text, push_state, yyresult, items>>
  /\ ParserOnly

\* and pushed to asm_atoms when they turn out to be statements.
PushAtom ==
  /\ Reduces({12})
  /\ Replace(Default)
  /\ items' = items \o V(0)
  /\ UNCHANGED <<text, push_state, yyresult>>
  /\ ParserOnly

\* Rules whose statements the scanner need not know of.
ReduceStatement ==
  /\ Reduces({4, 5, 7, 13})
  /\ Replace(Default)
  /\ items' = items \o Statement(Rule)
  /\ UNCHANGED <<text, push_state, yyresult>>
  /\ ParserOnly

\* push_if_state for a condition that is true, push_macro_state.
ReducePush ==
  /\ Reduces({6, 11})
  /\ Replace(Default)
  /\ items' = items \o Statement(Rule)
  /\ push_state' = IF Rule = 6 THEN "INITIAL" ELSE "MACROO"
  /\ UNCHANGED <<text, yyresult>>
  /\ ParserOnly

\* asm_include: the scanner continues with the named text.
ReduceInclude ==
  /\ Reduces({10})
  /\ V(1) \in DOMAIN SourceFiles
  /\ Replace(Default)
  /\ items' = items \o Statement(Rule)
  /\ text' = SourceFiles[V(1)] \o text
  /\ UNCHANGED <<push_state, yyresult>>
  /\ ParserOnly

\* asm_error, and what is included is not there.
ReduceError ==
  /\ \/ Reduces({8})
     \/ Reduces({10}) /\ V(1) \notin DOMAIN SourceFiles
  /\ items' = items \o Statement(Rule)
  /\ yyresult' = "exit"
  /\ UNCHANGED <<yyss, yyvs, text, push_state>>
  /\ ParserOnly

\* Rules that do nothing, but print.
ReduceOther ==
  /\ Reduces({2, 3, 9, 14})
  /\ Replace(Default)
  /\ UNCHANGED <<text, push_state, yyresult, items>>
  /\ ParserOnly

\* Tokens are skipped until one fits, even the last one.
SyntaxError_Skips ==
  /\ Reduces({0})
  /\ yychar' = YYEMPTY
  /\ UNCHANGED <<program, scanVars, yylval, yyss, yyvs, yyresult, items>>

\* No rule has the error token, so nothing is recovered.
SyntaxError ==
  /\ Reduces({0})
  /\ yyresult' = "aborted"
  /\ UNCHANGED <<program, scanVars, yychar, yylval, yyss, yyvs, items>>

Exhausted ==
  /\ yyresult = "none"
  /\ Len(yyss) = YYMAXDEPTH
  /\ yyresult' = "exhausted"
  /\ UNCHANGED <<program, scanVars, yychar, yylval, yyss, yyvs, items>>

Next ==
  \/ PushCondition
  \/ ScanEnd
  \/ ScanToken
  \/ ScanMacroString
  \/ ScanEof
  \/ Shift
  \/ Accept
  \/ ReduceExpression
  \/ ReduceExprs
  \/ ReduceAtom
  \/ PushAtom
  \/ ReduceStatement
  \/ ReducePush
  \/ ReduceInclude
  \/ ReduceError
  \/ ReduceOther
  \/ SyntaxError
  \/ Exhausted

Ended == yyresult # "none"

Spec == Init /\ [][Next \/ (Ended /\ UNCHANGED vars)]_vars /\ WF_vars(Next)

-----------------------------------------------------------------------------
(***************************************************************************)
(* Properties.                                                             *)
(*                                                                         *)
(* program.items is what the statements mean, program.ops the mnemonic and *)
(* the form of the argument of each instruction, and program.fate how the  *)
(* parser should end.                                                      *)
(***************************************************************************)
\* The types of the variables; the stacks have one height.
ParserTypeOK ==
  /\ text \in Seq(Lexeme)
  /\ items \in Seq(StatementItem)
  /\ condition \in Seq({"INITIAL", "MACROO"}) \ {<<>>}
  /\ push_state \in {"none", "INITIAL", "MACROO"}
  /\ yychar \in DOMAIN yytranslate \cup {YYEMPTY}
  /\ yyss \in Seq(0 .. Len(yydefact) - 1) /\ Len(yyss) \in 1 .. YYMAXDEPTH
  /\ Len(yyvs) = Len(yyss)
  /\ yyresult \in {"none", "accepted", "aborted", "exhausted", "exit"}

\* The tables do what the grammar says: statements are recognised one by one
\* and in their order, operators bind as in C, whatever token follows, and
\* what is no statement is refused.  However long the text is, the stacks
\* need only what one statement needs.
ParsesAsMeant ==
  /\ Len(items) <= Len(program.items)
  /\ \A n \in 1 .. Len(items) : items[n] = program.items[n]
  /\ Ended => yyresult = program.fate /\ Len(items) = Len(program.items)

\* When a rule changes what the scanner has to do next, no token has been
\* read behind it: the condition is pushed, the included text is read, and a
\* piece of a macro is copied, before the scanner goes on.
NothingReadAhead ==
  [][/\ items' # items
     /\ items'[Len(items')].k \in {"if", "macro", "include", "text"}
     => yychar = YYEMPTY]_vars

Instructions == SelectSeq(items, LAMBDA item : item.k = "op")

\* Two instructions have the same opcode only if they are the same.
OpcodesDistinct == Ended =>
  \A m, n \in 1 .. Len(Instructions) :
    Instructions[m].code = Instructions[n].code => program.ops[m] = program.ops[n]

Real == INSTANCE OpcodeTable
Table == INSTANCE Opcodes WITH PAGE <- 256, opcode_to_mode <- Real!opcodes_6502

\* However the text goes on, each rule finds on the value stack just the
\* expressions it takes, and no expression is left behind: the statements are
\* what module Assembler takes for granted, see Text there.
ArgumentsWait ==
  LET waiting[n \in 0 .. Len(items)] ==
        IF n = 0 THEN 0 ELSE LeftBy(items[n], waiting[n - 1])
  IN /\ \A n \in 1 .. Len(items) : FoundBy(items[n], waiting[n - 1])
     /\ waiting[Len(items)] = 0

Size == [NONE |-> 1, U8 |-> 2, U16 |-> 3, UI8 |-> 2, I8 |-> 2]

ModeOfType == [NONE |-> Table!MODEimpl, UI8 |-> Table!MODEimm, U8 |-> Table!MODEzp,
               U16 |-> Table!MODEabs, I8 |-> Table!MODErel]

\* The immediate arguments of cpy and cpx have the type of an address.
ModeOf(type, code) ==
  IF type = "U8" /\ code \in {192, 224} THEN Table!MODEimm ELSE ModeOfType[type]

\* An instruction is to the splitter what it is to the assembler.
Agrees(type, code) ==
  LET mode == Real!opcodes_6502[code]
  IN mode = ModeOf(type, code) /\ Len(Table!ArgTables(mode)) + 1 = Size[type]

\* What is assembled is split again into the same instructions: opcode_to_mode
\* of the splitter has the mode in which the assembler read the argument, and
\* takes as many bytes as the assembler puts out.
SplitsAsAssembled ==
  \A n \in 1 .. Len(items) : items[n].k = "op" => Agrees(items[n].type, items[n].code)

\* The parser comes to an end.
Parses == <>Ended
=============================================================================
