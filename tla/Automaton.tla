----------------------------- MODULE Automaton -----------------------------
(***************************************************************************)
(* What the tables of the parser mean for its stacks: which state can be   *)
(* right under which, and so what lies on the stacks where a rule reads    *)
(* them.                                                                   *)
(*                                                                         *)
(* The assumptions are about the tables alone: they have no parameter, and *)
(* are true or false once and for all.  TLC evaluates them.                *)
(***************************************************************************)
EXTENDS Parser

States == 0 .. Len(yydefact) - 1

\* What the rule of a state is, and what it consists of.
RuleOf(state) == Entry(yydefact, state)
LengthOf(state) == Entry(yyr2, RuleOf(state))
LeftOf(state) == Entry(yyr1, RuleOf(state))

MaxLength == 8

-----------------------------------------------------------------------------
(***************************************************************************)
(* What can be right under a state, as pairs of the lower and the upper    *)
(* one: first what the upper is shifted on, then what it goes on when a    *)
(* rule is reduced, until there is nothing new.                            *)
(***************************************************************************)
ShiftsIn(state) ==
  IF Entry(yypact, state) = YYPACT_NINF THEN {}
  ELSE {ShiftOn(state, token) : token \in 0 .. YYNTOKENS - 1} \ {0, YYFINAL}

Under(edges, states) == {e[1] : e \in {e \in edges : e[2] \in states}}

\* The sets of the states that can be n states under a state.
UnderIn(edges, state) ==
  LET under[n \in 0 .. MaxLength] ==
        IF n = 0 THEN {state} ELSE LET above == under[n - 1] IN Under(edges, above)
  IN under

Reduced(edges) ==
  UNION {{<<t, GoTo(t, LeftOf(s))>> : t \in UnderIn(edges, s)[LengthOf(s)]} :
           s \in {s \in States : RuleOf(s) # 0}}

\* Two rounds of reductions find all.
Rounds == 2

Round[n \in 0 .. Rounds] ==
  IF n = 0
  THEN UNION {{<<t, s>> : s \in ShiftsIn(t)} : t \in States}
  ELSE LET edges == Round[n - 1] IN edges \cup Reduced(edges)

Edges == Round[Rounds]

\* All states that can be on the stack.
Reached == {0} \cup {e[2] : e \in Edges}

Beneath == [s \in Reached |-> UnderIn(Edges, s)]

ASSUME EdgesAssumption ==
  /\ 0 \in States
  /\ Edges \subseteq States \X (States \ {0})
  /\ \A s \in Reached :
       /\ Beneath[s][0] = {s}
       /\ RuleOf(s) # 0 =>
            \A n \in 1 .. LengthOf(s) : Beneath[s][n] = Under(Edges, Beneath[s][n - 1])

\* A token that is shifted leads to a state for it.
ASSUME ShiftAssumption ==
  \A s \in Reached :
    Entry(yypact, s) # YYPACT_NINF =>
      \A token \in 0 .. YYNTOKENS - 1 :
        LET t == ShiftOn(s, token)
        IN t \notin {0, YYFINAL} => <<s, t>> \in Edges /\ Entry(yystos, t) = token

\* Where a rule is reduced the stack is higher than the rule is long, and goes
\* on with a state for its left side.
ASSUME ReduceAssumption ==
  /\ RuleOf(0) = 0
  /\ \A s \in Reached :
       RuleOf(s) # 0 =>
         /\ RuleOf(s) \in 1 .. Len(yyr1) - 1
         /\ LengthOf(s) \in 1 .. MaxLength
         /\ LeftOf(s) >= YYNTOKENS
         /\ \A n \in 0 .. LengthOf(s) - 1 : 0 \notin Beneath[s][n]
         /\ \A t \in Beneath[s][LengthOf(s)] :
              LET u == GoTo(t, LeftOf(s))
              IN <<t, u>> \in Edges /\ Entry(yystos, u) = LeftOf(s)

\* The rules that change what the scanner does next are reduced in states that
\* are entered by a token and need no other.
ASSUME AheadAssumption ==
  \A s \in Reached :
    RuleOf(s) \in {6, 10, 11, 13} =>
      Entry(yypact, s) = YYPACT_NINF /\ Entry(yystos, s) \in 1 .. YYNTOKENS - 1

-----------------------------------------------------------------------------
(***************************************************************************)
(* Values: of which kind the value of a symbol is, and which of them a     *)
(* rule reads.                                                             *)
(***************************************************************************)
KindOf(symbol) ==
  CASE symbol = yytranslate["NUMBER"] -> "number"
    [] symbol \in {yytranslate["SYMBOL"], yytranslate["STRING"]} -> "name"
    [] symbol = yytranslate["MACRO_STRING"] -> "text"
    [] symbol \in {93, 95} -> "atom"
    [] symbol = 94         -> "exprs"
    [] symbol \in 96 .. 106 -> "expr"
    [] OTHER               -> "none"

BinaryRules == {175, 176, 177, 178, 179, 185, 186, 189, 190, 191, 192}
ArgRules == {rule \in OpRules : OpOf(rule)[1] # "NONE"}

\* Rule, n and kind where the rule reads V(n).
Reads ==
       ({4, 10, 11, 18, 193} \X {1} \X {"name"})
  \cup ({184} \X {0} \X {"name"})
  \cup ({5} \X {2} \X {"name"})
  \cup ({19, 182} \X {3} \X {"name"})
  \cup ({20} \X {5} \X {"name"})
  \cup ({183} \X {0} \X {"number"})
  \cup ({13} \X {0} \X {"text"})
  \cup ({12, 14} \X {0} \X {"atom"})
  \cup ({16, 17} \X {1} \X {"exprs"})
  \cup ({21} \X {2} \X {"exprs"})
  \cup (({5, 21, 22, 166, 167, 170, 180, 187} \cup BinaryRules \cup ArgRules) \X {0} \X {"expr"})
  \cup ({6, 7, 15, 19, 20, 181, 182, 188} \X {1} \X {"expr"})
  \cup (({168, 169, 171, 172} \cup BinaryRules) \X {2} \X {"expr"})
  \cup ({15, 20, 173, 174} \X {3} \X {"expr"})

\* A rule reads only what belongs to it, and finds there what it reads.
ASSUME ReadsAssumption ==
  \A x \in Reads : \A s \in Reached :
    RuleOf(s) = x[1] =>
      /\ x[2] < LengthOf(s)
      /\ \A t \in Beneath[s][x[2]] : KindOf(Entry(yystos, t)) = x[3]

ASSUME LeftAssumption ==
  /\ \A rule \in ExprRules : KindOf(Entry(yyr1, rule)) = "expr"
  /\ \A rule \in {21, 22} : KindOf(Entry(yyr1, rule)) = "exprs"
  /\ \A rule \in 14 .. 20 \cup OpRules : KindOf(Entry(yyr1, rule)) = "atom"
  /\ \A rule \in 2 .. 13 : KindOf(Entry(yyr1, rule)) = "none"
  /\ KindOf(Entry(yystos, 0)) = "none"

\* The only value that is passed on is that of a statement of one atom.
ASSUME UnitAssumption == Entry(yyr2, 14) = 1

ASSUME OperatorAssumption ==
  /\ DOMAIN Op2Of = BinaryRules
  /\ \A rule \in BinaryRules :
       Op2Of[rule] \in {"PLUS", "MINUS", "MULT", "DIV", "MOD", "LT", "GT", "EQ", "NEQ", "LAND", "LOR"}

\* The kind of the value of a token.
TokenOf(kind) ==
  {token \in DOMAIN yytranslate : KindOf(yytranslate[token]) = kind}

ASSUME TokenAssumption ==
  /\ \A token \in DOMAIN yytranslate : yytranslate[token] \in 0 .. YYNTOKENS - 1
  /\ yytranslate[YYEOF] = 0
  /\ {YYEOF} \cup {Directive[v] : v \in DOMAIN Directive} \cup {Word[v] : v \in DOMAIN Word}
       \cup {Sign[v] : v \in DOMAIN Sign} \subseteq TokenOf("none")
  /\ {"SYMBOL", "STRING"} \subseteq TokenOf("name")
  /\ "NUMBER" \in TokenOf("number")
  /\ "MACRO_STRING" \in TokenOf("text")
  /\ {Unset, "yytext"} \cup DOMAIN Sign \subseteq STRING
=============================================================================
