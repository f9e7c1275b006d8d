--------------------------- MODULE ParserTheorems ---------------------------
(***************************************************************************)
(* What is proved of the parser, for every text and every depth of the     *)
(* stacks: the stacks hold only what the tables say can be right above     *)
(* each other, so a rule finds the values it reads, and of their kind.     *)
(***************************************************************************)
EXTENDS Automaton, SequenceTheorems, WellFoundedInduction, TLAPS

-----------------------------------------------------------------------------
(***************************************************************************)
(* Induction, from the fact that < is well-founded on the natural numbers. *)
(* Sets stand for what holds of their members.                             *)
(***************************************************************************)

\* A set of natural numbers that is not empty has a least one.
LEMMA Least ==
  ASSUME NEW T, T \subseteq Nat, T # {}
  PROVE  \E n \in T : \A m \in T : n <= m
<1>1. PICK R : /\ IsWellFoundedOn(R, Nat)
               /\ \A m \in Nat, n \in Nat : <<m, n>> \in R <=> m < n
  <2>1. \A m \in Nat, n \in Nat : <<m, n>> \in OpToRel(<, Nat) <=> m < n
    BY DEF OpToRel
  <2> QED BY <2>1, NatLessThanWellFounded
<1>2. IsWellFoundedOn(R, Nat)
  BY <1>1
<1>3. PICK n \in T : \A m \in T : ~(<<m, n>> \in R)
  BY <1>2, WFMin, Zenon
<1>4. ASSUME NEW m \in T PROVE n <= m
  <2>1. n \in Nat /\ m \in Nat /\ ~(m < n)
    BY <1>1, <1>3
  <2> QED BY ONLY <2>1
<1> QED BY <1>4

\* Induction over the natural numbers, for the set where something holds.
LEMMA Inductive ==
  ASSUME NEW S, 0 \in S, \A n \in Nat : n \in S => n + 1 \in S
  PROVE  Nat \subseteq S
<1> SUFFICES ASSUME Nat \ S # {} PROVE FALSE
  OBVIOUS
<1>1. PICK n \in Nat \ S : \A m \in Nat \ S : n <= m
  BY Least
<1>2. n - 1 \in Nat /\ n - 1 \notin S
  BY <1>1
<1> QED BY <1>1, <1>2

-----------------------------------------------------------------------------
(***************************************************************************)
(* Items, and how many expressions wait after them.                        *)
(***************************************************************************)
SoundItem == {i \in StatementItem : i.k = "op" => Agrees(i.type, i.code)}
ExprItem == {i \in StatementItem : IsExpression(i)}

\* With h[n] expressions after n items, the items find what they take.
Waits(e, h, a, b) ==
  /\ h \in [0 .. Len(e) -> Nat]
  /\ h[0] = a
  /\ h[Len(e)] = b
  /\ \A n \in 1 .. Len(e) : FoundBy(e[n], h[n - 1]) /\ h[n] = LeftBy(e[n], h[n - 1])

Leads(e, a, b) == \E h : Waits(e, h, a, b)

\* Expressions: items that make k of them.
Grows(e, k) == e \in Seq(ExprItem) /\ Leads(e, 0, k)

\* A statement: items after which no expression waits.
Whole(t) == t \in Seq(SoundItem) /\ t # <<>> /\ Leads(t, 0, 0)

LEMMA ItemTakes ==
  ASSUME NEW i \in StatementItem
  PROVE  /\ Takes(i) \in Nat
         /\ IsExpression(i) => i \in SoundItem /\ i \in ExprItem
BY DEF StatementItem, Takes, IsExpression, SoundItem, ExprItem

\* Nothing leads from a to a.
LEMMA LeadsNowhere ==
  ASSUME NEW a \in Nat
  PROVE  Leads(<<>>, a, a)
<1> DEFINE h == [n \in {0} |-> a]
<1>1. Len(<<>>) = 0 /\ 0 .. 0 = {0}
  OBVIOUS
<1>2. h \in [0 .. Len(<<>>) -> Nat] /\ h[0] = a
  BY <1>1
<1>3. \A n \in 1 .. Len(<<>>) : FALSE
  BY <1>1
<1>4. Waits(<<>>, h, a, a)
  BY <1>1, <1>2, <1>3 DEF Waits
<1> QED BY <1>4 DEF Leads

\* What leads from a to b, and on from b to c, leads from a to c.
LEMMA LeadsOn ==
  ASSUME NEW D, NEW e \in Seq(D), NEW f \in Seq(D), NEW a, NEW b, NEW c,
         Leads(e, a, b), Leads(f, b, c)
  PROVE  Leads(e \o f, a, c)
<1>1. PICK g : Waits(e, g, a, b)
  BY DEF Leads
<1>2. PICK h : Waits(f, h, b, c)
  BY DEF Leads
<1> DEFINE m == Len(e)
           l == Len(f)
           j == [n \in 0 .. m + l |-> IF n <= m THEN g[n] ELSE h[n - m]]
<1>3. /\ m \in Nat /\ l \in Nat /\ Len(e \o f) = m + l
      /\ \A n \in 1 .. m : (e \o f)[n] = e[n]
      /\ \A n \in 1 .. l : (e \o f)[n + m] = f[n]
  OBVIOUS
<1>4. /\ g \in [0 .. m -> Nat] /\ g[0] = a /\ g[m] = b
      /\ \A n \in 1 .. m : FoundBy(e[n], g[n - 1]) /\ g[n] = LeftBy(e[n], g[n - 1])
  BY <1>1 DEF Waits
<1>5. /\ h \in [0 .. l -> Nat] /\ h[0] = b /\ h[l] = c
      /\ \A n \in 1 .. l : FoundBy(f[n], h[n - 1]) /\ h[n] = LeftBy(f[n], h[n - 1])
  BY <1>2 DEF Waits
<1> HIDE DEF m, l
<1>6. j \in [0 .. m + l -> Nat]
  <2> SUFFICES ASSUME NEW n \in 0 .. m + l
               PROVE  (IF n <= m THEN g[n] ELSE h[n - m]) \in Nat
    OBVIOUS
  <2> QED BY <1>3, <1>4, <1>5
<1>7. /\ \A n \in 0 .. m : j[n] = g[n]
      /\ \A n \in 0 .. l : j[n + m] = h[n]
  <2>1. \A n \in 0 .. m : j[n] = g[n]
    BY <1>3
  <2>2. ASSUME NEW n \in 0 .. l PROVE j[n + m] = h[n]
    <3>1. n + m \in 0 .. m + l /\ (n + m) - m = n /\ (n + m <= m => n = 0)
      BY <1>3
    <3>2. CASE n = 0
      BY <3>1, <3>2, <1>3, <1>4, <1>5
    <3>3. CASE n # 0
      BY <3>1, <3>3
    <3> QED BY <3>2, <3>3
  <2> QED BY <2>1, <2>2
<1> HIDE DEF j
<1>8. j[0] = a /\ j[m + l] = c
  BY <1>3, <1>4, <1>5, <1>7
<1>9. ASSUME NEW n \in 1 .. m + l
      PROVE  FoundBy((e \o f)[n], j[n - 1]) /\ j[n] = LeftBy((e \o f)[n], j[n - 1])
  <2>1. CASE n <= m
    <3>1. n \in 1 .. m /\ n \in 0 .. m /\ n - 1 \in 0 .. m
      BY <2>1, <1>3
    <3> QED BY <3>1, <1>3, <1>4, <1>7
  <2>2. CASE ~(n <= m)
    <3>1. PICK k \in 1 .. l : n = k + m
      <4>1. n - m \in 1 .. l /\ n = (n - m) + m
        BY <2>2, <1>3
      <4> QED BY <4>1
    <3>2. k \in 0 .. l /\ k - 1 \in 0 .. l /\ n - 1 = (k - 1) + m
      BY <3>1, <1>3
    <3>3. j[n] = h[k] /\ j[n - 1] = h[k - 1] /\ (e \o f)[n] = f[k]
      BY <3>1, <3>2, <1>3, <1>7
    <3> QED BY <3>3, <1>5
  <2> QED BY <2>1, <2>2
<1>10. Waits(e \o f, j, a, c)
  BY <1>3, <1>6, <1>8, <1>9 DEF Waits
<1> QED BY <1>10 DEF Leads

\* Expressions take no more than they find when more wait below.
LEMMA LeadsAbove ==
  ASSUME NEW e \in Seq(ExprItem), NEW a \in Nat, NEW b \in Nat, NEW k \in Nat, Leads(e, a, b)
  PROVE  Leads(e, a + k, b + k)
<1>1. PICK h : Waits(e, h, a, b)
  BY DEF Leads
<1> DEFINE m == Len(e)
           j == [n \in 0 .. m |-> h[n] + k]
<1>2. m \in Nat /\ \A n \in 1 .. m : e[n] \in ExprItem
  OBVIOUS
<1>3. /\ h \in [0 .. m -> Nat] /\ h[0] = a /\ h[m] = b
      /\ \A n \in 1 .. m : FoundBy(e[n], h[n - 1]) /\ h[n] = LeftBy(e[n], h[n - 1])
  BY <1>1 DEF Waits
<1> HIDE DEF m
<1>4. j \in [0 .. m -> Nat] /\ j[0] = a + k /\ j[m] = b + k
  BY <1>2, <1>3
<1>5. ASSUME NEW n \in 1 .. m
      PROVE  FoundBy(e[n], j[n - 1]) /\ j[n] = LeftBy(e[n], j[n - 1])
  <2>1. IsExpression(e[n]) /\ Takes(e[n]) \in Nat
    BY <1>2, ItemTakes DEF ExprItem
  <2>2. n \in 0 .. m /\ n - 1 \in 0 .. m
    BY <1>2
  <2>3. h[n] \in Nat /\ h[n - 1] \in Nat /\ j[n] = h[n] + k /\ j[n - 1] = h[n - 1] + k
    BY <2>2, <1>3
  <2>4. Takes(e[n]) <= h[n - 1] /\ h[n] = h[n - 1] - Takes(e[n]) + 1
    BY <2>1, <1>3 DEF FoundBy, LeftBy
  <2> HIDE DEF j
  <2>5. Takes(e[n]) <= j[n - 1] /\ j[n] = j[n - 1] - Takes(e[n]) + 1
    BY ONLY <2>1, <2>3, <2>4, k \in Nat
  <2> QED BY <2>1, <2>5 DEF FoundBy, LeftBy
<1>6. Waits(e, j, a + k, b + k)
  BY <1>4, <1>5 DEF Waits, m
<1> QED BY <1>6 DEF Leads

\* One item.
LEMMA LeadsOne ==
  ASSUME NEW i, NEW a \in Nat, NEW b \in Nat, FoundBy(i, a), b = LeftBy(i, a)
  PROVE  Leads(<<i>>, a, b)
<1> DEFINE h == [n \in 0 .. 1 |-> IF n = 0 THEN a ELSE b]
<1>1. Len(<<i>>) = 1 /\ <<i>>[1] = i
  OBVIOUS
<1>2. h \in [0 .. 1 -> Nat] /\ h[0] = a /\ h[1] = b
  OBVIOUS
<1>3. \A n \in 1 .. 1 : n = 1 /\ n - 1 = 0
  OBVIOUS
<1> HIDE DEF h
<1>4. \A n \in 1 .. Len(<<i>>) : FoundBy(<<i>>[n], h[n - 1]) /\ h[n] = LeftBy(<<i>>[n], h[n - 1])
  BY <1>1, <1>2, <1>3
<1>5. Waits(<<i>>, h, a, b)
  BY <1>1, <1>2, <1>4 DEF Waits
<1> QED BY <1>5 DEF Leads

\* Expressions behind expressions,
LEMMA Joined ==
  ASSUME NEW e, NEW f, NEW k \in Nat, NEW l \in Nat, Grows(e, k), Grows(f, l)
  PROVE  Grows(e \o f, k + l)
<1>1. e \in Seq(ExprItem) /\ f \in Seq(ExprItem) /\ Leads(e, 0, k) /\ Leads(f, 0, l)
  BY DEF Grows
<1>2. Leads(f, k, k + l)
  <2>1. Leads(f, 0 + k, l + k)
    BY <1>1, LeadsAbove, 0 \in Nat
  <2>2. 0 + k = k /\ l + k = k + l
    OBVIOUS
  <2> QED BY <2>1, <2>2
<1>3. Leads(e \o f, 0, k + l)
  BY <1>1, <1>2, LeadsOn
<1>4. e \o f \in Seq(ExprItem)
  BY <1>1
<1> QED BY <1>3, <1>4 DEF Grows

\* an operation on the last of them,
LEMMA Applied ==
  ASSUME NEW e, NEW k \in Nat, NEW i \in StatementItem, Grows(e, k), IsExpression(i), Takes(i) <= k
  PROVE  Grows(e \o <<i>>, k - Takes(i) + 1)
<1>1. e \in Seq(ExprItem) /\ Leads(e, 0, k) /\ i \in ExprItem /\ Takes(i) \in Nat
  BY ItemTakes DEF Grows
<1>2. k - Takes(i) + 1 \in Nat
  BY <1>1
<1>3. Leads(<<i>>, k, k - Takes(i) + 1)
  BY <1>1, <1>2, LeadsOne DEF FoundBy, LeftBy
<1>4. <<i>> \in Seq(ExprItem) /\ e \o <<i>> \in Seq(ExprItem)
  BY <1>1
<1>5. Leads(e \o <<i>>, 0, k - Takes(i) + 1)
  BY <1>1, <1>3, <1>4, LeadsOn
<1> QED BY <1>4, <1>5 DEF Grows

\* and a statement with them.
LEMMA Concluded ==
  ASSUME NEW e, NEW k \in Nat, NEW i \in SoundItem, Grows(e, k), ~IsExpression(i), Takes(i) = k
  PROVE  Whole(e \o <<i>>) /\ (e \o <<i>>)[Len(e \o <<i>>)] = i
<1>1. e \in Seq(ExprItem) /\ Leads(e, 0, k)
  BY DEF Grows
<1>2. ExprItem \subseteq SoundItem
  BY ItemTakes DEF ExprItem
<1>3. e \in Seq(SoundItem) /\ <<i>> \in Seq(SoundItem)
  BY <1>1, <1>2
<1>4. Leads(<<i>>, k, 0)
  BY LeadsOne, 0 \in Nat DEF FoundBy, LeftBy
<1>5. Leads(e \o <<i>>, 0, 0)
  BY <1>1, <1>3, <1>4, LeadsOn
<1>6. e \o <<i>> \in Seq(SoundItem) /\ Len(e \o <<i>>) = Len(e) + 1
      /\ (e \o <<i>>)[Len(e) + 1] = i
  BY <1>3
<1> QED BY <1>5, <1>6 DEF Whole

LEMMA NoExpressions == Grows(<<>>, 0)
BY LeadsNowhere, 0 \in Nat DEF Grows

\* A statement of one item, which takes no expression.
LEMMA Alone ==
  ASSUME NEW i \in SoundItem, ~IsExpression(i), Takes(i) = 0
  PROVE  Whole(<<i>>) /\ <<i>>[Len(<<i>>)] = i
<1>1. <<>> \o <<i>> = <<i>>
  OBVIOUS
<1> QED BY <1>1, NoExpressions, Concluded, 0 \in Nat

\* Statements behind statements.
LEMMA Continued ==
  ASSUME NEW s \in Seq(SoundItem), NEW t, Leads(s, 0, 0), Whole(t)
  PROVE  /\ s \o t \in Seq(SoundItem) /\ Leads(s \o t, 0, 0)
         /\ (s \o t)[Len(s \o t)] = t[Len(t)]
<1>1. t \in Seq(SoundItem) /\ t # <<>> /\ Leads(t, 0, 0)
  BY DEF Whole
<1>2. Leads(s \o t, 0, 0)
  BY <1>1, LeadsOn
<1> QED BY <1>1, <1>2

-----------------------------------------------------------------------------
(***************************************************************************)
(* What the operators of Statements make.                                  *)
(***************************************************************************)
UnaryOp == {"vNEG", "LNOT"}
BinaryOp ==
  {"PLUS", "MINUS", "MULT", "DIV", "MOD", "LT", "GT", "EQ", "NEQ", "LAND", "LOR"}

LEMMA OperandGrows ==
  ASSUME NEW i \in StatementItem, IsExpression(i), Takes(i) = 0
  PROVE  Grows(<<i>>, 1)
<1>1. <<>> \o <<i>> = <<i>> /\ 0 - 0 + 1 = 1 /\ 0 <= 0
  OBVIOUS
<1>2. Grows(<<>> \o <<i>>, 0 - 0 + 1)
  BY <1>1, NoExpressions, Applied, 0 \in Nat
<1> QED BY <1>1, <1>2

LEMMA OperandsGrow ==
  /\ \A n \in Int : Grows(Num(n), 1)
  /\ \A s \in STRING : Grows(Sym(s), 1) /\ Grows(Defined(s), 1)
<1>1. ASSUME NEW n \in Int PROVE Grows(Num(n), 1)
  <2> DEFINE i == [k |-> "number", n |-> n]
  <2>1. i \in StatementItem /\ IsExpression(i) /\ Takes(i) = 0
    BY DEF StatementItem, IsExpression, Takes
  <2> QED BY <2>1, OperandGrows DEF Num
<1>2. ASSUME NEW s \in STRING, NEW k \in {"symref", "defined"}
      PROVE  Grows(<<[k |-> k, name |-> s]>>, 1)
  <2> DEFINE i == [k |-> k, name |-> s]
  <2>1. i \in StatementItem /\ IsExpression(i) /\ Takes(i) = 0
    BY DEF StatementItem, IsExpression, Takes
  <2> QED BY <2>1, OperandGrows
<1> QED BY <1>1, <1>2 DEF Sym, Defined

LEMMA OperationsGrow ==
  ASSUME NEW e, Grows(e, 1)
  PROVE  /\ \A op \in UnaryOp : Grows(Apply1(op, e), 1)
         /\ \A s \in STRING : Grows(Incword(s, e), 1)
         /\ \A op \in BinaryOp : \A f : Grows(f, 1) => Grows(Apply2(op, e, f), 1)
<1>1. ASSUME NEW op \in UnaryOp PROVE Grows(Apply1(op, e), 1)
  <2> DEFINE i == [k |-> "op1", op |-> op]
  <2>1. i \in StatementItem /\ IsExpression(i) /\ Takes(i) = 1
    BY DEF StatementItem, IsExpression, Takes, UnaryOp
  <2>2. Grows(e \o <<i>>, 1 - 1 + 1)
    BY <2>1, Applied, 1 \in Nat, 1 <= 1
  <2>3. 1 - 1 + 1 = 1
    OBVIOUS
  <2> QED BY <2>2, <2>3 DEF Apply1
<1>2. ASSUME NEW s \in STRING PROVE Grows(Incword(s, e), 1)
  <2> DEFINE i == [k |-> "incword", name |-> s]
  <2>1. i \in StatementItem /\ IsExpression(i) /\ Takes(i) = 1
    BY DEF StatementItem, IsExpression, Takes
  <2>2. Grows(e \o <<i>>, 1 - 1 + 1)
    BY <2>1, Applied, 1 \in Nat, 1 <= 1
  <2>3. 1 - 1 + 1 = 1
    OBVIOUS
  <2> QED BY <2>2, <2>3 DEF Incword
<1>3. ASSUME NEW op \in BinaryOp, NEW f, Grows(f, 1) PROVE Grows(Apply2(op, e, f), 1)
  <2> DEFINE i == [k |-> "op2", op |-> op]
  <2>1. i \in StatementItem /\ IsExpression(i) /\ Takes(i) = 2
    BY DEF StatementItem, IsExpression, Takes, BinaryOp
  <2>2. Grows(e \o f, 1 + 1)
    BY <1>3, Joined, 1 \in Nat
  <2>3. 1 + 1 = 2 /\ 2 - 2 + 1 = 1 /\ 2 <= 2 /\ 2 \in Nat
    OBVIOUS
  <2>4. Grows((e \o f) \o <<i>>, 2 - 2 + 1)
    BY <2>1, <2>2, <2>3, Applied
  <2> QED BY <2>3, <2>4 DEF Apply2
<1> QED BY <1>1, <1>2, <1>3

\* What is known of a statement with the item i last.
Says(t, i) == Whole(t) /\ t[Len(t)] = i

\* Statements without expressions.
LEMMA PlainStatements ==
  /\ \A s \in STRING : /\ Says(Label(s), [k |-> "label", name |-> s])
                       /\ Says(IncludeNamed(s), [k |-> "include", name |-> s])
                       /\ Says(MacroNamed(s), [k |-> "macro", name |-> s])
                       /\ Says(Incbin(s, 0, <<>>), [k |-> "incbin", name |-> s, args |-> 0])
  /\ \A v \in STRING \cup Int : Says(MacroText(v), [k |-> "text", text |-> v])
  /\ Says(Error, [k |-> "error"])
<1>1. ASSUME NEW s \in STRING, NEW k \in {"label", "include", "macro"}
      PROVE  Says(<<[k |-> k, name |-> s]>>, [k |-> k, name |-> s])
  <2> DEFINE i == [k |-> k, name |-> s]
  <2>1. i \in SoundItem /\ ~IsExpression(i) /\ Takes(i) = 0
    BY DEF SoundItem, StatementItem, IsExpression, Takes
  <2> QED BY <2>1, Alone DEF Says
<1>2. ASSUME NEW s \in STRING
      PROVE  Says(Incbin(s, 0, <<>>), [k |-> "incbin", name |-> s, args |-> 0])
  <2> DEFINE i == [k |-> "incbin", name |-> s, args |-> 0]
  <2>1. i \in SoundItem /\ ~IsExpression(i) /\ Takes(i) = 0
    BY DEF SoundItem, StatementItem, IsExpression, Takes
  <2> QED BY <2>1, NoExpressions, Concluded, 0 \in Nat DEF Says, Incbin
<1>3. ASSUME NEW v \in STRING \cup Int PROVE Says(MacroText(v), [k |-> "text", text |-> v])
  <2> DEFINE i == [k |-> "text", text |-> v]
  <2>1. i \in SoundItem /\ ~IsExpression(i) /\ Takes(i) = 0
    BY DEF SoundItem, StatementItem, IsExpression, Takes
  <2> QED BY <2>1, Alone DEF Says, MacroText
<1>4. Says(Error, [k |-> "error"])
  <2> DEFINE i == [k |-> "error"]
  <2>1. i \in SoundItem /\ ~IsExpression(i) /\ Takes(i) = 0
    BY DEF SoundItem, StatementItem, IsExpression, Takes
  <2> QED BY <2>1, Alone DEF Says, Error
<1> QED BY <1>1, <1>2, <1>3, <1>4 DEF Label, IncludeNamed, MacroNamed

\* Statements with one expression,
LEMMA UnaryStatements ==
  ASSUME NEW e, Grows(e, 1)
  PROVE  /\ Says(Org(e), [k |-> "org"])
         /\ Says(Decide(e), [k |-> "if"])
         /\ \A s \in STRING : /\ Says(Symbol(s, e), [k |-> "symbol", name |-> s])
                              /\ Says(Incbin(s, 1, e), [k |-> "incbin", name |-> s, args |-> 1])
<1>1. ASSUME NEW k \in {"org", "if"} PROVE Says(e \o <<[k |-> k]>>, [k |-> k])
  <2> DEFINE i == [k |-> k]
  <2>1. i \in SoundItem /\ ~IsExpression(i) /\ Takes(i) = 1
    BY DEF SoundItem, StatementItem, IsExpression, Takes
  <2> QED BY <2>1, Concluded, 1 \in Nat DEF Says
<1>2. ASSUME NEW s \in STRING PROVE Says(Symbol(s, e), [k |-> "symbol", name |-> s])
  <2> DEFINE i == [k |-> "symbol", name |-> s]
  <2>1. i \in SoundItem /\ ~IsExpression(i) /\ Takes(i) = 1
    BY DEF SoundItem, StatementItem, IsExpression, Takes
  <2> QED BY <2>1, Concluded, 1 \in Nat DEF Says, Symbol
<1>3. ASSUME NEW s \in STRING
      PROVE  Says(Incbin(s, 1, e), [k |-> "incbin", name |-> s, args |-> 1])
  <2> DEFINE i == [k |-> "incbin", name |-> s, args |-> 1]
  <2>1. i \in SoundItem /\ ~IsExpression(i) /\ Takes(i) = 1
    BY DEF SoundItem, StatementItem, IsExpression, Takes
  <2> QED BY <2>1, Concluded, 1 \in Nat DEF Says, Incbin
<1> QED BY <1>1, <1>2, <1>3 DEF Org, Decide

\* with two,
LEMMA BinaryStatements ==
  ASSUME NEW e, NEW f, Grows(e, 1), Grows(f, 1)
  PROVE  /\ Says(Res(e, f), [k |-> "res"])
         /\ \A s \in STRING :
              Says(Incbin(s, 2, e \o f), [k |-> "incbin", name |-> s, args |-> 2])
<1>1. Grows(e \o f, 2) /\ 2 \in Nat
  <2>1. Grows(e \o f, 1 + 1) /\ 1 + 1 = 2
    BY Joined, 1 \in Nat
  <2> QED BY <2>1
<1>2. Says(Res(e, f), [k |-> "res"])
  <2> DEFINE i == [k |-> "res"]
  <2>1. i \in SoundItem /\ ~IsExpression(i) /\ Takes(i) = 2
    BY DEF SoundItem, StatementItem, IsExpression, Takes
  <2> QED BY <2>1, <1>1, Concluded DEF Says, Res
<1>3. ASSUME NEW s \in STRING
      PROVE  Says(Incbin(s, 2, e \o f), [k |-> "incbin", name |-> s, args |-> 2])
  <2> DEFINE i == [k |-> "incbin", name |-> s, args |-> 2]
  <2>1. i \in SoundItem /\ ~IsExpression(i) /\ Takes(i) = 2
    BY DEF SoundItem, StatementItem, IsExpression, Takes
  <2> QED BY <2>1, <1>1, Concluded DEF Says, Incbin
<1> QED BY <1>2, <1>3

\* and with a list of them.
LEMMA ListStatements ==
  ASSUME NEW e, NEW n \in Nat \ {0}, Grows(e, n)
  PROVE  /\ Says(Byte(n, e), [k |-> "byte", n |-> n])
         /\ Says(Words(n, e), [k |-> "word", n |-> n])
<1>1. ASSUME NEW k \in {"byte", "word"}
      PROVE  Says(e \o <<[k |-> k, n |-> n]>>, [k |-> k, n |-> n])
  <2> DEFINE i == [k |-> k, n |-> n]
  <2>1. i \in SoundItem /\ ~IsExpression(i) /\ Takes(i) = n
    BY DEF SoundItem, StatementItem, IsExpression, Takes
  <2> QED BY <2>1, Concluded, n \in Nat DEF Says
<1> QED BY <1>1 DEF Byte, Words

-----------------------------------------------------------------------------
(***************************************************************************)
(* The instructions.                                                       *)
(***************************************************************************)
Type == {"NONE", "U8", "U16", "UI8", "I8"}
FitOp == {op \in Type \X (0 .. 255) : Agrees(op[1], op[2])}

\* The table of the splitter agrees with each rule for an instruction.
LEMMA OpsFit ==
  ASSUME NEW rule \in OpRules
  PROVE  OpOf(rule) \in FitOp
<1> DEFINE Fits(ops, n) == Len(ops) = n /\ \A i \in 1 .. n : Agrees(ops[i][1], ops[i][2])
           Typed(ops) == ops \in Seq(Type \X (0 .. 255))
<1>1. /\ Fits(Loads, 18) /\ Fits(Stores, 13) /\ Fits(Logic, 24) /\ Fits(Arithmetic, 16)
      /\ Fits(Compares, 14) /\ Fits(Implied, 16) /\ Fits(Jumps, 10) /\ Fits(Counts, 12)
      /\ Fits(Shiftings, 20)
  <2> USE DEF Agrees, ModeOf, ModeOfType, Size, Im, U8, U16, I8, Op, Real!opcodes_6502, Real!modes,
              Real!A, Real!I, Real!R, Real!Z, Real!N, Real!J, Table!ArgTables, Table!MODEabs,
              Table!MODEimm, Table!MODErel, Table!MODEzp, Table!MODEimpl
  <2>1. Fits(Loads, 18)
    BY SMTT(60) DEF Loads
  <2>2. Fits(Stores, 13)
    BY SMTT(60) DEF Stores
  <2>3. Fits(Logic, 24)
    BY SMTT(60) DEF Logic
  <2>4. Fits(Arithmetic, 16)
    BY SMTT(60) DEF Arithmetic
  <2>5. Fits(Compares, 14)
    BY SMTT(60) DEF Compares
  <2>6. Fits(Implied, 16)
    BY SMTT(60) DEF Implied
  <2>7. Fits(Jumps, 10)
    BY SMTT(60) DEF Jumps
  <2>8. Fits(Counts, 12)
    BY SMTT(60) DEF Counts
  <2>9. Fits(Shiftings, 20)
    BY SMTT(60) DEF Shiftings
  <2> HIDE DEF Fits
  <2> QED BY ONLY <2>1, <2>2, <2>3, <2>4, <2>5, <2>6, <2>7, <2>8, <2>9
<1>2. /\ Typed(Loads) /\ Typed(Stores) /\ Typed(Logic) /\ Typed(Arithmetic)
      /\ Typed(Compares) /\ Typed(Implied) /\ Typed(Jumps) /\ Typed(Counts)
      /\ Typed(Shiftings)
  <2> USE DEF Type, Im, U8, U16, I8, Op
  <2>1. Typed(Loads)
    BY SMTT(60) DEF Loads
  <2>2. Typed(Stores)
    BY SMTT(60) DEF Stores
  <2>3. Typed(Logic)
    BY SMTT(60) DEF Logic
  <2>4. Typed(Arithmetic)
    BY SMTT(60) DEF Arithmetic
  <2>5. Typed(Compares)
    BY SMTT(60) DEF Compares
  <2>6. Typed(Implied)
    BY SMTT(60) DEF Implied
  <2>7. Typed(Jumps)
    BY SMTT(60) DEF Jumps
  <2>8. Typed(Counts)
    BY SMTT(60) DEF Counts
  <2>9. Typed(Shiftings)
    BY SMTT(60) DEF Shiftings
  <2> HIDE DEF Typed
  <2> QED BY ONLY <2>1, <2>2, <2>3, <2>4, <2>5, <2>6, <2>7, <2>8, <2>9
<1> DEFINE Found(ops, n) == ops \in Seq(FitOp) /\ Len(ops) = n
<1>3. ASSUME NEW ops, NEW n \in Nat, Typed(ops), Fits(ops, n)
      PROVE  Found(ops, n)
  <2>1. \A i \in 1 .. Len(ops) : ops[i] \in FitOp
    BY <1>3 DEF FitOp
  <2> QED BY <1>3, <2>1
<1>4. /\ Found(Loads, 18) /\ Found(Stores, 13) /\ Found(Logic, 24) /\ Found(Arithmetic, 16)
      /\ Found(Compares, 14) /\ Found(Implied, 16) /\ Found(Jumps, 10) /\ Found(Counts, 12)
      /\ Found(Shiftings, 20)
  <2> HIDE DEF Typed, Fits, Found
  <2> QED BY <1>1, <1>2, <1>3
<1>5. ASSUME NEW a, NEW b, NEW m \in Nat, NEW n \in Nat, Found(a, m), Found(b, n)
      PROVE  Found(a \o b, m + n)
  BY ONLY <1>5
<1>6. Found(Ops, 143)
  <2> HIDE DEF Typed, Fits, Found
  <2>1. Found(Loads \o Stores, 18 + 13)
    BY <1>4, <1>5
  <2>2. Found(Loads \o Stores \o Logic, 31 + 24)
    BY <2>1, <1>4, <1>5, 18 + 13 = 31
  <2>3. Found(Loads \o Stores \o Logic \o Arithmetic, 55 + 16)
    BY <2>2, <1>4, <1>5, 31 + 24 = 55
  <2>4. Found(Loads \o Stores \o Logic \o Arithmetic \o Compares, 71 + 14)
    BY <2>3, <1>4, <1>5, 55 + 16 = 71
  <2>5. Found(Loads \o Stores \o Logic \o Arithmetic \o Compares \o Implied, 85 + 16)
    BY <2>4, <1>4, <1>5, 71 + 14 = 85
  <2>6. Found(Loads \o Stores \o Logic \o Arithmetic \o Compares \o Implied \o Jumps, 101 + 10)
    BY <2>5, <1>4, <1>5, 85 + 16 = 101
  <2>7. Found(Loads \o Stores \o Logic \o Arithmetic \o Compares \o Implied \o Jumps \o Counts, 111 + 12)
    BY <2>6, <1>4, <1>5, 101 + 10 = 111
  <2>8. Found(Ops, 123 + 20)
    BY <2>7, <1>4, <1>5, 111 + 12 = 123 DEF Ops
  <2> QED BY <2>8, 123 + 20 = 143
<1>7. rule - 22 \in 1 .. Len(Ops)
  <2>1. Len(Ops) = 143 /\ rule \in 23 .. 165
    BY <1>6 DEF OpRules
  <2> QED BY ONLY <2>1
<1>8. \A n \in 1 .. Len(Ops) : Ops[n] \in FitOp
  <2>1. Ops \in Seq(FitOp)
    BY <1>6
  <2> QED BY ONLY <2>1
<1>9. OpOf(rule) = Ops[rule - 22]
  BY Zenon DEF OpOf
<1> QED BY <1>7, <1>8, <1>9, Zenon

LEMMA InstructionStatement ==
  ASSUME NEW op \in FitOp, NEW e, op[1] # "NONE" => Grows(e, 1)
  PROVE  Says(IF op[1] = "NONE" THEN Op0(op[2]) ELSE OpArg(op[1], op[2], e),
              [k |-> "op", type |-> op[1], code |-> op[2]])
<1> DEFINE i == [k |-> "op", type |-> op[1], code |-> op[2]]
<1>1. op[1] \in Type /\ op[2] \in 0 .. 255 /\ Agrees(op[1], op[2])
  BY DEF FitOp
<1>2. i \in SoundItem
  <2>1. i \in StatementItem
    BY <1>1 DEF StatementItem, Type
  <2>2. i.type = op[1] /\ i.code = op[2]
    OBVIOUS
  <2> QED BY <2>1, <2>2, <1>1 DEF SoundItem
<1>3. ~IsExpression(i) /\ Takes(i) = IF op[1] = "NONE" THEN 0 ELSE 1
  BY DEF IsExpression, Takes
<1>4. CASE op[1] = "NONE"
  <2>1. Says(<<i>>, i)
    BY <1>2, <1>3, <1>4, Alone DEF Says
  <2> QED BY <2>1, <1>4 DEF Op0
<1>5. CASE op[1] # "NONE"
  <2>1. Says(e \o <<i>>, i)
    BY <1>2, <1>3, <1>5, Concluded, 1 \in Nat DEF Says
  <2> QED BY <2>1, <1>5 DEF OpArg
<1> QED BY <1>4, <1>5

-----------------------------------------------------------------------------
(***************************************************************************)
(* The invariant.                                                          *)
(***************************************************************************)
List == [n : Nat \ {0}, es : Seq(ExprItem)]

\* What the stack of values holds, uninitialised or not.
AnyValue == Int \cup STRING \cup Seq(SoundItem) \cup List

AtomKind == {"op", "byte", "word", "res", "incbin"}

IsValue(kind, v) ==
  /\ kind = "number" => v \in Int
  /\ kind = "name"   => v \in STRING
  /\ kind = "text"   => v = "yytext"
  /\ kind = "expr"   => Grows(v, 1)
  /\ kind = "exprs"  => v \in List /\ Grows(v.es, v.n)
  /\ kind = "atom"   => Whole(v) /\ v[Len(v)].k \in AtomKind

\* The stack of states starts with 0, and each other state is one that can be
\* right above the state below it.
StatesFit ==
  /\ yyss \in Seq(States) /\ Len(yyss) \in 1 .. YYMAXDEPTH
  /\ yyss[1] = 0
  /\ \A i \in 1 .. Len(yyss) - 1 : <<yyss[i], yyss[i + 1]>> \in Edges

\* Each value is of the kind its state says.
ValuesFit ==
  /\ yyvs \in Seq(AnyValue) /\ Len(yyvs) = Len(yyss)
  /\ \A i \in 1 .. Len(yyss) : IsValue(KindOf(Entry(yystos, yyss[i])), yyvs[i])

\* So is the value of the token, and rules that change what the scanner does
\* are reduced before it is read.
AheadFits ==
  /\ yychar \in DOMAIN yytranslate \cup {YYEMPTY}
  /\ yylval \in Int \cup STRING
  /\ yychar # YYEMPTY => IsValue(KindOf(yytranslate[yychar]), yylval)
  /\ Rule \in {6, 10, 11, 13} => yychar = YYEMPTY

ScannerFits ==
  /\ text \in Seq(Lexeme)
  /\ yytext \in Int \cup STRING
  /\ condition \in Seq({"INITIAL", "MACROO"}) /\ condition # <<>>
  /\ push_state \in {"none", "INITIAL", "MACROO"}

ItemsFit == items \in Seq(SoundItem) /\ Leads(items, 0, 0)

PInv ==
  /\ StatesFit
  /\ ValuesFit
  /\ AheadFits
  /\ ScannerFits
  /\ ItemsFit
  /\ yyresult \in {"none", "accepted", "aborted", "exhausted", "exit"}

-----------------------------------------------------------------------------
(***************************************************************************)
(* The stacks where a rule is reduced.                                     *)
(***************************************************************************)
LEMMA TopReached ==
  ASSUME StatesFit
  PROVE  /\ Len(yyss) \in Nat /\ yystate \in Reached /\ yystate \in States
         /\ \A i \in 1 .. Len(yyss) : yyss[i] \in States
<1>1. Len(yyss) \in Nat /\ Len(yyss) >= 1 /\ \A i \in 1 .. Len(yyss) : yyss[i] \in States
  BY DepthAssumption DEF StatesFit
<1>2. CASE Len(yyss) = 1
  BY <1>1, <1>2 DEF yystate, Reached, StatesFit
<1>3. CASE Len(yyss) # 1
  <2>1. Len(yyss) - 1 \in 1 .. Len(yyss) - 1 /\ (Len(yyss) - 1) + 1 = Len(yyss)
    BY <1>1, <1>3
  <2>2. <<yyss[Len(yyss) - 1], yyss[Len(yyss)]>> \in Edges
    BY <2>1 DEF StatesFit
  <2>3. yystate \in Reached
    BY <2>2 DEF Reached, yystate
  <2> QED BY <1>1, <2>3 DEF yystate
<1> QED BY <1>1, <1>2, <1>3

\* As deep as the rule reaches, the stack holds what can be under the state.
LEMMA StackBeneath ==
  ASSUME StatesFit, Rule # 0, NEW n \in 0 .. LengthOf(yystate), n < Len(yyss)
  PROVE  yyss[Len(yyss) - n] \in Beneath[yystate][n]
<1> DEFINE s == yystate
           l == Len(yyss)
           S == {m \in Nat : m <= LengthOf(s) /\ m < l => yyss[l - m] \in Beneath[s][m]}
<1>1. s \in Reached /\ l \in Nat /\ RuleOf(s) # 0 /\ LengthOf(s) \in Nat
  <2>1. s \in Reached /\ l \in Nat /\ RuleOf(s) # 0
    BY TopReached DEF Rule, RuleOf
  <2> QED BY <2>1, ReduceAssumption
<1>2. 0 \in S
  BY <1>1, EdgesAssumption DEF yystate
<1>3. ASSUME NEW m \in Nat, m \in S PROVE m + 1 \in S
  <2> SUFFICES ASSUME m + 1 <= LengthOf(s), m + 1 < l
               PROVE  yyss[l - (m + 1)] \in Beneath[s][m + 1]
    OBVIOUS
  <2>1. /\ m <= LengthOf(s) /\ m < l /\ m + 1 \in 1 .. LengthOf(s) /\ (m + 1) - 1 = m
        /\ l - (m + 1) \in 1 .. l - 1 /\ (l - (m + 1)) + 1 = l - m
    BY <1>1
  <2>2. yyss[l - m] \in Beneath[s][m]
    BY <2>1, <1>3
  <2>3. <<yyss[l - (m + 1)], yyss[l - m]>> \in Edges
    BY <2>1 DEF StatesFit
  <2>4. Beneath[s][m + 1] = Under(Edges, Beneath[s][m])
    BY <1>1, <2>1, EdgesAssumption
  <2> DEFINE e == <<yyss[l - (m + 1)], yyss[l - m]>>
  <2>5. e \in Edges /\ e[1] = yyss[l - (m + 1)] /\ e[2] = yyss[l - m]
    BY <2>3
  <2> HIDE DEF e
  <2> QED BY <2>2, <2>4, <2>5 DEF Under
<1> HIDE DEF S
<1>4. Nat \subseteq S
  BY <1>2, <1>3, Inductive
<1>5. n \in S
  BY <1>1, <1>4
<1> QED BY <1>5 DEF S

\* The stack is higher than the rule is long.
LEMMA StackHigh ==
  ASSUME StatesFit, Rule # 0
  PROVE  /\ LengthOf(yystate) \in 1 .. MaxLength
         /\ LengthOf(yystate) < Len(yyss)
<1>1. /\ yystate \in Reached /\ Len(yyss) \in Nat /\ Len(yyss) >= 1
      /\ RuleOf(yystate) # 0
  BY TopReached DEF Rule, RuleOf, StatesFit
<1>2. /\ LengthOf(yystate) \in 1 .. MaxLength
      /\ \A n \in 0 .. LengthOf(yystate) - 1 : 0 \notin Beneath[yystate][n]
  BY <1>1, ReduceAssumption
<1>3. ASSUME Len(yyss) <= LengthOf(yystate) PROVE FALSE
  <2> DEFINE n == Len(yyss) - 1
  <2>1. /\ n \in 0 .. LengthOf(yystate) /\ n < Len(yyss)
        /\ n \in 0 .. LengthOf(yystate) - 1 /\ Len(yyss) - n = 1
    BY <1>1, <1>2, <1>3 DEF MaxLength
  <2>2. yyss[1] \in Beneath[yystate][n]
    BY <2>1, StackBeneath
  <2> QED BY <2>1, <2>2, <1>2 DEF StatesFit
<1> QED BY <1>1, <1>2, <1>3 DEF MaxLength

-----------------------------------------------------------------------------
(***************************************************************************)
(* What a rule reads, and what it leaves.                                  *)
(***************************************************************************)
\* A rule finds what it reads.
LEMMA Operand ==
  ASSUME StatesFit, ValuesFit, NEW n \in Nat, NEW kind, <<Rule, n, kind>> \in Reads, Rule # 0
  PROVE  IsValue(kind, V(n))
<1> DEFINE x == <<Rule, n, kind>>
           t == yyss[Len(yyss) - n]
<1>1. x[1] = Rule /\ x[2] = n /\ x[3] = kind
  OBVIOUS
<1>2. /\ yystate \in Reached /\ Len(yyss) \in Nat /\ RuleOf(yystate) = Rule
      /\ LengthOf(yystate) \in Nat /\ LengthOf(yystate) < Len(yyss)
  BY TopReached, StackHigh DEF Rule, RuleOf, MaxLength
<1>3. n < LengthOf(yystate) /\ \A u \in Beneath[yystate][n] : KindOf(Entry(yystos, u)) = kind
  BY <1>1, <1>2, ReadsAssumption
<1>4. n \in 0 .. LengthOf(yystate) /\ n < Len(yyss) /\ Len(yyss) - n \in 1 .. Len(yyss)
  BY <1>2, <1>3
<1>5. KindOf(Entry(yystos, t)) = kind
  BY <1>3, <1>4, StackBeneath
<1>6. IsValue(KindOf(Entry(yystos, t)), yyvs[Len(yyss) - n])
  BY <1>4 DEF ValuesFit
<1> QED BY <1>5, <1>6 DEF V, ValuesFit

\* The value of $1, for the rules that do not set a value.
LEMMA DefaultValue ==
  ASSUME StatesFit, ValuesFit, Rule # 0
  PROVE  Default \in AnyValue
<1>1. /\ LengthOf(yystate) \in 1 .. MaxLength /\ LengthOf(yystate) < Len(yyss)
      /\ LengthOf(yystate) = Entry(yyr2, Rule) /\ Len(yyss) \in Nat
  BY StackHigh, TopReached DEF LengthOf, Rule, RuleOf
<1>2. Len(yyvs) - (Entry(yyr2, Rule) - 1) \in 1 .. Len(yyvs)
  BY <1>1 DEF ValuesFit, MaxLength
<1> QED BY <1>2 DEF Default, V, ValuesFit

\* After a reduction the stacks still fit, and the state on top is one for the
\* left side of the rule.
LEMMA ReplaceFits ==
  ASSUME StatesFit, ValuesFit, Rule # 0,
         NEW yyval \in AnyValue, IsValue(KindOf(Entry(yyr1, Rule)), yyval), Replace(yyval)
  PROVE  StatesFit' /\ ValuesFit' /\ Rule' \notin {6, 10, 11, 13}
<1> DEFINE len == Entry(yyr2, Rule)
           l == Len(yyss)
           m == l - len
           t == yyss[m]
           u == GoTo(t, Entry(yyr1, Rule))
<1>1. /\ yystate \in Reached /\ RuleOf(yystate) = Rule /\ LengthOf(yystate) = len
      /\ LeftOf(yystate) = Entry(yyr1, Rule) /\ l \in Nat
  BY TopReached DEF Rule, RuleOf, LengthOf, LeftOf
<1>2. len \in 1 .. MaxLength /\ len < l
  BY <1>1, StackHigh
<1>3. len \in Nat /\ m \in Nat /\ m >= 1 /\ m + 1 <= l /\ l - len = m /\ len \in 0 .. LengthOf(yystate)
  BY <1>1, <1>2 DEF MaxLength
<1>4. t \in Beneath[yystate][LengthOf(yystate)]
  BY <1>1, <1>2, <1>3, StackBeneath
<1>5. <<t, u>> \in Edges /\ Entry(yystos, u) = Entry(yyr1, Rule)
  BY <1>1, <1>4, ReduceAssumption
<1>6. u \in States /\ u \in Reached
  <2>1. <<t, u>> \in States \X (States \ {0})
    BY <1>5, EdgesAssumption
  <2> QED BY <2>1, <1>5 DEF Reached
<1> DEFINE below == SubSeq(yyss, 1, m)
           vals == SubSeq(yyvs, 1, m)
<1>7. /\ below \in Seq(States) /\ Len(below) = m
      /\ \A i \in 1 .. m : below[i] = yyss[i]
  BY <1>1, <1>3 DEF StatesFit
<1>8. /\ vals \in Seq(AnyValue) /\ Len(vals) = m
      /\ \A i \in 1 .. m : vals[i] = yyvs[i]
  BY <1>1, <1>3 DEF ValuesFit
<1>9. yyss' = Append(below, u) /\ yyvs' = Append(vals, yyval)
  <2>1. Len(yyvs) - len = m /\ below[Len(below)] = t
    BY <1>3, <1>7 DEF ValuesFit
  <2> QED BY <2>1, <1>7 DEF Replace
<1> HIDE DEF len, l, m, t, u, below, vals
<1>10. /\ yyss' \in Seq(States) /\ Len(yyss') = m + 1
       /\ yyss'[m + 1] = u /\ \A i \in 1 .. m : yyss'[i] = yyss[i]
  BY <1>3, <1>6, <1>7, <1>9
<1>11. /\ yyvs' \in Seq(AnyValue) /\ Len(yyvs') = m + 1
       /\ yyvs'[m + 1] = yyval /\ \A i \in 1 .. m : yyvs'[i] = yyvs[i]
  BY <1>3, <1>8, <1>9
<1>12. StatesFit'
  <2>1. Len(yyss') \in 1 .. YYMAXDEPTH
    BY <1>1, <1>3, <1>10, DepthAssumption DEF StatesFit, l
  <2>2. yyss'[1] = 0
    BY <1>3, <1>10 DEF StatesFit
  <2>3. ASSUME NEW i \in 1 .. m PROVE <<yyss'[i], yyss'[i + 1]>> \in Edges
    <3>1. CASE i = m
      BY <3>1, <1>3, <1>5, <1>10 DEF t
    <3>2. CASE i # m
      <4>1. i + 1 \in 1 .. m /\ i \in 1 .. Len(yyss) - 1
        BY <3>2, <1>3 DEF l
      <4> QED BY <4>1, <1>10 DEF StatesFit
    <3> QED BY <3>1, <3>2
  <2>4. Len(yyss') - 1 = m
    BY <1>3, <1>10
  <2> QED BY <2>1, <2>2, <2>3, <2>4, <1>10 DEF StatesFit
<1>13. ValuesFit'
  <2>1. ASSUME NEW i \in 1 .. m + 1 PROVE IsValue(KindOf(Entry(yystos, yyss'[i])), yyvs'[i])
    <3>1. CASE i = m + 1
      BY <3>1, <1>5, <1>10, <1>11
    <3>2. CASE i # m + 1
      <4>1. i \in 1 .. m /\ i \in 1 .. Len(yyss)
        BY <3>2, <1>3 DEF l
      <4> QED BY <4>1, <1>10, <1>11 DEF ValuesFit
    <3> QED BY <3>1, <3>2
  <2> QED BY <2>1, <1>10, <1>11 DEF ValuesFit
<1>14. Rule' \notin {6, 10, 11, 13}
  <2>1. Rule' = RuleOf(u)
    BY <1>3, <1>10 DEF Rule, yystate, RuleOf
  <2>2. Entry(yyr1, Rule) >= YYNTOKENS /\ YYNTOKENS = 90
    BY <1>1, ReduceAssumption DEF YYNTOKENS
  <2>3. Rule' \in {6, 10, 11, 13} => Entry(yystos, u) \in 1 .. YYNTOKENS - 1
    BY <2>1, <1>6, AheadAssumption
  <2>4. Entry(yyr1, Rule) \notin 1 .. YYNTOKENS - 1
    BY <2>2
  <2> QED BY <2>3, <2>4, <1>5
<1> QED BY <1>12, <1>13, <1>14

-----------------------------------------------------------------------------
(***************************************************************************)
(* The values of the rules.                                                *)
(***************************************************************************)
LEMMA ExpressionValue ==
  ASSUME StatesFit, ValuesFit, Rule \in ExprRules
  PROVE  Grows(Expression(Rule), 1)
<1>1. Rule # 0 /\ Rule \in 166 .. 193
  BY DEF ExprRules
<1>2. \A n \in Nat : \A kind : <<Rule, n, kind>> \in Reads => IsValue(kind, V(n))
  BY <1>1, Operand
<1>3. DOMAIN Op2Of = BinaryRules /\ \A rule \in BinaryRules : Op2Of[rule] \in BinaryOp
  BY OperatorAssumption DEF BinaryOp
<1>4. CASE Rule \in BinaryRules
  <2>1. <<Rule, 2, "expr">> \in Reads /\ <<Rule, 0, "expr">> \in Reads
    BY <1>4 DEF Reads
  <2>2. Grows(V(2), 1) /\ Grows(V(0), 1)
    BY <2>1, <1>2, 2 \in Nat, 0 \in Nat DEF IsValue
  <2>3. Expression(Rule) = Apply2(Op2Of[Rule], V(2), V(0))
    BY <1>3, <1>4 DEF Expression, BinaryRules
  <2> QED BY <2>2, <2>3, <1>3, <1>4, OperationsGrow
<1>5. CASE Rule \in {180, 187}
  <2>1. <<Rule, 0, "expr">> \in Reads
    BY <1>5 DEF Reads
  <2>2. Grows(V(0), 1)
    BY <2>1, <1>2, 0 \in Nat DEF IsValue
  <2>3. CASE Rule = 180
    <3>1. Expression(Rule) = Apply1("vNEG", V(0))
      BY <1>3, <2>3 DEF Expression, BinaryRules
    <3> QED BY <2>2, <3>1, OperationsGrow DEF UnaryOp
  <2>4. CASE Rule = 187
    <3>1. Expression(Rule) = Apply1("LNOT", V(0))
      BY <1>3, <2>4 DEF Expression, BinaryRules
    <3> QED BY <2>2, <3>1, OperationsGrow DEF UnaryOp
  <2> QED BY <1>5, <2>3, <2>4
<1>6. CASE Rule = 182
  <2>1. <<Rule, 3, "name">> \in Reads /\ <<Rule, 1, "expr">> \in Reads
    BY <1>6 DEF Reads
  <2>2. V(3) \in STRING /\ Grows(V(1), 1)
    BY <2>1, <1>2, 3 \in Nat, 1 \in Nat DEF IsValue
  <2>3. Expression(Rule) = Incword(V(3), V(1))
    BY <1>3, <1>6 DEF Expression, BinaryRules
  <2> QED BY <2>2, <2>3, OperationsGrow
<1>7. CASE Rule = 183
  <2>1. <<Rule, 0, "number">> \in Reads
    BY <1>7 DEF Reads
  <2>2. V(0) \in Int
    BY <2>1, <1>2, 0 \in Nat DEF IsValue
  <2>3. Expression(Rule) = Num(V(0))
    BY <1>3, <1>7 DEF Expression, BinaryRules
  <2> QED BY <2>2, <2>3, OperandsGrow
<1>8. CASE Rule \in {184, 193}
  <2>1. CASE Rule = 184
    <3>1. <<Rule, 0, "name">> \in Reads
      BY <2>1 DEF Reads
    <3>2. Expression(Rule) = Sym(V(0))
      BY <1>3, <2>1 DEF Expression, BinaryRules
    <3> QED BY <3>1, <3>2, <1>2, 0 \in Nat, OperandsGrow DEF IsValue
  <2>2. CASE Rule = 193
    <3>1. <<Rule, 1, "name">> \in Reads
      BY <2>2 DEF Reads
    <3>2. Expression(Rule) = Defined(V(1))
      BY <1>3, <2>2 DEF Expression, BinaryRules
    <3> QED BY <3>1, <3>2, <1>2, 1 \in Nat, OperandsGrow DEF IsValue
  <2> QED BY <1>8, <2>1, <2>2
<1>9. CASE Rule \in {166, 167, 170, 181, 188, 168, 169, 171, 172, 173, 174}
  <2>1. PICK n \in {0, 1, 2, 3} : <<Rule, n, "expr">> \in Reads /\ Expression(Rule) = V(n)
    BY <1>3, <1>9 DEF Reads, Expression, BinaryRules
  <2>2. Grows(V(n), 1)
    BY <2>1, <1>2 DEF IsValue
  <2> QED BY <2>1, <2>2
<1>10. Rule \in BinaryRules \cup {180, 187, 182, 183, 184, 193}
                \cup {166, 167, 170, 181, 188, 168, 169, 171, 172, 173, 174}
  BY <1>1 DEF BinaryRules
<1> QED BY <1>4, <1>5, <1>6, <1>7, <1>8, <1>9, <1>10

LEMMA ExprsValue ==
  ASSUME StatesFit, ValuesFit, Rule \in {21, 22}
  PROVE  Exprs(Rule) \in List /\ Grows(Exprs(Rule).es, Exprs(Rule).n)
<1>1. \A n \in Nat : \A kind : <<Rule, n, kind>> \in Reads => IsValue(kind, V(n))
  BY Operand
<1>2. <<Rule, 0, "expr">> \in Reads
  BY DEF Reads
<1>3. Grows(V(0), 1)
  BY <1>1, <1>2, 0 \in Nat DEF IsValue
<1>4. CASE Rule = 21
  <2>1. <<Rule, 2, "exprs">> \in Reads
    BY <1>4 DEF Reads
  <2>2. V(2) \in List /\ Grows(V(2).es, V(2).n)
    BY <2>1, <1>1, 2 \in Nat DEF IsValue
  <2>3. V(2).n \in Nat /\ V(2).n + 1 \in Nat \ {0}
    BY <2>2 DEF List
  <2>4. Grows(V(2).es \o V(0), V(2).n + 1)
    BY <2>2, <2>3, <1>3, Joined, 1 \in Nat
  <2>5. Exprs(Rule) = [n |-> V(2).n + 1, es |-> V(2).es \o V(0)]
    BY <1>4 DEF Exprs
  <2> QED BY <2>3, <2>4, <2>5 DEF List, Grows
<1>5. CASE Rule = 22
  <2>1. Exprs(Rule) = [n |-> 1, es |-> V(0)]
    BY <1>5 DEF Exprs
  <2> QED BY <2>1, <1>3 DEF List, Grows
<1> QED BY <1>4, <1>5

LEMMA AtomValue ==
  ASSUME StatesFit, ValuesFit, Rule \in 15 .. 20 \cup OpRules
  PROVE  \E i : Says(Statement(Rule), i) /\ i.k \in AtomKind
<1>1. Rule # 0 /\ Rule \in 15 .. 165
  BY DEF OpRules
<1>2. \A n \in Nat : \A kind : <<Rule, n, kind>> \in Reads => IsValue(kind, V(n))
  BY <1>1, Operand
<1>3. /\ \A n \in Nat : <<Rule, n, "name">> \in Reads => V(n) \in STRING
      /\ \A n \in Nat : <<Rule, n, "expr">> \in Reads => Grows(V(n), 1)
      /\ \A n \in Nat : <<Rule, n, "exprs">> \in Reads =>
           Grows(V(n).es, V(n).n) /\ V(n).n \in Nat \ {0}
  BY <1>2 DEF IsValue, List
<1>4. 0 \in Nat /\ 1 \in Nat /\ 3 \in Nat /\ 5 \in Nat
  OBVIOUS
<1>5. CASE Rule = 15
  <2>1. <<Rule, 3, "expr">> \in Reads /\ <<Rule, 1, "expr">> \in Reads
    BY <1>5 DEF Reads
  <2>2. Says(Res(V(3), V(1)), [k |-> "res"])
    BY <2>1, <1>3, <1>4, BinaryStatements
  <2>3. Statement(Rule) = Res(V(3), V(1))
    BY <1>5 DEF Statement, OpRules
  <2> QED BY <2>2, <2>3 DEF AtomKind
<1>6. CASE Rule \in {16, 17}
  <2>1. <<Rule, 1, "exprs">> \in Reads
    BY <1>6 DEF Reads
  <2>2. /\ Says(Byte(V(1).n, V(1).es), [k |-> "byte", n |-> V(1).n])
        /\ Says(Words(V(1).n, V(1).es), [k |-> "word", n |-> V(1).n])
    BY <2>1, <1>3, <1>4, ListStatements
  <2>3. ASSUME Rule = 16 PROVE Statement(Rule) = Words(V(1).n, V(1).es)
    BY <2>3 DEF Statement, OpRules
  <2>4. ASSUME Rule = 17 PROVE Statement(Rule) = Byte(V(1).n, V(1).es)
    BY <2>4 DEF Statement, OpRules
  <2> QED BY <2>2, <2>3, <2>4, <1>6 DEF AtomKind
<1>7. CASE Rule = 18
  <2>1. <<Rule, 1, "name">> \in Reads
    BY <1>7 DEF Reads
  <2>2. Says(Incbin(V(1), 0, <<>>), [k |-> "incbin", name |-> V(1), args |-> 0])
    BY <2>1, <1>3, <1>4, PlainStatements
  <2>3. Statement(Rule) = Incbin(V(1), 0, <<>>)
    BY <1>7 DEF Statement, OpRules
  <2> QED BY <2>2, <2>3 DEF AtomKind
<1>8. CASE Rule = 19
  <2>1. <<Rule, 3, "name">> \in Reads /\ <<Rule, 1, "expr">> \in Reads
    BY <1>8 DEF Reads
  <2>2. Says(Incbin(V(3), 1, V(1)), [k |-> "incbin", name |-> V(3), args |-> 1])
    BY <2>1, <1>3, <1>4, UnaryStatements
  <2>3. Statement(Rule) = Incbin(V(3), 1, V(1))
    BY <1>8 DEF Statement, OpRules
  <2> QED BY <2>2, <2>3 DEF AtomKind
<1>9. CASE Rule = 20
  <2>1. <<Rule, 5, "name">> \in Reads /\ <<Rule, 3, "expr">> \in Reads /\ <<Rule, 1, "expr">> \in Reads
    BY <1>9 DEF Reads
  <2>2. Says(Incbin(V(5), 2, V(3) \o V(1)), [k |-> "incbin", name |-> V(5), args |-> 2])
    BY <2>1, <1>3, <1>4, BinaryStatements
  <2>3. Statement(Rule) = Incbin(V(5), 2, V(3) \o V(1))
    BY <1>9 DEF Statement, OpRules
  <2> QED BY <2>2, <2>3 DEF AtomKind
<1>10. CASE Rule \in OpRules
  <2> DEFINE op == OpOf(Rule)
  <2>1. op \in FitOp
    BY <1>10, OpsFit
  <2>2. op[1] # "NONE" => Grows(V(0), 1)
    <3>1. op[1] # "NONE" => <<Rule, 0, "expr">> \in Reads
      BY <1>10 DEF Reads, ArgRules
    <3> QED BY <3>1, <1>3, <1>4
  <2>3. Statement(Rule) = Instruction(op)
    BY <1>10 DEF Statement, OpRules
  <2> HIDE DEF op
  <2>4. Says(Instruction(op), [k |-> "op", type |-> op[1], code |-> op[2]])
    BY <2>1, <2>2, InstructionStatement DEF Instruction
  <2> QED BY <2>3, <2>4 DEF AtomKind
<1> QED BY <1>1, <1>5, <1>6, <1>7, <1>8, <1>9, <1>10 DEF OpRules

\* What a statement says last, if the scanner has to know of it.
Told == {"if", "macro", "include", "text"}

LEMMA StatementValue ==
  ASSUME StatesFit, ValuesFit, ScannerFits, Rule \in {4, 5, 6, 7, 8, 10, 11, 13}
  PROVE  \E i : Says(Statement(Rule), i) /\ (i.k \in Told => Rule \in {6, 10, 11, 13})
<1>1. \A n \in Nat : \A kind : <<Rule, n, kind>> \in Reads => IsValue(kind, V(n))
  BY Operand
<1>2. /\ \A n \in Nat : <<Rule, n, "name">> \in Reads => V(n) \in STRING
      /\ \A n \in Nat : <<Rule, n, "expr">> \in Reads => Grows(V(n), 1)
      /\ \A n \in Nat : <<Rule, n, "text">> \in Reads => V(n) = "yytext"
  BY <1>1 DEF IsValue
<1>3. 0 \in Nat /\ 1 \in Nat /\ 2 \in Nat
  OBVIOUS
<1>4. CASE Rule \in {4, 10, 11}
  <2>1. <<Rule, 1, "name">> \in Reads
    BY <1>4 DEF Reads
  <2>2. /\ Says(Label(V(1)), [k |-> "label", name |-> V(1)])
        /\ Says(IncludeNamed(V(1)), [k |-> "include", name |-> V(1)])
        /\ Says(MacroNamed(V(1)), [k |-> "macro", name |-> V(1)])
    BY <2>1, <1>2, <1>3, PlainStatements
  <2>3. ASSUME Rule = 4 PROVE Statement(Rule) = Label(V(1))
    BY <2>3 DEF Statement, OpRules
  <2>4. ASSUME Rule = 10 PROVE Statement(Rule) = IncludeNamed(V(1))
    BY <2>4 DEF Statement, OpRules
  <2>5. ASSUME Rule = 11 PROVE Statement(Rule) = MacroNamed(V(1))
    BY <2>5 DEF Statement, OpRules
  <2> QED BY <2>2, <2>3, <2>4, <2>5, <1>4 DEF Told
<1>5. CASE Rule = 5
  <2>1. <<Rule, 2, "name">> \in Reads /\ <<Rule, 0, "expr">> \in Reads
    BY <1>5 DEF Reads
  <2>2. Says(Symbol(V(2), V(0)), [k |-> "symbol", name |-> V(2)])
    BY <2>1, <1>2, <1>3, UnaryStatements
  <2>3. Statement(Rule) = Symbol(V(2), V(0))
    BY <1>5 DEF Statement, OpRules
  <2> QED BY <2>2, <2>3 DEF Told
<1>6. CASE Rule \in {6, 7}
  <2>1. <<Rule, 1, "expr">> \in Reads
    BY <1>6 DEF Reads
  <2>2. Says(Decide(V(1)), [k |-> "if"]) /\ Says(Org(V(1)), [k |-> "org"])
    BY <2>1, <1>2, <1>3, UnaryStatements
  <2>3. ASSUME Rule = 6 PROVE Statement(Rule) = Decide(V(1))
    BY <2>3 DEF Statement, OpRules
  <2>4. ASSUME Rule = 7 PROVE Statement(Rule) = Org(V(1))
    BY <2>4 DEF Statement, OpRules
  <2> QED BY <2>2, <2>3, <2>4, <1>6 DEF Told
<1>7. CASE Rule = 8
  <2>1. Statement(Rule) = Error
    BY <1>7 DEF Statement, OpRules
  <2> QED BY <2>1, PlainStatements DEF Told
<1>8. CASE Rule = 13
  <2>1. <<Rule, 0, "text">> \in Reads
    BY <1>8 DEF Reads
  <2>2. Pointee(V(0)) = yytext
    BY <2>1, <1>2, <1>3 DEF Pointee
  <2>3. Says(MacroText(yytext), [k |-> "text", text |-> yytext])
    BY PlainStatements DEF ScannerFits
  <2>4. Statement(Rule) = MacroText(yytext)
    BY <1>8, <2>2 DEF Statement, OpRules
  <2> QED BY <2>3, <2>4, <1>8
<1> QED BY <1>4, <1>5, <1>6, <1>7, <1>8

-----------------------------------------------------------------------------
(***************************************************************************)
(* Every step keeps the invariant, and what the scanner has to know of is  *)
(* said before the scanner has gone on.                                    *)
(***************************************************************************)
SaidInTime ==
  items' # items /\ items'[Len(items')].k \in Told => yychar = YYEMPTY

\* What the scanner delivers is of the kind of its token.
LEMMA TokenValue ==
  ASSUME NEW lexeme \in Lexeme
  PROVE  /\ Token(lexeme) \in DOMAIN yytranslate
         /\ Value(lexeme) \in Int \cup STRING
         /\ IsValue(KindOf(yytranslate[Token(lexeme)]), Value(lexeme))
<1> DEFINE Good(token, v) == /\ token \in DOMAIN yytranslate
                             /\ IsValue(KindOf(yytranslate[token]), v)
<1>1. /\ \A token \in TokenOf("none") : \A v : Good(token, v)
      /\ \A token \in TokenOf("name") : \A v \in STRING : Good(token, v)
      /\ \A token \in TokenOf("number") : \A v \in Int : Good(token, v)
  BY DEF TokenOf, IsValue
<1> HIDE DEF Good
<1>2. \A v \in STRING : Good(WordToken(v), v)
  BY <1>1, TokenAssumption DEF WordToken
<1>3. CASE lexeme \in [t : {"directive"}, v : STRING \ {"else", "elif"}]
  <2>1. lexeme.t = "directive" /\ lexeme.v \in STRING /\ Value(lexeme) = lexeme.v
    BY <1>3 DEF Value
  <2>2. Token(lexeme) = IF lexeme.v \in DOMAIN Directive THEN Directive[lexeme.v]
                        ELSE WordToken(lexeme.v)
    BY <2>1 DEF Token
  <2>3. Good(Token(lexeme), lexeme.v)
    BY <2>1, <2>2, <1>1, <1>2, TokenAssumption
  <2> QED BY <2>1, <2>3 DEF Good
<1>4. CASE lexeme \in [t : {"word", "quoted"}, v : STRING]
  <2>1. lexeme.t \in {"word", "quoted"} /\ lexeme.v \in STRING /\ Value(lexeme) = lexeme.v
    BY <1>4 DEF Value
  <2>2. Token(lexeme) = IF lexeme.t = "word" THEN WordToken(lexeme.v) ELSE "STRING"
    BY <2>1 DEF Token
  <2>3. Good(Token(lexeme), lexeme.v)
    BY <2>1, <2>2, <1>1, <1>2, TokenAssumption
  <2> QED BY <2>1, <2>3 DEF Good
<1>5. CASE lexeme \in [t : {"sign"}, v : DOMAIN Sign]
  <2>1. lexeme.t = "sign" /\ lexeme.v \in DOMAIN Sign /\ Value(lexeme) = lexeme.v
    BY <1>5 DEF Value
  <2>2. Token(lexeme) = Sign[lexeme.v] /\ lexeme.v \in STRING
    BY <2>1, TokenAssumption DEF Token
  <2>3. Good(Token(lexeme), lexeme.v)
    BY <2>1, <2>2, <1>1, TokenAssumption
  <2> QED BY <2>1, <2>2, <2>3 DEF Good
<1>6. CASE lexeme \in [t : {"number"}, n : Int]
  <2>1. lexeme.t = "number" /\ Value(lexeme) = lexeme.n /\ lexeme.n \in Int
    BY <1>6 DEF Value
  <2>2. Token(lexeme) = "NUMBER"
    BY <2>1 DEF Token
  <2>3. Good(Token(lexeme), lexeme.n)
    BY <2>1, <2>2, <1>1, TokenAssumption
  <2> QED BY <2>1, <2>3 DEF Good
<1> QED BY <1>3, <1>4, <1>5, <1>6 DEF Lexeme

LEMMA Initially ==
  ASSUME Init
  PROVE  PInv
<1>1. Unset \in STRING /\ Unset \in AnyValue
  <2>1. Unset \in STRING
    BY TokenAssumption
  <2> QED BY <2>1, Zenon DEF AnyValue
<1>2. StatesFit
  <2>1. <<0>> \in Seq(States) /\ Len(<<0>>) = 1 /\ <<0>>[1] = 0
    BY EdgesAssumption
  <2>2. 1 \in 1 .. YYMAXDEPTH /\ 1 .. 1 - 1 = {}
    BY DepthAssumption
  <2> QED BY <2>1, <2>2 DEF Init, StatesFit
<1>3. ValuesFit
  <2>1. \A v \in AnyValue : <<v>> \in Seq(AnyValue) /\ Len(<<v>>) = 1
    OBVIOUS
  <2>2. \A i \in 1 .. 1 : IsValue(KindOf(Entry(yystos, <<0>>[i])), <<Unset>>[i])
    BY LeftAssumption DEF IsValue
  <2>3. Len(<<0>>) = 1
    OBVIOUS
  <2> QED BY <1>1, <2>1, <2>2, <2>3 DEF Init, ValuesFit
<1>4. AheadFits
  <2>1. Rule = RuleOf(0)
    BY DEF Init, Rule, yystate, RuleOf
  <2>2. Rule \notin {6, 10, 11, 13}
    BY <2>1, ReduceAssumption
  <2> QED BY <2>2, <1>1 DEF Init, AheadFits
<1>5. ScannerFits
  <2>1. text \in Seq(Lexeme)
    BY TextAssumption DEF Init
  <2>2. <<"INITIAL">> \in Seq({"INITIAL", "MACROO"}) /\ <<"INITIAL">> # <<>>
    OBVIOUS
  <2> QED BY <2>1, <2>2, <1>1 DEF Init, ScannerFits
<1>6. ItemsFit
  BY LeadsNowhere, 0 \in Nat DEF Init, ItemsFit
<1> QED BY <1>2, <1>3, <1>4, <1>5, <1>6 DEF Init, PInv

\* Steps of the scanner.
LEMMA ScannerStep ==
  ASSUME PInv, PushCondition \/ ScanEnd \/ ScanToken \/ ScanMacroString \/ ScanEof
  PROVE  PInv' /\ SaidInTime
<1> USE DEF PInv
<1>1. Wanted /\ UNCHANGED <<yyss, yyvs, items>>
  BY DEF PushCondition, ScanEnd, ScanToken, ScanMacroString, ScanEof, Scans, Deliver
<1>2. StatesFit' /\ ValuesFit' /\ ItemsFit' /\ SaidInTime
  BY <1>1 DEF StatesFit, ValuesFit, ItemsFit, SaidInTime
<1>3. Rule' \notin {6, 10, 11, 13}
  <2>1. yystate \in Reached /\ Rule' = RuleOf(yystate)
    BY <1>1, TopReached DEF Rule, RuleOf, yystate
  <2>2. Entry(yypact, yystate) # YYPACT_NINF
    BY <1>1 DEF Wanted, Consistent
  <2> QED BY <2>1, <2>2, AheadAssumption
<1>4. CASE PushCondition
  <2>1. condition' \in Seq({"INITIAL", "MACROO"}) /\ condition' # <<>>
    BY <1>4 DEF PushCondition, ScannerFits
  <2>2. ScannerFits' /\ AheadFits'
    BY <2>1, <1>3, <1>4 DEF PushCondition, ScannerFits, AheadFits
  <2> QED BY <2>2, <1>2, <1>4 DEF PushCondition
<1>5. ASSUME text # <<>>, text \in Seq(Lexeme)
      PROVE  Tail(text) \in Seq(Lexeme) /\ text[1] \in Lexeme
  BY <1>5
<1>6. text \in Seq(Lexeme)
  BY DEF ScannerFits
<1>7. CASE ScanEnd
  <2>1. text # <<>> /\ text' = Tail(text) /\ yytext' = Value(text[1])
    BY <1>7 DEF ScanEnd, Scans
  <2>2. text' \in Seq(Lexeme) /\ yytext' \in Int \cup STRING
    BY <2>1, <1>5, <1>6, TokenValue
  <2>3. condition' \in Seq({"INITIAL", "MACROO"}) /\ condition' # <<>>
    <3>1. CASE Len(condition) = 1
      BY <3>1, <1>7 DEF ScanEnd, ScannerFits
    <3>2. CASE Len(condition) # 1
      <4> DEFINE n == Len(condition) - 1
      <4>1. condition \in Seq({"INITIAL", "MACROO"}) /\ condition # <<>>
        BY DEF ScannerFits
      <4>2. n \in Nat /\ n >= 1 /\ n <= Len(condition)
        BY <3>2, <4>1
      <4>3. condition' = SubSeq(condition, 1, n)
        BY <3>2, <1>7 DEF ScanEnd
      <4> HIDE DEF n
      <4>4. \A i \in 1 .. n : condition[i] \in {"INITIAL", "MACROO"}
        BY <4>1, <4>2
      <4>5. condition' \in Seq({"INITIAL", "MACROO"}) /\ Len(condition') = n
        BY <4>1, <4>2, <4>3
      <4> QED BY <4>2, <4>5
    <3> QED BY <3>1, <3>2
  <2>4. ScannerFits' /\ AheadFits'
    BY <2>2, <2>3, <1>3, <1>7 DEF ScanEnd, ScannerFits, AheadFits
  <2>5. yyresult' \in {yyresult, "exit"}
    BY <1>7 DEF ScanEnd
  <2> QED BY <2>4, <2>5, <1>2
<1>8. CASE ScanToken
  <2>1. /\ text # <<>> /\ text' = Tail(text) /\ yytext' = Value(text[1])
        /\ yychar' = Token(text[1]) /\ yylval' = Value(text[1])
        /\ UNCHANGED <<condition, push_state, yyresult>>
    BY <1>8 DEF ScanToken, Scans, Deliver
  <2>2. text' \in Seq(Lexeme) /\ text[1] \in Lexeme
    BY <2>1, <1>5, <1>6
  <2>3. ScannerFits' /\ AheadFits'
    BY <2>1, <2>2, <1>3, TokenValue DEF ScannerFits, AheadFits
  <2> QED BY <2>1, <2>3, <1>2
<1>9. CASE ScanMacroString
  <2>1. /\ text # <<>> /\ text' = Tail(text) /\ yytext' = Value(text[1])
        /\ yychar' = "MACRO_STRING" /\ yylval' = "yytext"
        /\ UNCHANGED <<condition, push_state, yyresult>>
    BY <1>9 DEF ScanMacroString, Scans, Deliver
  <2>2. text' \in Seq(Lexeme) /\ yytext' \in Int \cup STRING
    BY <2>1, <1>5, <1>6, TokenValue
  <2>3. "MACRO_STRING" \in DOMAIN yytranslate /\ KindOf(yytranslate["MACRO_STRING"]) = "text"
    BY TokenAssumption DEF TokenOf
  <2>4. IsValue("text", "yytext")
    BY DEF IsValue
  <2>5. ScannerFits' /\ AheadFits'
    <3>1. yylval' \in Int \cup STRING
      BY <2>1, TokenAssumption
    <3> QED BY <2>1, <2>2, <2>3, <2>4, <3>1, <1>3 DEF ScannerFits, AheadFits
  <2> QED BY <2>1, <2>5, <1>2
<1>10. CASE ScanEof
  <2>1. yychar' = YYEOF /\ UNCHANGED <<yylval, text, yytext, condition, push_state, yyresult>>
    BY <1>10 DEF ScanEof, Deliver
  <2>2. YYEOF \in DOMAIN yytranslate /\ KindOf(yytranslate[YYEOF]) = "none"
    BY TokenAssumption DEF TokenOf
  <2>3. \A v : IsValue("none", v)
    BY DEF IsValue
  <2>4. ScannerFits' /\ AheadFits'
    BY <2>1, <2>2, <2>3, <1>3 DEF ScannerFits, AheadFits
  <2> QED BY <2>1, <2>4, <1>2
<1> QED BY <1>4, <1>7, <1>8, <1>9, <1>10

LEMMA ShiftStep ==
  ASSUME PInv, Shift
  PROVE  PInv' /\ SaidInTime
<1> USE DEF PInv
<1> DEFINE s == yystate
           t == ShiftTo
           token == yytranslate[yychar]
           l == Len(yyss)
<1>1. s \in Reached /\ l \in Nat /\ Entry(yypact, s) # YYPACT_NINF /\ yychar # YYEMPTY
  BY TopReached DEF Shift, Shifts, Decided, Consistent
<1>2. yychar \in DOMAIN yytranslate /\ token \in 0 .. YYNTOKENS - 1 /\ t = ShiftOn(s, token)
  BY <1>1, TokenAssumption DEF AheadFits, ShiftTo
<1>3. t \notin {0, YYFINAL}
  BY DEF Shift, Shifts
<1>4. <<s, t>> \in Edges /\ Entry(yystos, t) = token
  BY <1>1, <1>2, <1>3, ShiftAssumption
<1>5. t \in States /\ t \in Reached
  <2>1. <<s, t>> \in States \X (States \ {0})
    BY <1>4, EdgesAssumption
  <2> QED BY <2>1, <1>4 DEF Reached
<1>6. /\ yyss' = Append(yyss, t) /\ yyvs' = Append(yyvs, yylval) /\ l < YYMAXDEPTH
      /\ yychar' = (IF yychar = YYEOF THEN YYEOF ELSE YYEMPTY)
      /\ UNCHANGED <<text, yytext, condition, push_state, yylval, yyresult, items>>
  BY DEF Shift, Decided, Running, scanVars
<1>7. yylval \in AnyValue /\ IsValue(KindOf(token), yylval)
  <2>1. yylval \in Int \cup STRING
    BY DEF AheadFits
  <2>2. yylval \in AnyValue
    BY <2>1, Zenon DEF AnyValue
  <2> QED BY <2>2, <1>1 DEF AheadFits
<1> HIDE DEF s, t, token, l
<1>8. /\ yyss' \in Seq(States) /\ Len(yyss') = l + 1 /\ yyss'[l + 1] = t
      /\ \A i \in 1 .. l : yyss'[i] = yyss[i]
  BY <1>5, <1>6 DEF StatesFit, l
<1>9. /\ yyvs' \in Seq(AnyValue) /\ Len(yyvs') = l + 1 /\ yyvs'[l + 1] = yylval
      /\ \A i \in 1 .. l : yyvs'[i] = yyvs[i]
  BY <1>6, <1>7 DEF ValuesFit, l
<1>10. StatesFit'
  <2>1. Len(yyss') \in 1 .. YYMAXDEPTH
    BY <1>1, <1>6, <1>8, DepthAssumption
  <2>2. l >= 1 /\ yyss'[1] = 0
    BY <1>1, <1>8 DEF StatesFit, l
  <2>3. ASSUME NEW i \in 1 .. l PROVE <<yyss'[i], yyss'[i + 1]>> \in Edges
    <3>1. CASE i = l
      BY <3>1, <1>4, <1>8 DEF s, l, yystate
    <3>2. CASE i # l
      <4>1. i + 1 \in 1 .. l /\ i \in 1 .. l - 1
        BY <3>2, <1>1
      <4> QED BY <4>1, <1>8 DEF StatesFit, l
    <3> QED BY <3>1, <3>2
  <2>4. Len(yyss') - 1 = l
    BY <1>1, <1>8
  <2> QED BY <2>1, <2>2, <2>3, <2>4, <1>8 DEF StatesFit
<1>11. ValuesFit'
  <2>1. ASSUME NEW i \in 1 .. l + 1 PROVE IsValue(KindOf(Entry(yystos, yyss'[i])), yyvs'[i])
    <3>1. CASE i = l + 1
      BY <3>1, <1>4, <1>7, <1>8, <1>9
    <3>2. CASE i # l + 1
      <4>1. i \in 1 .. Len(yyss)
        BY <3>2, <1>1 DEF l
      <4> QED BY <4>1, <1>8, <1>9 DEF ValuesFit, l
    <3> QED BY <3>1, <3>2
  <2> QED BY <2>1, <1>8, <1>9 DEF ValuesFit
<1>12. AheadFits'
  <2>1. YYEOF \in DOMAIN yytranslate /\ KindOf(yytranslate[YYEOF]) = "none" /\ yytranslate[YYEOF] = 0
    BY TokenAssumption DEF TokenOf
  <2>2. Rule' = RuleOf(t)
    BY <1>1, <1>8 DEF Rule, RuleOf, yystate
  <2>3. Rule' \in {6, 10, 11, 13} => token \in 1 .. YYNTOKENS - 1
    BY <2>2, <1>4, <1>5, AheadAssumption
  <2>4. Rule' \in {6, 10, 11, 13} => yychar # YYEOF
    BY <2>1, <2>3 DEF token
  <2>5. \A v : IsValue("none", v)
    BY DEF IsValue
  <2>6. yychar' \in DOMAIN yytranslate \cup {YYEMPTY} /\ yylval' \in Int \cup STRING
    BY <2>1, <1>6 DEF AheadFits
  <2>7. yychar' # YYEMPTY => IsValue(KindOf(yytranslate[yychar]), yylval)' /\ yychar' = YYEOF
    BY <2>1, <2>5, <1>6
  <2> QED BY <2>4, <2>6, <2>7, <1>6 DEF AheadFits
<1> QED BY <1>6, <1>10, <1>11, <1>12 DEF ScannerFits, ItemsFit, SaidInTime

\* The values of expressions and statements are values.
LEMMA Values ==
  /\ \A v : \A k : Grows(v, k) => v \in AnyValue
  /\ \A v : Whole(v) => v \in AnyValue
  /\ \A v \in List : v \in AnyValue
<1>1. Seq(ExprItem) \subseteq Seq(SoundItem)
  <2>1. ExprItem \subseteq SoundItem
    BY ItemTakes DEF ExprItem
  <2> QED BY <2>1
<1>2. Seq(SoundItem) \subseteq AnyValue /\ List \subseteq AnyValue
  BY Zenon DEF AnyValue
<1> QED BY <1>1, <1>2 DEF Grows, Whole

\* A statement is said.
LEMMA Said ==
  ASSUME ItemsFit, NEW t, NEW i, Says(t, i), items' = items \o t
  PROVE  ItemsFit' /\ items'[Len(items')] = i
BY Continued DEF Says, ItemsFit

\* Steps that reduce a rule whose left side has a value.
LEMMA ValueStep ==
  ASSUME PInv, ReduceExpression \/ ReduceExprs \/ ReduceAtom \/ ReduceOther
  PROVE  PInv' /\ SaidInTime
<1> USE DEF PInv
<1>1. UNCHANGED <<text, yytext, condition, push_state, yychar, yylval, yyresult, items>>
  BY DEF ReduceExpression, ReduceExprs, ReduceAtom, ReduceOther, ParserOnly
<1>2. ASSUME StatesFit', ValuesFit', Rule' \notin {6, 10, 11, 13} PROVE PInv' /\ SaidInTime
  BY <1>1, <1>2 DEF AheadFits, ScannerFits, ItemsFit, SaidInTime
<1>3. CASE ReduceExpression
  <2> DEFINE v == Expression(Rule)
  <2>1. Rule \in ExprRules /\ Rule # 0 /\ Replace(v)
    BY <1>3 DEF ReduceExpression, Reduces, ExprRules
  <2>2. Grows(v, 1)
    BY <2>1, ExpressionValue
  <2> HIDE DEF v
  <2>3. v \in AnyValue /\ IsValue(KindOf(Entry(yyr1, Rule)), v)
    BY <2>1, <2>2, Values, LeftAssumption DEF IsValue
  <2> QED BY <2>1, <2>3, <1>2, ReplaceFits
<1>4. CASE ReduceExprs
  <2> DEFINE v == Exprs(Rule)
  <2>1. Rule \in {21, 22} /\ Rule # 0 /\ Replace(v)
    BY <1>4 DEF ReduceExprs, Reduces
  <2>2. v \in List /\ Grows(v.es, v.n)
    BY <2>1, ExprsValue
  <2> HIDE DEF v
  <2>3. v \in AnyValue /\ IsValue(KindOf(Entry(yyr1, Rule)), v)
    BY <2>1, <2>2, Values, LeftAssumption DEF IsValue
  <2> QED BY <2>1, <2>3, <1>2, ReplaceFits
<1>5. CASE ReduceAtom
  <2> DEFINE v == Statement(Rule)
  <2>1. Rule \in 15 .. 20 \cup OpRules /\ Rule # 0 /\ Replace(v)
    BY <1>5 DEF ReduceAtom, Reduces, OpRules
  <2>2. Whole(v) /\ v[Len(v)].k \in AtomKind
    BY <2>1, AtomValue DEF Says
  <2> HIDE DEF v
  <2>3. Rule \in 14 .. 20 \cup OpRules
    BY <2>1
  <2>4. v \in AnyValue /\ IsValue(KindOf(Entry(yyr1, Rule)), v)
    BY <2>2, <2>3, Values, LeftAssumption DEF IsValue
  <2> QED BY <2>1, <2>4, <1>2, ReplaceFits
<1>6. CASE ReduceOther
  <2>1. Rule \in {2, 3, 9, 14} /\ Rule # 0 /\ Replace(Default)
    BY <1>6 DEF ReduceOther, Reduces
  <2>2. IsValue(KindOf(Entry(yyr1, Rule)), Default)
    <3>1. CASE Rule = 14
      <4>1. <<Rule, 0, "atom">> \in Reads
        BY <3>1 DEF Reads
      <4>2. IsValue("atom", V(0))
        BY <2>1, <4>1, Operand, 0 \in Nat
      <4>3. Default = V(0)
        BY <3>1, UnitAssumption DEF Default
      <4> QED BY <3>1, <4>2, <4>3, LeftAssumption
    <3>2. CASE Rule # 14
      <4>1. Rule \in 2 .. 13
        BY <2>1, <3>2
      <4> QED BY <4>1, LeftAssumption DEF IsValue
    <3> QED BY <3>1, <3>2
  <2> QED BY <2>1, <2>2, <1>2, DefaultValue, ReplaceFits
<1> QED BY <1>3, <1>4, <1>5, <1>6

\* Steps that reduce a rule for a statement.
LEMMA StatementStep ==
  ASSUME PInv, PushAtom \/ ReduceStatement \/ ReducePush \/ ReduceInclude
  PROVE  PInv' /\ SaidInTime
<1> USE DEF PInv
<1>1. /\ UNCHANGED <<yytext, condition, yychar, yylval, yyresult>>
      /\ Rule \in {4, 5, 6, 7, 10, 11, 12, 13} /\ Rule # 0 /\ Replace(Default)
  BY DEF PushAtom, ReduceStatement, ReducePush, ReduceInclude, ParserOnly, Reduces
<1>2. StatesFit' /\ ValuesFit' /\ Rule' \notin {6, 10, 11, 13}
  <2>1. Rule \in 2 .. 13
    BY <1>1
  <2>2. IsValue(KindOf(Entry(yyr1, Rule)), Default)
    BY <2>1, LeftAssumption DEF IsValue
  <2> QED BY <1>1, <2>2, DefaultValue, ReplaceFits
<1>3. AheadFits'
  BY <1>1, <1>2 DEF AheadFits
<1>4. ScannerFits'
  <2>1. text' \in Seq(Lexeme)
    <3>1. CASE ReduceInclude
      <4>1. text' = SourceFiles[V(1)] \o text /\ V(1) \in DOMAIN SourceFiles
        BY <3>1 DEF ReduceInclude
      <4>2. SourceFiles[V(1)] \in Seq(Lexeme) /\ text \in Seq(Lexeme)
        BY <4>1, TextAssumption DEF ScannerFits
      <4> QED BY <4>1, <4>2
    <3>2. CASE ~ReduceInclude
      BY <3>2 DEF PushAtom, ReduceStatement, ReducePush, ScannerFits
    <3> QED BY <3>1, <3>2
  <2>2. push_state' \in {"none", "INITIAL", "MACROO"}
    BY DEF PushAtom, ReduceStatement, ReducePush, ReduceInclude, ScannerFits
  <2> QED BY <1>1, <2>1, <2>2 DEF ScannerFits
<1>5. ItemsFit' /\ SaidInTime
  <2>1. CASE PushAtom
    <3>1. Rule = 12 /\ items' = items \o V(0)
      BY <2>1 DEF PushAtom, Reduces
    <3>2. <<Rule, 0, "atom">> \in Reads
      BY <3>1 DEF Reads
    <3>3. Whole(V(0)) /\ V(0)[Len(V(0))].k \in AtomKind
      BY <1>1, <3>2, Operand, 0 \in Nat DEF IsValue
    <3>4. ItemsFit' /\ items'[Len(items')] = V(0)[Len(V(0))]
      BY <3>1, <3>3, Said DEF Says
    <3> QED BY <3>3, <3>4 DEF SaidInTime, AtomKind, Told
  <2>2. CASE ~PushAtom
    <3>1. Rule \in {4, 5, 6, 7, 8, 10, 11, 13} /\ items' = items \o Statement(Rule)
      BY <2>2 DEF ReduceStatement, ReducePush, ReduceInclude, Reduces
    <3>2. PICK i : Says(Statement(Rule), i) /\ (i.k \in Told => Rule \in {6, 10, 11, 13})
      BY <3>1, StatementValue
    <3>3. ItemsFit' /\ items'[Len(items')] = i
      BY <3>1, <3>2, Said
    <3> QED BY <3>2, <3>3 DEF SaidInTime, AheadFits
  <2> QED BY <2>1, <2>2
<1> QED BY <1>1, <1>2, <1>3, <1>4, <1>5

\* Steps that end the parser.
LEMMA EndStep ==
  ASSUME PInv, Accept \/ ReduceError \/ SyntaxError \/ Exhausted
  PROVE  PInv' /\ SaidInTime
<1> USE DEF PInv
<1>1. UNCHANGED <<text, yytext, condition, push_state, yychar, yylval, yyss, yyvs>>
  BY DEF Accept, ReduceError, SyntaxError, Exhausted, scanVars, ParserOnly
<1>2. yyresult' \in {"none", "accepted", "aborted", "exhausted", "exit"}
  BY DEF Accept, ReduceError, SyntaxError, Exhausted
<1>3. StatesFit' /\ ValuesFit' /\ AheadFits' /\ ScannerFits'
  BY <1>1 DEF StatesFit, ValuesFit, AheadFits, ScannerFits, Rule, yystate
<1>4. CASE ReduceError
  <2>1. Rule \in {4, 5, 6, 7, 8, 10, 11, 13} /\ items' = items \o Statement(Rule)
    BY <1>4 DEF ReduceError, Reduces
  <2>2. PICK i : Says(Statement(Rule), i) /\ (i.k \in Told => Rule \in {6, 10, 11, 13})
    BY <2>1, StatementValue
  <2>3. ItemsFit' /\ items'[Len(items')] = i
    BY <2>1, <2>2, Said
  <2> QED BY <2>2, <2>3, <1>2, <1>3 DEF SaidInTime, AheadFits
<1>5. CASE ~ReduceError
  <2>1. items' = items
    BY <1>5 DEF Accept, SyntaxError, Exhausted
  <2> QED BY <2>1, <1>2, <1>3 DEF ItemsFit, SaidInTime
<1> QED BY <1>4, <1>5

LEMMA PStep ==
  ASSUME PInv, Next
  PROVE  PInv' /\ SaidInTime
BY ScannerStep, ShiftStep, ValueStep, StatementStep, EndStep DEF Next

LEMMA PStutter ==
  ASSUME PInv, UNCHANGED vars
  PROVE  PInv' /\ SaidInTime
BY DEF vars, scanVars, PInv, StatesFit, ValuesFit, AheadFits, ScannerFits, ItemsFit, Rule, yystate,
       SaidInTime

LEMMA PInvariant == Spec => []PInv
<1>1. Init => PInv
  BY Initially
<1>2. PInv /\ [Next \/ (Ended /\ UNCHANGED vars)]_vars => PInv'
  BY PStep, PStutter
<1> QED BY <1>1, <1>2, PTL DEF Spec

-----------------------------------------------------------------------------
(***************************************************************************)
(* What the invariant says of the items.                                   *)
(***************************************************************************)
\* How many expressions wait is the one sequence of numbers that starts with 0
\* and goes on as the items say.
LEMMA WaitingAsCounted ==
  ASSUME ItemsFit
  PROVE  ArgumentsWait
<1> DEFINE D == 0 .. Len(items)
           Body(f, n) == IF n = 0 THEN 0 ELSE LeftBy(items[n], f[n - 1])
           w == CHOOSE f : f = [n \in D |-> Body(f, n)]
<1>1. PICK h : Waits(items, h, 0, 0)
  BY DEF ItemsFit, Leads
<1>2. /\ h \in [D -> Nat] /\ h[0] = 0 /\ h[Len(items)] = 0 /\ Len(items) \in Nat
      /\ \A n \in 1 .. Len(items) : FoundBy(items[n], h[n - 1]) /\ h[n] = LeftBy(items[n], h[n - 1])
  BY <1>1 DEF Waits, ItemsFit
<1>3. h = [n \in D |-> Body(h, n)]
  <2>1. \A n \in D : h[n] = Body(h, n)
    BY <1>2
  <2> HIDE DEF Body
  <2> QED BY <1>2, <2>1
<1>4. w = [n \in D |-> Body(w, n)]
  <2> HIDE DEF Body, D
  <2> QED BY <1>3
<1>5. \A n \in D : w[n] = Body(w, n)
  <2> HIDE DEF Body, w
  <2> QED BY <1>4
<1>6. \A n \in D : w[n] = h[n]
  <2> HIDE DEF w
  <2> DEFINE S == {n \in Nat : n \in D => w[n] = h[n]}
  <2>1. 0 \in S
    BY <1>2, <1>5
  <2>2. ASSUME NEW n \in Nat, n \in S PROVE n + 1 \in S
    <3> SUFFICES ASSUME n + 1 \in D PROVE w[n + 1] = h[n + 1]
      OBVIOUS
    <3>1. n \in D /\ n + 1 # 0 /\ (n + 1) - 1 = n /\ n + 1 \in 1 .. Len(items)
      BY <1>2
    <3>2. w[n + 1] = LeftBy(items[n + 1], w[n])
      BY <3>1, <1>5
    <3>3. h[n + 1] = LeftBy(items[n + 1], h[n])
      BY <3>1, <1>2
    <3> QED BY <2>2, <3>1, <3>2, <3>3
  <2>3. Nat \subseteq S
    <3> HIDE DEF S
    <3> QED BY <2>1, <2>2, Inductive
  <2> QED BY <2>3, <1>2
<1>7. w[Len(items)] = 0 /\ \A n \in 1 .. Len(items) : FoundBy(items[n], w[n - 1])
  <2>1. \A n \in 1 .. Len(items) : n - 1 \in D
    BY <1>2
  <2> HIDE DEF w
  <2> QED BY <2>1, <1>2, <1>6
<1> QED BY <1>7 DEF ArgumentsWait

LEMMA InstructionsAgree ==
  ASSUME ItemsFit
  PROVE  SplitsAsAssembled
BY DEF ItemsFit, SplitsAsAssembled, SoundItem

LEMMA PInvTypes ==
  ASSUME PInv
  PROVE  ParserTypeOK
<1>1. items \in Seq(StatementItem)
  <2>1. SoundItem \subseteq StatementItem
    BY DEF SoundItem
  <2> QED BY <2>1 DEF PInv, ItemsFit
<1> QED BY <1>1 DEF PInv, StatesFit, ValuesFit, AheadFits, ScannerFits, ParserTypeOK, States

-----------------------------------------------------------------------------
(***************************************************************************)
(* The theorems.                                                           *)
(***************************************************************************)
\* Whatever the text is, the variables keep their types: the stack of states
\* never runs empty, it stays within its limit, the stack of values has the
\* same height, and no state is read from outside the tables.
THEOREM ParserTypeCorrect == Spec => []ParserTypeOK
<1>1. PInv => ParserTypeOK
  BY PInvTypes
<1> QED BY <1>1, PInvariant, PTL

\* Each rule finds the values it takes, and of the kind it takes: of any text,
\* also one that is refused in the end, the statements are such that each
\* argument is one expression and none is left behind.
THEOREM ArgumentsAreThere == Spec => []ArgumentsWait
<1>1. PInv => ArgumentsWait
  BY WaitingAsCounted DEF PInv
<1> QED BY <1>1, PInvariant, PTL

\* Every instruction that is assembled has the length, and the mode for the
\* type of its argument, that the table of the splitter has for its opcode.
THEOREM InstructionsSplit == Spec => []SplitsAsAssembled
<1>1. PInv => SplitsAsAssembled
  BY InstructionsAgree DEF PInv
<1> QED BY <1>1, PInvariant, PTL

\* The rules that change what the scanner does next are reduced before it is
\* asked for another token.
THEOREM ScannerToldInTime == Spec => NothingReadAhead
<1>1. PInv /\ [Next \/ (Ended /\ UNCHANGED vars)]_vars =>
        [/\ items' # items
         /\ items'[Len(items')].k \in {"if", "macro", "include", "text"}
         => yychar = YYEMPTY]_vars
  BY PStep, PStutter DEF SaidInTime, Told
<1> QED BY <1>1, PInvariant, PTL DEF Spec, NothingReadAhead
=============================================================================
