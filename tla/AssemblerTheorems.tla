-------------------------- MODULE AssemblerTheorems --------------------------
(***************************************************************************)
(* What is proved of the assembler, and of the depacker assembled by it.   *)
(***************************************************************************)
EXTENDS Generator, ExpressionsTheorems

-----------------------------------------------------------------------------
(***************************************************************************)
(* Texts, item by item: the grammar can get through the text, and from a   *)
(* to b.                                                                   *)
(***************************************************************************)
Path(text, a, b) == text \in Seq(Items) /\ \E h : Reads(text, h, a, b)

LEMMA TextPath ==
  ASSUME NEW text, Text(text)
  PROVE  Path(text, Between, Between)
BY DEF Text, Path

\* At the end of the text it is at the end.
LEMMA PathEnd ==
  ASSUME NEW a, NEW b
  PROVE  /\ Path(<<>>, a, a)
         /\ Path(<<>>, a, b) => a = b
<1>1. Path(<<>>, a, a)
  <2> DEFINE h == [n \in {0} |-> a]
  <2>1. <<>> \in Seq(Items) /\ Len(<<>>) = 0
    OBVIOUS
  <2>2. h[0] = a
    OBVIOUS
  <2>3. Reads(<<>>, h, a, a)
    BY <2>1, <2>2 DEF Reads
  <2> QED BY <2>1, <2>3 DEF Path
<1>2. Path(<<>>, a, b) => a = b
  BY DEF Path, Reads
<1> QED BY <1>1, <1>2

\* The first item is accepted, and the rest of the text goes on from there.
LEMMA PathHead ==
  ASSUME NEW text, NEW a, NEW b, Path(text, a, b), text # <<>>
  PROVE  /\ Head(text) \in Items
         /\ Accepts(Head(text), a)
         /\ Path(Tail(text), After(Head(text), a), b)
<1>1. text \in Seq(Items)
  BY DEF Path
<1>2. PICK h : Reads(text, h, a, b)
  BY DEF Path
<1>3. PICK l \in Nat : l = Len(text) /\ l >= 1
  BY <1>1
<1>4. Head(text) \in Items /\ Head(text) = text[1] /\ Tail(text) \in Seq(Items)
      /\ Len(Tail(text)) = l - 1 /\ \A n \in 1 .. l - 1 : Tail(text)[n] = text[n + 1]
  BY <1>1, <1>3
<1>5. Accepts(text[1], a) /\ h[1] = After(text[1], a) /\ h[l] = b
  BY <1>2, <1>3 DEF Reads
<1> DEFINE g == [n \in 0 .. l - 1 |-> h[n + 1]]
<1>6. g[0] = h[1] /\ g[l - 1] = h[l]
  BY <1>3
<1>7. ASSUME NEW n \in 1 .. l - 1
      PROVE  Accepts(text[n + 1], g[n - 1]) /\ g[n] = After(text[n + 1], g[n - 1])
  <2>1. n + 1 \in 1 .. Len(text) /\ (n + 1) - 1 = n /\ n - 1 \in 0 .. l - 1 /\ n \in 0 .. l - 1
        /\ (n - 1) + 1 = n
    BY <1>3, <1>7
  <2>2. g[n - 1] = h[n] /\ g[n] = h[n + 1]
    BY <2>1
  <2>3. Accepts(text[n + 1], h[n]) /\ h[n + 1] = After(text[n + 1], h[n])
    BY <1>2, <2>1 DEF Reads
  <2> QED BY <2>2, <2>3
<1> HIDE DEF g
<1>8. Reads(Tail(text), g, After(Head(text), a), b)
  BY <1>4, <1>5, <1>6, <1>7 DEF Reads
<1> QED BY <1>4, <1>5, <1>8 DEF Path

\* One more item that is accepted.
LEMMA PathAppend ==
  ASSUME NEW text, NEW a, NEW b, Path(text, a, b), NEW i \in Items, Accepts(i, b)
  PROVE  Path(Append(text, i), a, After(i, b))
<1>1. text \in Seq(Items)
  BY DEF Path
<1>2. PICK h : Reads(text, h, a, b)
  BY DEF Path
<1>3. PICK l \in Nat : l = Len(text)
  BY <1>1
<1>4. Append(text, i) \in Seq(Items) /\ Len(Append(text, i)) = l + 1
      /\ Append(text, i)[l + 1] = i /\ \A n \in 1 .. l : Append(text, i)[n] = text[n]
  BY <1>1, <1>3
<1> DEFINE g == [n \in 0 .. l + 1 |-> IF n = l + 1 THEN After(i, b) ELSE h[n]]
<1>5. g[0] = a /\ g[l + 1] = After(i, b) /\ g[l] = b
  BY <1>2, <1>3 DEF Reads
<1>6. ASSUME NEW n \in 1 .. l
      PROVE  Accepts(text[n], g[n - 1]) /\ g[n] = After(text[n], g[n - 1])
  <2>1. g[n - 1] = h[n - 1] /\ g[n] = h[n]
    BY <1>3, <1>6
  <2>2. Accepts(text[n], h[n - 1]) /\ h[n] = After(text[n], h[n - 1])
    BY <1>2, <1>3, <1>6 DEF Reads
  <2> QED BY <2>1, <2>2
<1> HIDE DEF g
<1>7. ASSUME NEW n \in 1 .. l + 1
      PROVE  Accepts(Append(text, i)[n], g[n - 1]) /\ g[n] = After(Append(text, i)[n], g[n - 1])
  <2>1. CASE n = l + 1
    <3>1. n - 1 = l
      BY <2>1, <1>3
    <3> QED BY <1>4, <1>5, <2>1, <3>1
  <2>2. CASE n # l + 1
    <3>1. n \in 1 .. l
      BY <1>3, <1>7, <2>2
    <3> QED BY <1>4, <1>6, <3>1
  <2> QED BY <2>1, <2>2
<1>8. Reads(Append(text, i), g, a, After(i, b))
  BY <1>4, <1>5, <1>7 DEF Reads
<1> QED BY <1>4, <1>8 DEF Path

-----------------------------------------------------------------------------
(***************************************************************************)
(* The scanner.  While the source is read, the grammar is at one place in  *)
(* all the open sources: every one of them, and every macro, goes on from  *)
(* there to its end.  That keeps the scanner from a state of its own the   *)
(* parser does not expect: a condition that is pushed goes with the .IF it *)
(* is for, and the levels of the conditionals are the stack of conditions. *)
(***************************************************************************)
Conditions == {"INITIAL", "SKIP", "SKIP_ALL"}

Chain == [live : BOOLEAN, entered : Nat, closed : BOOLEAN, ordered : BOOLEAN]

Place == [waiting : Nat, condition : BOOLEAN]

ScanTypes ==
  /\ buffers \in Seq(Seq(Items))
  /\ Len(buffers) \in 1 .. MAX_SRC_BUFFER_DEPTH
  /\ start \in Conditions \cup {"MACROO"}
  /\ start_stack \in Seq(Conditions)
  /\ push_state \in {"none", "INITIAL", "SKIP", "MACROO"}
  /\ chains \in Seq(Chain)
  /\ yyvsp \in Seq(Nat)

\* Text of a macro is being read.
InMacro == start = "MACROO" \/ push_state = "MACROO"

\* Where the grammar is, as the state of the parser and the scanner has it.
Here == [waiting |-> Len(yyvsp), condition |-> Len(chains) > Len(start_stack)]

Modes ==
  /\ start # "INITIAL" => yyvsp = <<>> /\ push_state = "none"
  /\ push_state # "none" => yyvsp = <<>>
  /\ InMacro => s_macro_name \in DOMAIN named \ BinaryName
  /\ push_state \in {"INITIAL", "SKIP"} => Len(chains) = Len(start_stack) + 1
  /\ push_state = "MACROO" => Len(chains) = Len(start_stack)
  /\ start = "MACROO" => Len(chains) = Len(start_stack) - 1
  /\ start \in {"SKIP", "SKIP_ALL"} => Len(chains) = Len(start_stack)
  /\ push_state = "none" /\ start = "INITIAL" =>
       Len(chains) \in {Len(start_stack), Len(start_stack) + 1}

\* The innermost source goes on from at.
GoesOn(at) ==
  /\ Path(Top, at, Between)
  /\ push_state # "none" => at = Between
  /\ push_state = "none" /\ start = "INITIAL" => at = Here
  /\ InMacro => Path(named[s_macro_name], Between, at)

Position == \E at \in Place : GoesOn(at)

\* The others go on from between two statements.
Nested == \A n \in 1 .. Len(buffers) - 1 : Path(buffers[n], Between, Between)

\* Macros and files that were included are texts, but for one that is read.
MacrosOK ==
  \A n \in DOMAIN named \ BinaryName :
    (InMacro /\ n = s_macro_name) \/ Path(named[n], Between, Between)

BinaryOK == \A n \in DOMAIN named \cap BinaryName : named[n] \in Seq(0 .. 255)

\* The condition outside the n-th open conditional, or of the innermost
\* branch: it is "none" when the value of its .IF is still to come.
Level(n) ==
  IF n <= Len(start_stack) THEN start_stack[n]
  ELSE IF n = Len(start_stack) + 1 THEN start ELSE push_state

\* What is known of a conditional c from the levels around and in it.
Linked(c, outside, inside) ==
  /\ c.live <=> outside = "INITIAL"
  /\ ~c.live => c.entered = 0 /\ inside = "SKIP_ALL"
  /\ ~c.ordered => c.closed
  /\ c.live /\ c.ordered =>
       /\ inside \in {"INITIAL", "SKIP_ALL"} => c.entered = 1
       /\ inside = "SKIP" => c.entered = IF c.closed THEN 1 ELSE 0
       /\ inside = "none" => c.entered = 0 /\ ~c.closed

Levels == \A n \in 1 .. Len(chains) : Linked(chains[n], Level(n), Level(n + 1))

ScanInv ==
  /\ ScanTypes
  /\ BinaryOK
  /\ OneBranchPerIf
  /\ asm = "parse" => Modes /\ Position /\ Nested /\ MacrosOK /\ Levels

\* After an item the grammar is at a place again.
LEMMA AfterPlace ==
  ASSUME NEW at \in Place, NEW i \in Items, Accepts(i, at)
  PROVE  /\ After(i, at) \in Place
         /\ ~IsExpression(i) => After(i, at).waiting = 0
         /\ ~IsExpression(i) /\ i.k \notin {"IF", "ELIF"} => After(i, at) = Between
         /\ i.k \in {"IF", "ELIF"} => After(i, at) = [waiting |-> 0, condition |-> TRUE]
         /\ IsExpression(i) =>
              After(i, at) = [waiting |-> at.waiting - Takes(i) + 1, condition |-> at.condition]
<1>1. at = [waiting |-> at.waiting, condition |-> at.condition]
      /\ at.waiting \in Nat /\ at.condition \in BOOLEAN
  BY DEF Place
<1>2. CASE ~IsExpression(i)
  <2>1. After(i, at) = [waiting |-> 0, condition |-> i.k \in {"IF", "ELIF"}]
    BY <1>2 DEF After, Between
  <2>2. CASE i.k \in {"IF", "ELIF"}
    <3>1. After(i, at) = [waiting |-> 0, condition |-> TRUE]
      BY <2>1, <2>2, Zenon
    <3> QED BY <1>2, <2>2, <3>1 DEF Place
  <2>3. CASE i.k \notin {"IF", "ELIF"}
    <3>1. (i.k \in {"IF", "ELIF"}) = FALSE
      BY ONLY <2>3
    <3>2. After(i, at) = [waiting |-> 0, condition |-> FALSE]
      BY <2>1, <3>1, Zenon
    <3> QED BY <1>2, <2>3, <3>2 DEF Place, Between
  <2> QED BY <2>2, <2>3
<1>3. CASE IsExpression(i)
  <2>1. After(i, at) = [at EXCEPT !.waiting = @ - Takes(i) + 1] /\ at.waiting >= Takes(i)
    BY <1>3 DEF After, Accepts
  <2>2. Takes(i) \in Nat
    BY <1>3 DEF IsExpression, Takes
  <2>3. After(i, at) = [waiting |-> at.waiting - Takes(i) + 1, condition |-> at.condition]
    BY <1>1, <2>1
  <2>4. at.waiting - Takes(i) + 1 \in Nat
    BY <1>1, <2>1, <2>2
  <2>5. After(i, at) \in Place
    BY <1>1, <2>3, <2>4 DEF Place
  <2>6. i.k \notin {"IF", "ELIF"}
    BY <1>3 DEF IsExpression
  <2> QED BY <1>3, <2>3, <2>5, <2>6
<1> QED BY <1>2, <1>3

\* A place is between two statements if nothing waits.
LEMMA PlaceBetween ==
  ASSUME NEW at \in Place, at.waiting = 0, ~at.condition
  PROVE  at = Between
BY DEF Place, Between

\* One item is taken from the innermost source.
LEMMA ConsumedIs ==
  ASSUME ScanTypes, Top # <<>>, buffers' = Consumed
  PROVE  /\ buffers' \in Seq(Seq(Items))
         /\ Len(buffers') = Len(buffers)
         /\ Top' = Tail(Top)
         /\ \A n \in 1 .. Len(buffers) - 1 : buffers'[n] = buffers[n]
         /\ Item \in Items
<1>1. PICK l \in Nat : l = Len(buffers) /\ l >= 1
  BY DEF ScanTypes
<1>2. buffers \in Seq(Seq(Items)) /\ buffers[l] \in Seq(Items) /\ Top = buffers[l]
  BY <1>1 DEF ScanTypes, Top
<1>3. Head(buffers[l]) \in Items /\ Tail(buffers[l]) \in Seq(Items)
  BY <1>2
<1>4. buffers' = [buffers EXCEPT ![l] = Tail(buffers[l])]
  BY <1>1, <1>2 DEF Consumed
<1>5. buffers' \in Seq(Seq(Items)) /\ Len(buffers') = l
      /\ buffers'[l] = Tail(buffers[l]) /\ \A n \in 1 .. l - 1 : buffers'[n] = buffers[n]
  BY <1>1, <1>2, <1>3, <1>4
<1>6. Top' = Tail(Top)
  BY <1>1, <1>2, <1>5 DEF Top
<1> QED BY <1>1, <1>2, <1>3, <1>5, <1>6 DEF Item

LEMMA HerePlace == ASSUME ScanTypes PROVE Here \in Place
<1>1. Len(yyvsp) \in Nat /\ (Len(chains) > Len(start_stack)) \in BOOLEAN
  BY DEF ScanTypes
<1> QED BY <1>1 DEF Here, Place

\* The next item is one the grammar accepts where it is, and goes on behind.
LEMMA AtItem ==
  ASSUME ScanInv, NEW k, NEW conditions, At(k, conditions)
  PROVE  /\ asm = "parse" /\ push_state = "none" /\ start \in conditions
         /\ Item \in Items /\ Item.k = k /\ Top # <<>>
         /\ \E at \in Place : /\ GoesOn(at)
                              /\ Accepts(Item, at)
                              /\ Path(Tail(Top), After(Item, at), Between)
         /\ start = "INITIAL" =>
              Accepts(Item, Here) /\ Path(Tail(Top), After(Item, Here), Between)
<1>1. asm = "parse" /\ push_state = "none" /\ start \in conditions /\ Item.k = k /\ Top # <<>>
  BY DEF At, Scanning
<1>2. PICK at \in Place : GoesOn(at)
  BY <1>1 DEF ScanInv, Position
<1>3. Path(Top, at, Between) /\ (start = "INITIAL" => at = Here)
  BY <1>1, <1>2 DEF GoesOn
<1>4. Item \in Items /\ Accepts(Item, at) /\ Path(Tail(Top), After(Item, at), Between)
  <2> DEFINE t == Top
  <2>1. Path(t, at, Between) /\ t # <<>>
    BY <1>1, <1>3
  <2> HIDE DEF t
  <2>2. Head(t) \in Items /\ Accepts(Head(t), at) /\ Path(Tail(t), After(Head(t), at), Between)
    BY <2>1, PathHead
  <2> QED BY <2>2 DEF t, Item
<1>5. start = "INITIAL" =>
        Accepts(Item, Here) /\ Path(Tail(Top), After(Item, Here), Between)
  BY <1>3, <1>4
<1> QED BY <1>1, <1>2, <1>4, <1>5

\* How many values wait, and whether a condition does, in front of an item.
LEMMA AtStatement ==
  ASSUME ScanInv, NEW k, At(k, {"INITIAL"})
  PROVE  /\ IsExpression(Item) => Len(yyvsp) >= Takes(Item)
         /\ ~IsExpression(Item) => Len(yyvsp) = Takes(Item)
         /\ ~IsExpression(Item) /\ k = "if" => Len(chains) = Len(start_stack) + 1
         /\ ~IsExpression(Item) /\ k # "if" => Len(chains) = Len(start_stack)
<1>1. Accepts(Item, Here) /\ Item.k = k /\ push_state = "none" /\ start = "INITIAL" /\ Modes
  BY AtItem DEF ScanInv
<1>2. Len(chains) \in {Len(start_stack), Len(start_stack) + 1}
  BY <1>1 DEF Modes
<1>3. Len(chains) \in Nat /\ Len(start_stack) \in Nat
  BY DEF ScanInv, ScanTypes
<1>4. Here.waiting = Len(yyvsp) /\ Here.condition = (Len(chains) > Len(start_stack))
  BY DEF Here
<1>5. IsExpression(Item) => Len(yyvsp) >= Takes(Item)
  BY <1>1, <1>4 DEF Accepts
<1>6. ~IsExpression(Item) =>
        Len(yyvsp) = Takes(Item) /\ ((Len(chains) > Len(start_stack)) <=> k = "if")
  BY <1>1, <1>4 DEF Accepts
<1> QED BY <1>2, <1>3, <1>5, <1>6

\* Nothing the scanner looks at has changed.
LEMMA ScanStays ==
  ASSUME ScanInv, UNCHANGED <<scanVars, yyvsp>>, asm' = "parse" => asm = "parse"
  PROVE  ScanInv'
<1>1. UNCHANGED <<buffers, start, start_stack, push_state, chains, s_macro_name, named, yyvsp>>
  BY DEF scanVars, condVars
<1>2. ScanTypes'
  BY <1>1 DEF ScanInv, ScanTypes
<1>3. BinaryOK' /\ OneBranchPerIf'
  BY <1>1 DEF ScanInv, BinaryOK, OneBranchPerIf
<1>4. ASSUME asm' = "parse" PROVE (Modes /\ Position /\ Nested /\ MacrosOK /\ Levels)'
  <2>1. Modes /\ Position /\ Nested /\ MacrosOK /\ Levels
    BY <1>4 DEF ScanInv
  <2>2. InMacro' = InMacro /\ Here' = Here /\ Top' = Top
    BY <1>1 DEF InMacro, Here, Top
  <2>3. Modes'
    BY <1>1, <2>1, <2>2 DEF Modes
  <2>4. Position'
    BY <1>1, <2>1, <2>2 DEF Position, GoesOn
  <2>5. Nested' /\ MacrosOK'
    BY <1>1, <2>1, <2>2 DEF Nested, MacrosOK
  <2>6. Levels'
    BY <1>1, <2>1 DEF Levels, Level
  <2> QED BY <2>3, <2>4, <2>5, <2>6
<1> QED BY <1>2, <1>3, <1>4 DEF ScanInv

\* The assembler has failed, or has come to the end of the source.
LEMMA ScanEnds ==
  ASSUME ScanInv, asm' # "parse", ScanTypes', OneBranchPerIf', UNCHANGED named
  PROVE  ScanInv'
<1>1. BinaryOK'
  BY DEF ScanInv, BinaryOK
<1> QED BY <1>1 DEF ScanInv

\* Links make the property: levels are conditions where there is a link.
LEMMA LinkedOnce ==
  ASSUME NEW c \in Chain, NEW outside, NEW inside \in Conditions \cup {"none"},
         Linked(c, outside, inside)
  PROVE  /\ ~c.live => c.entered = 0
         /\ c.ordered => c.entered <= 1 /\ (c.live /\ c.closed => c.entered = 1)
BY DEF Linked, Conditions, Chain

LEMMA OneBranchFromLevels == ScanTypes /\ Modes /\ Levels => OneBranchPerIf
<1> SUFFICES ASSUME ScanTypes, Modes, Levels PROVE OneBranchPerIf
  OBVIOUS
<1> SUFFICES ASSUME NEW n \in 1 .. Len(chains)
             PROVE  /\ ~chains[n].live => chains[n].entered = 0
                    /\ chains[n].ordered =>
                         /\ chains[n].entered <= 1
                         /\ chains[n].live /\ chains[n].closed => chains[n].entered = 1
  BY DEF OneBranchPerIf
<1>1. chains[n] \in Chain /\ Len(chains) \in Nat /\ Len(start_stack) \in Nat
  BY DEF ScanTypes
<1>2. Linked(chains[n], Level(n), Level(n + 1))
  BY DEF Levels
<1>3. n + 1 <= Len(chains) + 1
  BY <1>1
<1>4. start = "MACROO" => n + 1 <= Len(start_stack)
  BY <1>1, <1>3 DEF Modes
<1>5. n + 1 > Len(start_stack) + 1 => push_state # "MACROO"
  BY <1>1, <1>3 DEF Modes, ScanTypes
<1>6. Level(n + 1) \in Conditions \cup {"none"}
  <2>1. CASE n + 1 <= Len(start_stack)
    BY <2>1, <1>1 DEF Level, ScanTypes
  <2>2. CASE n + 1 = Len(start_stack) + 1
    BY <2>2, <1>1, <1>4 DEF Level, ScanTypes
  <2>3. CASE n + 1 > Len(start_stack) + 1
    BY <2>3, <1>1, <1>5 DEF Level, ScanTypes, Conditions
  <2> QED BY <1>1, <2>1, <2>2, <2>3
<1> QED BY <1>1, <1>2, <1>6, LinkedOnce

LEMMA OneBranchNext == (ScanTypes /\ Modes /\ Levels)' => OneBranchPerIf'
BY OneBranchFromLevels, PTL

\* What a step of the scanner has to show.
LEMMA ScanGoesOn ==
  ASSUME ScanTypes', Modes', Position', Nested', MacrosOK', Levels', BinaryOK'
  PROVE  ScanInv'
BY OneBranchNext DEF ScanInv

\* The links of the first l conditionals stay, and there may be one more.
LEMMA LevelsKept ==
  ASSUME ScanTypes, Levels, NEW l \in Nat, l <= Len(chains),
         chains' \in Seq(Chain),
         \A n \in 1 .. l : chains'[n] = chains[n],
         \A n \in 1 .. l + 1 : Level(n)' = Level(n),
         \/ Len(chains') = l
         \/ /\ Len(chains') = l + 1
            /\ Linked(chains'[l + 1], Level(l + 1)', Level(l + 2)')
  PROVE  Levels'
<1> SUFFICES ASSUME NEW n \in 1 .. Len(chains')
             PROVE  Linked(chains'[n], Level(n)', Level(n + 1)')
  BY DEF Levels
<1>1. Len(chains) \in Nat /\ Len(chains') \in Nat
  BY DEF ScanTypes
<1>2. CASE n <= l
  <2>1. n \in 1 .. l /\ n \in 1 .. l + 1 /\ n + 1 \in 1 .. l + 1 /\ n \in 1 .. Len(chains)
    BY <1>1, <1>2
  <2>2. chains'[n] = chains[n] /\ Level(n)' = Level(n) /\ Level(n + 1)' = Level(n + 1)
    BY <2>1
  <2>3. Linked(chains[n], Level(n), Level(n + 1))
    BY <2>1 DEF Levels
  <2> QED BY <2>2, <2>3
<1>3. CASE n > l
  <2>1. n = l + 1 /\ n + 1 = l + 2
    BY <1>1, <1>3
  <2>2. Linked(chains'[l + 1], Level(l + 1)', Level(l + 2)')
    BY <1>1, <1>3
  <2> QED BY <2>1, <2>2
<1> QED BY <1>1, <1>2, <1>3

\* The innermost conditional is updated.
LEMMA UpdateIs ==
  ASSUME ScanTypes, NEW c, Len(chains) > 0 => c \in Chain, Update(c)
  PROVE  /\ chains' \in Seq(Chain)
         /\ Len(chains') = Len(chains)
         /\ \A n \in 1 .. Len(chains) - 1 : chains'[n] = chains[n]
         /\ Len(chains) > 0 => chains'[Len(chains)] = c
<1>1. PICK l \in Nat : l = Len(chains)
  BY DEF ScanTypes
<1>2. chains \in Seq(Chain) /\ DOMAIN chains = 1 .. l
  BY <1>1 DEF ScanTypes
<1>3. chains' = [n \in 1 .. l |-> IF n = l THEN c ELSE chains[n]]
  BY <1>1, <1>2 DEF Update
<1> QED BY <1>1, <1>2, <1>3

LEMMA InnermostIs ==
  ASSUME ScanTypes, Len(chains) > 0
  PROVE  /\ Innermost \in Chain
         /\ Innermost = chains[Len(chains)]
BY DEF ScanTypes, Innermost

\* The condition on top of the stack is taken off.
LEMMA PopIs ==
  ASSUME ScanTypes, Pop
  PROVE  \/ start_stack = <<>> /\ asm' = "failed" /\ UNCHANGED <<start, start_stack>>
         \/ /\ Len(start_stack) > 0
            /\ start' = start_stack[Len(start_stack)] /\ start' \in Conditions
            /\ start_stack' \in Seq(Conditions)
            /\ Len(start_stack') = Len(start_stack) - 1
            /\ \A n \in 1 .. Len(start_stack) - 1 : start_stack'[n] = start_stack[n]
            /\ asm' = asm
<1>1. PICK l \in Nat : l = Len(start_stack)
  BY DEF ScanTypes
<1>2. start_stack \in Seq(Conditions)
  BY DEF ScanTypes
<1>3. CASE start_stack = <<>>
  BY <1>3 DEF Pop
<1>4. CASE start_stack # <<>>
  <2>1. start' = start_stack[l] /\ start_stack' = SubSeq(start_stack, 1, l - 1) /\ asm' = asm
    BY <1>1, <1>4 DEF Pop
  <2>2. l > 0 /\ start_stack[l] \in Conditions
    BY <1>1, <1>2, <1>4
  <2> QED BY <1>1, <1>2, <2>1, <2>2
<1> QED BY <1>3, <1>4

\* A level on the stack is the condition that is popped.
LEMMA LevelIs ==
  ASSUME ScanTypes, NEW n \in Nat
  PROVE  /\ n <= Len(start_stack) => Level(n) = start_stack[n]
         /\ n = Len(start_stack) + 1 => Level(n) = start
         /\ n > Len(start_stack) + 1 => Level(n) = push_state
BY DEF ScanTypes, Level

\* The other sources are as they were.
LEMMA NestedStays ==
  ASSUME ScanTypes, Nested, Top # <<>>, buffers' = Consumed
  PROVE  Nested'
<1>1. Len(buffers') = Len(buffers) /\ \A n \in 1 .. Len(buffers) - 1 : buffers'[n] = buffers[n]
  BY ConsumedIs
<1> QED BY <1>1 DEF Nested

-----------------------------------------------------------------------------
(***************************************************************************)
(* Steps of the scanner.                                                   *)
(***************************************************************************)
\* The types of what the scanner has, after it has taken an item.
LEMMA ScanTypesNext ==
  ASSUME ScanTypes, Top # <<>>, buffers' = Consumed,
         start' \in Conditions \cup {"MACROO"}, start_stack' \in Seq(Conditions),
         push_state' \in {"none", "INITIAL", "SKIP", "MACROO"},
         chains' \in Seq(Chain), yyvsp' \in Seq(Nat)
  PROVE  ScanTypes'
<1>1. buffers' \in Seq(Seq(Items)) /\ Len(buffers') = Len(buffers)
  BY ConsumedIs
<1> QED BY <1>1 DEF ScanTypes

\* Where the grammar is behind the item, when no text of a macro is read.
LEMMA PositionNext ==
  ASSUME Top' = Tail(Top), NEW at \in Place, Path(Tail(Top), at, Between),
         ~InMacro', push_state' # "none" => at = Between,
         push_state' = "none" /\ start' = "INITIAL" => at = Here'
  PROVE  Position'
BY DEF Position, GoesOn

LEMMA ScanPushState ==
  ASSUME ScanInv, PushState
  PROVE  ScanInv'
<1>1. /\ asm = "parse" /\ push_state # "none" /\ asm' = asm
      /\ start_stack' = Append(start_stack, start) /\ start' = push_state
      /\ push_state' = "none"
      /\ UNCHANGED <<buffers, chains, s_macro_name, named, yyvsp>>
  BY DEF PushState, Scanning, exprVars, parseVars
<1>2. ScanTypes /\ Modes /\ Position /\ Nested /\ MacrosOK /\ Levels /\ BinaryOK
  BY <1>1 DEF ScanInv
<1>3. start = "INITIAL" /\ yyvsp = <<>> /\ push_state \in {"INITIAL", "SKIP", "MACROO"}
  BY <1>1, <1>2 DEF Modes, ScanTypes
<1>4a. PICK m \in Nat : m = Len(start_stack)
  BY <1>2 DEF ScanTypes
<1>4b. PICK c \in Nat : c = Len(chains)
  BY <1>2 DEF ScanTypes
<1>4. /\ m = Len(start_stack) /\ m \in Nat /\ c = Len(chains) /\ c \in Nat
      /\ start_stack \in Seq(Conditions)
  BY <1>2, <1>4a, <1>4b DEF ScanTypes
<1>5. /\ start_stack' \in Seq(Conditions) /\ Len(start_stack') = m + 1
      /\ start_stack'[m + 1] = "INITIAL"
      /\ \A n \in 1 .. m : start_stack'[n] = start_stack[n]
  BY <1>1, <1>3, <1>4 DEF Conditions
<1>6. ScanTypes'
  BY <1>1, <1>2, <1>3, <1>5 DEF ScanTypes, Conditions
<1>7. InMacro' = InMacro
  BY <1>1, <1>3 DEF InMacro
<1>8. Modes'
  BY <1>1, <1>2, <1>3, <1>4, <1>5, <1>7 DEF Modes
<1>9. Position'
  <2>1. PICK at \in Place : GoesOn(at)
    BY <1>2 DEF Position
  <2>2. at = Between /\ Path(Top, at, Between) /\ (InMacro => Path(named[s_macro_name], Between, at))
    BY <1>1, <2>1 DEF GoesOn
  <2>3. Top' = Top
    BY <1>1 DEF Top
  <2>4. start' = "INITIAL" => Here' = Between
    <3>1. start' = "INITIAL" => Len(chains') = Len(start_stack')
      BY <1>1, <1>2, <1>4, <1>5 DEF Modes
    <3>2. yyvsp' = <<>>
      BY <1>1, <1>3
    <3> SUFFICES ASSUME start' = "INITIAL" PROVE Here' = Between
      OBVIOUS
    <3>3. (Len(chains') > Len(start_stack')) = FALSE
      BY <1>1, <1>4, <3>1
    <3>4. Len(yyvsp') = 0
      BY <3>2
    <3> QED BY <3>3, <3>4, Zenon DEF Here, Between
  <2> QED BY <1>1, <1>7, <2>1, <2>2, <2>3, <2>4 DEF Position, GoesOn
<1>10. Nested' /\ MacrosOK' /\ BinaryOK'
  BY <1>1, <1>2, <1>7 DEF Nested, MacrosOK, BinaryOK
<1>11. Levels'
  <2>1. c <= m + 1
    BY <1>2, <1>3, <1>4 DEF Modes
  <2>2. ASSUME NEW n \in 1 .. c + 1 PROVE Level(n)' = Level(n)
    <3>1. n \in Nat /\ n <= m + 2
      BY <1>4, <2>1, <2>2
    <3>2. Level(n)' = IF n <= m + 1 THEN start_stack'[n]
                      ELSE IF n = m + 2 THEN start' ELSE push_state'
      BY <1>4, <1>5, <3>1 DEF Level
    <3>3. Level(n) = IF n <= m THEN start_stack[n]
                     ELSE IF n = m + 1 THEN start ELSE push_state
      BY <1>4, <3>1 DEF Level
    <3> QED BY <1>1, <1>3, <1>4, <1>5, <2>2, <3>1, <3>2, <3>3
  <2>3. chains' = chains /\ chains' \in Seq(Chain) /\ Len(chains') = c
    BY <1>1, <1>2, <1>4 DEF ScanTypes
  <2> QED BY <1>2, <1>4, <2>2, <2>3, LevelsKept
<1> QED BY <1>6, <1>8, <1>9, <1>10, <1>11, ScanGoesOn

\* ScanIf, where text is assembled and where it is skipped.
LEMMA ScanIfHolds ==
  ASSUME ScanInv, ScanIf
  PROVE  ScanInv'
<1>1. PICK conditions : /\ At("IF", conditions) /\ buffers' = Consumed
                        /\ conditions \subseteq Conditions
  BY DEF ScanIf, Scan, Conditions
<1>2. /\ asm = "parse" /\ push_state = "none" /\ start \in Conditions /\ Top # <<>>
      /\ Item \in Items /\ Item.k = "IF"
  BY <1>1, AtItem
<1>3. /\ asm' = asm /\ UNCHANGED <<push_state, s_macro_name, named, yyvsp>>
      /\ chains' = Append(chains, [live |-> start = "INITIAL", entered |-> 0,
                                   closed |-> FALSE, ordered |-> TRUE])
  BY DEF ScanIf, ScannerOnly, parseVars
<1>4. ScanTypes /\ Modes /\ Nested /\ MacrosOK /\ Levels /\ BinaryOK
  BY <1>2 DEF ScanInv
<1>5a. PICK m \in Nat : m = Len(start_stack)
  BY <1>4 DEF ScanTypes
<1>5b. PICK c \in Nat : c = Len(chains)
  BY <1>4 DEF ScanTypes
<1>5. /\ m = Len(start_stack) /\ m \in Nat /\ c = Len(chains) /\ c \in Nat
      /\ start_stack \in Seq(Conditions) /\ chains \in Seq(Chain)
  BY <1>4, <1>5a, <1>5b DEF ScanTypes
<1>6. c = m /\ yyvsp = <<>>
  <2>1. CASE start = "INITIAL"
    <3>1. At("IF", {"INITIAL"})
      BY <1>1, <2>1 DEF At
    <3>2. ~IsExpression(Item) /\ Takes(Item) = 0
      BY <1>2 DEF IsExpression, Takes
    <3>3. Len(yyvsp) = 0 /\ Len(chains) = Len(start_stack)
      BY <3>1, <3>2, AtStatement
    <3> QED BY <1>4, <1>5, <3>3 DEF ScanTypes
  <2>2. CASE start \in {"SKIP", "SKIP_ALL"}
    BY <1>4, <1>5, <2>2 DEF Modes
  <2> QED BY <1>2, <2>1, <2>2 DEF Conditions
<1>7a. (start = "INITIAL") \in BOOLEAN
  OBVIOUS
<1>7. PICK new \in Chain :
        new = [live |-> start = "INITIAL", entered |-> 0, closed |-> FALSE, ordered |-> TRUE]
  BY <1>7a, Zenon DEF Chain
<1>8. /\ chains' \in Seq(Chain) /\ Len(chains') = c + 1 /\ chains'[c + 1] = new
      /\ \A n \in 1 .. c : chains'[n] = chains[n]
  BY <1>3, <1>5, <1>7
<1>9. \/ start = "INITIAL" /\ UNCHANGED <<start, start_stack>>
      \/ /\ start \in {"SKIP", "SKIP_ALL"} /\ start' = "SKIP_ALL"
         /\ start_stack' \in Seq(Conditions) /\ Len(start_stack') = m + 1
         /\ start_stack'[m + 1] = start
         /\ \A n \in 1 .. m : start_stack'[n] = start_stack[n]
  <2>1. \/ start = "INITIAL" /\ UNCHANGED <<start, start_stack>>
        \/ /\ start \in {"SKIP", "SKIP_ALL"} /\ start' = "SKIP_ALL"
           /\ start_stack' = Append(start_stack, start)
    BY DEF ScanIf, Scan, At, Push
  <2>2. start \in Conditions
    BY <1>2
  <2> QED BY <1>5, <2>1, <2>2
<1>10. start' \in Conditions /\ start_stack' \in Seq(Conditions)
  BY <1>2, <1>5, <1>9 DEF Conditions
<1>11. ScanTypes'
  BY <1>1, <1>2, <1>3, <1>4, <1>8, <1>10, ScanTypesNext DEF ScanTypes
<1>12. ~InMacro /\ ~InMacro'
  BY <1>2, <1>3, <1>10 DEF InMacro, Conditions
<1>13. Modes'
  BY <1>2, <1>3, <1>5, <1>6, <1>8, <1>9, <1>12 DEF Modes
<1>14. Position'
  <2>1. PICK at \in Place : /\ GoesOn(at) /\ Accepts(Item, at)
                            /\ Path(Tail(Top), After(Item, at), Between)
    BY <1>1, AtItem
  <2>2. After(Item, at) \in Place /\ After(Item, at) = [waiting |-> 0, condition |-> TRUE]
    BY <1>2, <2>1, AfterPlace
  <2>3. start' = "INITIAL" => Here' = [waiting |-> 0, condition |-> TRUE]
    <3> SUFFICES ASSUME start' = "INITIAL" PROVE Here' = [waiting |-> 0, condition |-> TRUE]
      OBVIOUS
    <3>1. (Len(chains') > Len(start_stack')) = TRUE /\ Len(yyvsp') = 0
      BY <1>3, <1>5, <1>6, <1>8, <1>9
    <3> QED BY <3>1, Zenon DEF Here
  <2>4. Top' = Tail(Top)
    BY <1>1, <1>2, <1>4, ConsumedIs
  <2> QED BY <1>2, <1>3, <1>12, <2>1, <2>2, <2>3, <2>4, PositionNext
<1>15. Nested'
  BY <1>1, <1>2, <1>4, NestedStays
<1>16. MacrosOK' /\ BinaryOK'
  BY <1>3, <1>4, <1>12 DEF MacrosOK, BinaryOK
<1>17. Levels'
  <2>1. ASSUME NEW n \in 1 .. c + 1 PROVE Level(n)' = Level(n)
    <3>1. n \in Nat /\ n <= m + 1
      BY <1>5, <1>6, <2>1
    <3>2. Level(n) = IF n <= m THEN start_stack[n] ELSE start
      BY <1>5, <3>1 DEF Level
    <3>3. Level(n)' = IF n <= m THEN start_stack[n] ELSE start
      BY <1>5, <1>9, <2>1, <3>1 DEF Level
    <3> QED BY <3>2, <3>3
  <2>2. Level(c + 1)' = start
    BY <1>5, <1>6, <1>9 DEF Level
  <2>3. start = "INITIAL" => Level(c + 2)' = "none"
    BY <1>2, <1>3, <1>5, <1>6, <1>9 DEF Level
  <2>4. start # "INITIAL" => Level(c + 2)' = "SKIP_ALL"
    BY <1>2, <1>3, <1>5, <1>6, <1>9 DEF Level
  <2>5. Linked(new, Level(c + 1)', Level(c + 2)')
    BY <1>7, <2>2, <2>3, <2>4 DEF Linked
  <2> QED BY <1>4, <1>5, <1>8, <2>1, <2>5, LevelsKept
<1> QED BY <1>11, <1>13, <1>14, <1>15, <1>16, <1>17, ScanGoesOn

\* What a directive has to show, where no text of a macro is read.
LEMMA DirectiveHolds ==
  ASSUME ScanInv, NEW k, NEW conditions \in SUBSET Conditions, At(k, conditions),
         buffers' = Consumed, asm' = asm, ScannerOnly, yyvsp = <<>>,
         start' \in Conditions, start_stack' \in Seq(Conditions), chains' \in Seq(Chain),
         start' # "INITIAL" => Len(chains') = Len(start_stack'),
         start' = "INITIAL" =>
           /\ k \in {"ELIF", "ELSE", "ENDIF"}
           /\ Len(chains') = Len(start_stack') + (IF k = "ELIF" THEN 1 ELSE 0),
         Levels'
  PROVE  ScanInv'
<1>1. /\ asm = "parse" /\ push_state = "none" /\ start \in Conditions /\ Top # <<>>
      /\ Item \in Items /\ Item.k = k
  BY AtItem
<1>2. UNCHANGED <<push_state, s_macro_name, named, yyvsp>>
  BY DEF ScannerOnly, parseVars
<1>3. ScanTypes /\ Modes /\ Nested /\ MacrosOK /\ Levels /\ BinaryOK
  BY <1>1 DEF ScanInv
<1>4. ScanTypes'
  BY <1>1, <1>2, <1>3, ScanTypesNext DEF ScanTypes
<1>5. ~InMacro /\ ~InMacro'
  BY <1>1, <1>2 DEF InMacro, Conditions
<1>6. Len(chains') \in Nat /\ Len(start_stack') \in Nat /\ Len(yyvsp') = 0
  BY <1>2, <1>4 DEF ScanTypes
<1>7. Modes'
  <2>1. start' = "INITIAL" => Len(chains') \in {Len(start_stack'), Len(start_stack') + 1}
    BY <1>6
  <2>2. start' # "MACROO" /\ push_state' = "none" /\ yyvsp' = <<>>
    BY <1>1, <1>2 DEF Conditions
  <2> QED BY <1>5, <2>1, <2>2 DEF Modes
<1>8. Position'
  <2>1. PICK at \in Place : /\ GoesOn(at) /\ Accepts(Item, at)
                            /\ Path(Tail(Top), After(Item, at), Between)
    BY AtItem
  <2>2. After(Item, at) \in Place
    BY <1>1, <2>1, AfterPlace
  <2>3. ASSUME start' = "INITIAL" PROVE After(Item, at) = Here'
    <3>1. k \in {"ELIF", "ELSE", "ENDIF"} /\ ~IsExpression(Item)
      BY <1>1, <2>3 DEF IsExpression
    <3>2. After(Item, at) = [waiting |-> 0, condition |-> k = "ELIF"]
      <4>1. CASE k = "ELIF"
        <5>1. After(Item, at) = [waiting |-> 0, condition |-> TRUE]
          BY <1>1, <2>1, <4>1, AfterPlace
        <5>2. (k = "ELIF") = TRUE
          BY ONLY <4>1
        <5> QED BY <5>1, <5>2, Zenon
      <4>2. CASE k # "ELIF"
        <5>1. After(Item, at) = [waiting |-> 0, condition |-> FALSE]
          BY <1>1, <2>1, <3>1, <4>2, AfterPlace DEF Between
        <5>2. (k = "ELIF") = FALSE
          BY ONLY <4>2
        <5> QED BY <5>1, <5>2, Zenon
      <4> QED BY <4>1, <4>2
    <3>3. (Len(chains') > Len(start_stack')) = (k = "ELIF")
      BY <1>6, <2>3
    <3> QED BY <1>6, <3>2, <3>3, Zenon DEF Here
  <2>4. Top' = Tail(Top)
    BY <1>1, <1>3, ConsumedIs
  <2> QED BY <1>1, <1>2, <1>5, <2>1, <2>2, <2>3, <2>4, PositionNext
<1>9. Nested'
  BY <1>1, <1>3, NestedStays
<1>10. MacrosOK' /\ BinaryOK'
  BY <1>2, <1>3, <1>5 DEF MacrosOK, BinaryOK
<1> QED BY <1>4, <1>7, <1>8, <1>9, <1>10, ScanGoesOn

\* In front of .ELIF, .ELSE and .ENDIF the conditionals are those on the stack.
LEMMA AtDirective ==
  ASSUME ScanInv, NEW k \in {"ELIF", "ELSE", "ENDIF"},
         NEW conditions \in SUBSET Conditions, At(k, conditions)
  PROVE  yyvsp = <<>> /\ Len(chains) = Len(start_stack)
<1>1. /\ asm = "parse" /\ push_state = "none" /\ start \in Conditions
      /\ Item \in Items /\ Item.k = k
  BY AtItem
<1>2. ScanTypes /\ Modes
  BY <1>1 DEF ScanInv
<1>3. CASE start = "INITIAL"
  <2>1. At(k, {"INITIAL"})
    BY <1>3 DEF At
  <2>2. ~IsExpression(Item) /\ Takes(Item) = 0
    BY <1>1 DEF IsExpression, Takes
  <2>3. Len(yyvsp) = 0 /\ Len(chains) = Len(start_stack)
    BY <2>1, <2>2, AtStatement
  <2> QED BY <1>2, <2>3 DEF ScanTypes
<1>4. CASE start \in {"SKIP", "SKIP_ALL"}
  BY <1>2, <1>4 DEF Modes
<1> QED BY <1>1, <1>3, <1>4 DEF Conditions

\* A conditional that was to be taken off, or updated, but there was none.
LEMMA NoChains ==
  ASSUME Len(chains') = 0
  PROVE  OneBranchPerIf'
BY DEF OneBranchPerIf

LEMMA ScanElifHolds ==
  ASSUME ScanInv, ScanElif
  PROVE  ScanInv'
<1>1. PICK conditions \in SUBSET Conditions : At("ELIF", conditions) /\ buffers' = Consumed
  BY DEF ScanElif, Scan, Conditions
<1>2. asm = "parse" /\ push_state = "none" /\ start \in Conditions /\ Top # <<>>
  BY <1>1, AtItem
<1>3. ScanTypes /\ Modes /\ Levels /\ yyvsp = <<>> /\ Len(chains) = Len(start_stack)
  BY <1>1, <1>2, AtDirective DEF ScanInv
<1>4. PICK m \in Nat : m = Len(start_stack) /\ m = Len(chains)
  BY <1>3 DEF ScanTypes
<1>5. start_stack \in Seq(Conditions) /\ chains \in Seq(Chain) /\ m = Len(start_stack)
  BY <1>3, <1>4 DEF ScanTypes
<1> DEFINE old == Innermost
           new == [old EXCEPT !.ordered = @ /\ ~old.closed]
<1>6. m > 0 => /\ old \in Chain /\ new \in Chain /\ old = chains[m]
               /\ new.live = old.live /\ new.entered = old.entered /\ new.closed = old.closed
               /\ new.ordered = (old.ordered /\ ~old.closed)
  BY <1>3, <1>4, InnermostIs DEF Chain
<1>7. Update(new) /\ ScannerOnly
  BY DEF ScanElif
<1>8. chains' \in Seq(Chain) /\ Len(chains') = m
      /\ (\A n \in 1 .. m - 1 : chains'[n] = chains[n]) /\ (m > 0 => chains'[m] = new)
  BY <1>3, <1>4, <1>6, <1>7, UpdateIs
<1> HIDE DEF old, new
<1>9. m > 0 => Linked(old, Level(m), Level(m + 1)) /\ Level(m + 1) = start
  BY <1>3, <1>4, <1>6 DEF Levels, Level
<1>10. \/ start = "INITIAL" /\ start' = "SKIP_ALL" /\ UNCHANGED <<asm, start_stack>>
       \/ start = "SKIP" /\ Pop
  BY DEF ScanElif, Scan, At, Begin
<1>11. CASE start = "INITIAL" /\ start' = "SKIP_ALL" /\ UNCHANGED <<asm, start_stack>>
  <2>1. Levels'
    <3>1. CASE m = 0
      BY <1>8, <3>1 DEF Levels
    <3>2. CASE m > 0
      <4>0. start_stack' = start_stack /\ Len(start_stack') = m /\ start' = "SKIP_ALL"
        BY <1>5, <1>11
      <4>1. ASSUME NEW n \in 1 .. m PROVE Level(n)' = Level(n)
        BY <1>5, <4>0, <4>1 DEF Level
      <4>2. Level(m + 1)' = "SKIP_ALL"
        BY <1>5, <4>0 DEF Level
      <4>3. Linked(new, Level(m)', Level(m + 1)')
        <5>1. Linked(old, Level(m), "INITIAL") /\ Level(m)' = Level(m)
          BY <1>9, <1>11, <3>2, <4>1
        <5> QED BY <1>6, <3>2, <4>2, <5>1 DEF Linked, Chain
      <4>4. m - 1 \in Nat /\ m - 1 <= Len(chains) /\ Len(chains') = (m - 1) + 1
            /\ (m - 1) + 1 = m /\ (m - 1) + 2 = m + 1
        BY <1>4, <1>8, <3>2
      <4> QED BY <1>3, <1>8, <3>2, <4>1, <4>3, <4>4, LevelsKept
    <3> QED BY <3>1, <3>2
  <2>2. start' \in Conditions
    BY <1>11 DEF Conditions
  <2> QED BY <1>1, <1>3, <1>4, <1>5, <1>7, <1>8, <1>11, <2>1, <2>2, DirectiveHolds
<1>12. CASE start = "SKIP" /\ Pop
  <2>1. CASE start_stack = <<>> /\ asm' = "failed" /\ UNCHANGED <<start, start_stack>>
    <3>1. m = 0 /\ UNCHANGED <<push_state, named, yyvsp>>
      BY <1>4, <1>7, <2>1 DEF ScannerOnly, parseVars
    <3>2. ScanTypes'
      BY <1>1, <1>2, <1>3, <1>5, <1>8, <2>1, <3>1, ScanTypesNext DEF ScanTypes
    <3> QED BY <1>8, <2>1, <3>1, <3>2, NoChains, ScanEnds
  <2>2. CASE /\ Len(start_stack) > 0
             /\ start' = start_stack[Len(start_stack)] /\ start' \in Conditions
             /\ start_stack' \in Seq(Conditions)
             /\ Len(start_stack') = Len(start_stack) - 1
             /\ \A n \in 1 .. Len(start_stack) - 1 : start_stack'[n] = start_stack[n]
             /\ asm' = asm
    <3>1. m > 0 /\ push_state' = push_state
      BY <1>4, <1>7, <2>2 DEF ScannerOnly
    <3>a. /\ Len(start_stack') = m - 1 /\ start' = start_stack[m]
          /\ \A n \in 1 .. m - 1 : start_stack'[n] = start_stack[n]
      BY <1>5, <2>2
    <3>2. ASSUME NEW n \in 1 .. m PROVE Level(n)' = Level(n)
      <4>1. Level(n) = start_stack[n]
        BY <1>5, <3>2 DEF Level
      <4>2. Level(n)' = IF n <= m - 1 THEN start_stack'[n] ELSE start'
        BY <3>a, <3>2 DEF Level
      <4> QED BY <3>a, <3>2, <4>1, <4>2
    <3>3. Level(m) = start' /\ Level(m + 1)' = "none"
      <4>1. Level(m) = start_stack[m]
        BY <1>5, <3>1 DEF Level
      <4>2. Level(m + 1)' = push_state'
        BY <3>a DEF Level
      <4> QED BY <1>2, <3>a, <3>1, <4>1, <4>2
    <3>4. Linked(old, start', "SKIP") /\ Level(m)' = start'
      <4>1. m \in 1 .. m
        BY <3>1
      <4> QED BY <1>9, <1>12, <3>1, <3>2, <3>3, <4>1
    <3>5. start' = "INITIAL" /\ Linked(new, Level(m)', Level(m + 1)')
      BY <1>6, <3>1, <3>3, <3>4 DEF Linked, Chain
    <3>6. m - 1 \in Nat /\ m - 1 <= Len(chains) /\ Len(chains') = (m - 1) + 1
          /\ (m - 1) + 1 = m /\ (m - 1) + 2 = m + 1
      BY <1>4, <1>8, <3>1
    <3>7. Levels'
      BY <1>3, <1>8, <3>1, <3>2, <3>5, <3>6, LevelsKept
    <3>8. Len(chains') = Len(start_stack') + 1
      BY <1>8, <3>a
    <3> QED BY <1>1, <1>3, <1>7, <1>8, <2>2, <3>5, <3>7, <3>8, DirectiveHolds
  <2> QED BY <1>3, <1>12, <2>1, <2>2, PopIs
<1> QED BY <1>10, <1>11, <1>12

LEMMA ScanElseHolds ==
  ASSUME ScanInv, ScanElse
  PROVE  ScanInv'
<1>1. PICK conditions \in SUBSET Conditions : At("ELSE", conditions) /\ buffers' = Consumed
  BY DEF ScanElse, Scan, Conditions
<1>2. asm = "parse" /\ push_state = "none" /\ start \in Conditions /\ Top # <<>>
  BY <1>1, AtItem
<1>3. ScanTypes /\ Modes /\ Levels /\ yyvsp = <<>> /\ Len(chains) = Len(start_stack)
  BY <1>1, <1>2, AtDirective DEF ScanInv
<1>4. PICK m \in Nat : m = Len(start_stack) /\ m = Len(chains)
  BY <1>3 DEF ScanTypes
<1>5. start_stack \in Seq(Conditions) /\ chains \in Seq(Chain) /\ m = Len(start_stack)
  BY <1>3, <1>4 DEF ScanTypes
<1> DEFINE old == Innermost
<1>6. m > 0 => old \in Chain /\ old = chains[m]
  BY <1>3, <1>4, InnermostIs
<1>7. /\ ScannerOnly /\ UNCHANGED <<asm, start_stack>>
      /\ \/ /\ start = "INITIAL" /\ start' = "SKIP"
            /\ Update([old EXCEPT !.closed = TRUE, !.ordered = ~old.closed])
         \/ /\ start = "SKIP" /\ start' = "INITIAL"
            /\ Update([old EXCEPT !.closed = TRUE, !.ordered = ~old.closed,
                                  !.entered = @ + 1])
  BY DEF ScanElse, Scan, At, Begin
<1>8. start_stack' = start_stack /\ Len(start_stack') = m
  BY <1>5, <1>7
<1>9. m > 0 => Linked(old, Level(m), start)
  BY <1>3, <1>4, <1>5, <1>6 DEF Levels, Level
<1>10. PICK new :
         /\ Update(new)
         /\ m > 0 => /\ new \in Chain /\ new.live = old.live /\ new.closed
                     /\ (new.ordered <=> ~old.closed)
                     /\ new.entered = old.entered + (IF start = "SKIP" THEN 1 ELSE 0)
  <2>1. CASE start = "INITIAL"
    <3>1. PICK x \in BOOLEAN : x = ~old.closed
      OBVIOUS
    <3>2. PICK n : n = [old EXCEPT !.closed = TRUE, !.ordered = x]
      OBVIOUS
    <3>3. Update(n)
      BY <1>7, <2>1, <3>1, <3>2
    <3>4. m > 0 => /\ n \in Chain /\ n.live = old.live /\ n.closed /\ n.ordered = x
                   /\ n.entered = old.entered /\ old.entered + 0 = old.entered
      <4> SUFFICES ASSUME m > 0
                   PROVE  /\ n \in Chain /\ n.live = old.live /\ n.closed /\ n.ordered = x
                          /\ n.entered = old.entered /\ old.entered + 0 = old.entered
        OBVIOUS
      <4>1. PICK o \in Chain : o = old
        BY <1>6
      <4>2. n = [o EXCEPT !.closed = TRUE, !.ordered = x]
        BY <3>2, <4>1
      <4>3. n \in Chain /\ n.live = o.live /\ n.closed /\ n.ordered = x
            /\ n.entered = o.entered
        BY ONLY <4>2, o \in Chain, x \in BOOLEAN DEF Chain
      <4>4. o.entered \in Nat
        BY DEF Chain
      <4>5. o.entered + 0 = o.entered
        BY ONLY <4>4
      <4> QED BY <4>1, <4>3, <4>5
    <3> QED BY <2>1, <3>1, <3>3, <3>4
  <2>2. CASE start = "SKIP"
    <3>1. PICK x \in BOOLEAN : x = ~old.closed
      OBVIOUS
    <3>2. PICK n : n = [old EXCEPT !.closed = TRUE, !.ordered = x,
                                 !.entered = @ + 1]
      OBVIOUS
    <3>3. Update(n)
      BY <1>7, <2>2, <3>1, <3>2
    <3>4. m > 0 => /\ n \in Chain /\ n.live = old.live /\ n.closed /\ n.ordered = x
                   /\ n.entered = old.entered + 1
      <4> SUFFICES ASSUME m > 0
                   PROVE  /\ n \in Chain /\ n.live = old.live /\ n.closed /\ n.ordered = x
                          /\ n.entered = old.entered + 1
        OBVIOUS
      <4>1. PICK o \in Chain : o = old
        BY <1>6
      <4>2. o.entered \in Nat
        BY DEF Chain
      <4>3. PICK e \in Nat : e = o.entered + 1
        BY ONLY <4>2
      <4>4. n = [o EXCEPT !.closed = TRUE, !.ordered = x, !.entered = e]
        BY <3>2, <4>1, <4>3
      <4>5. n \in Chain /\ n.live = o.live /\ n.closed /\ n.ordered = x /\ n.entered = e
        BY ONLY <4>4, o \in Chain, x \in BOOLEAN, e \in Nat DEF Chain
      <4> QED BY <4>1, <4>3, <4>5
    <3> QED BY <2>2, <3>1, <3>3, <3>4
  <2> QED BY <1>7, <2>1, <2>2
<1> HIDE DEF old
<1>11. chains' \in Seq(Chain) /\ Len(chains') = m
       /\ (\A n \in 1 .. m - 1 : chains'[n] = chains[n]) /\ (m > 0 => chains'[m] = new)
  BY <1>3, <1>4, <1>10, UpdateIs
<1>12. start' \in Conditions /\ (start' = "INITIAL" \/ start' = "SKIP")
  BY <1>7 DEF Conditions
<1>13. Levels'
  <2>1. CASE m = 0
    BY <1>11, <2>1 DEF Levels
  <2>2. CASE m > 0
    <3>1. ASSUME NEW n \in 1 .. m PROVE Level(n)' = Level(n)
      BY <1>5, <1>8, <3>1 DEF Level
    <3>2. Level(m + 1)' = start'
      BY <1>8 DEF Level
    <3>3. m \in 1 .. m
      BY <2>2
    <3>4. Level(m)' = Level(m)
      BY <3>1, <3>3
    <3>5. Linked(new, Level(m), start')
      <4>1. CASE start = "INITIAL" /\ start' = "SKIP"
        BY <1>6, <1>9, <1>10, <2>2, <4>1 DEF Linked, Chain
      <4>2. CASE start = "SKIP" /\ start' = "INITIAL"
        BY <1>6, <1>9, <1>10, <2>2, <4>2 DEF Linked, Chain
      <4> QED BY <1>7, <4>1, <4>2
    <3>6. m - 1 \in Nat /\ m - 1 <= Len(chains) /\ Len(chains') = (m - 1) + 1
          /\ (m - 1) + 1 = m /\ (m - 1) + 2 = m + 1
      BY <1>4, <1>11, <2>2
    <3> QED BY <1>3, <1>11, <2>2, <3>1, <3>2, <3>4, <3>5, <3>6, LevelsKept
  <2> QED BY <2>1, <2>2
<1>14. asm' = asm /\ ScannerOnly
  BY <1>7
<1>15. Len(chains') = Len(start_stack') + (IF "ELSE" = "ELIF" THEN 1 ELSE 0)
       /\ Len(chains') = Len(start_stack')
  BY <1>8, <1>11
<1> QED BY <1>1, <1>3, <1>5, <1>8, <1>11, <1>12, <1>13, <1>14, <1>15, DirectiveHolds

LEMMA ScanEndifHolds ==
  ASSUME ScanInv, ScanEndif
  PROVE  ScanInv'
<1>1. PICK conditions \in SUBSET Conditions : At("ENDIF", conditions) /\ buffers' = Consumed
  BY DEF ScanEndif, Scan, Conditions
<1>2. asm = "parse" /\ push_state = "none" /\ start \in Conditions /\ Top # <<>>
  BY <1>1, AtItem
<1>3. ScanTypes /\ Modes /\ Levels /\ yyvsp = <<>> /\ Len(chains) = Len(start_stack)
  BY <1>1, <1>2, AtDirective DEF ScanInv
<1>4. PICK m \in Nat : m = Len(start_stack) /\ m = Len(chains)
  BY <1>3 DEF ScanTypes
<1>5. start_stack \in Seq(Conditions) /\ chains \in Seq(Chain) /\ m = Len(start_stack)
  BY <1>3, <1>4 DEF ScanTypes
<1>6. Pop /\ ScannerOnly /\ chains' = SubSeq(chains, 1, m - 1)
  BY <1>4 DEF ScanEndif
<1>7. CASE start_stack = <<>> /\ asm' = "failed" /\ UNCHANGED <<start, start_stack>>
  <2>1. m = 0 /\ UNCHANGED <<push_state, named, yyvsp>>
    BY <1>5, <1>6, <1>7 DEF ScannerOnly, parseVars
  <2>2. chains' \in Seq(Chain) /\ Len(chains') = 0
    BY <1>5, <1>6, <2>1
  <2>3. ScanTypes'
    BY <1>1, <1>2, <1>3, <1>5, <1>7, <2>1, <2>2, ScanTypesNext DEF ScanTypes
  <2> QED BY <1>7, <2>1, <2>2, <2>3, NoChains, ScanEnds
<1>8. CASE /\ Len(start_stack) > 0
           /\ start' = start_stack[Len(start_stack)] /\ start' \in Conditions
           /\ start_stack' \in Seq(Conditions)
           /\ Len(start_stack') = Len(start_stack) - 1
           /\ \A n \in 1 .. Len(start_stack) - 1 : start_stack'[n] = start_stack[n]
           /\ asm' = asm
  <2>1. /\ m > 0 /\ Len(start_stack') = m - 1 /\ start' = start_stack[m]
        /\ \A n \in 1 .. m - 1 : start_stack'[n] = start_stack[n]
    BY <1>5, <1>8
  <2>a. chains \in Seq(Chain) /\ m = Len(chains) /\ m > 0 /\ chains' = SubSeq(chains, 1, m - 1)
    BY <1>4, <1>5, <1>6, <2>1
  <2>2. chains' \in Seq(Chain) /\ Len(chains') = m - 1
        /\ \A n \in 1 .. m - 1 : chains'[n] = chains[n]
    BY ONLY <2>a, m \in Nat
  <2>3. ASSUME NEW n \in 1 .. m PROVE Level(n)' = Level(n)
    <3>1. Level(n) = start_stack[n]
      BY <1>5, <2>3 DEF Level
    <3>2. Level(n)' = IF n <= m - 1 THEN start_stack'[n] ELSE start'
      BY <2>1, <2>3 DEF Level
    <3> QED BY <2>1, <2>3, <3>1, <3>2
  <2>4. m - 1 \in Nat /\ m - 1 <= Len(chains) /\ (m - 1) + 1 = m
    BY <1>4, <2>1
  <2>5. Levels'
    BY <1>3, <2>2, <2>3, <2>4, LevelsKept
  <2>6. Len(chains') = Len(start_stack') + (IF "ENDIF" = "ELIF" THEN 1 ELSE 0)
        /\ Len(chains') = Len(start_stack')
    BY <2>1, <2>2
  <2> QED BY <1>1, <1>3, <1>6, <1>8, <2>2, <2>5, <2>6, DirectiveHolds
<1> QED BY <1>3, <1>6, <1>7, <1>8, PopIs

LEMMA SkipItemHolds ==
  ASSUME ScanInv, SkipItem
  PROVE  ScanInv'
<1>1. PICK conditions \in SUBSET Conditions :
        At(Item.k, conditions) /\ buffers' = Consumed /\ "INITIAL" \notin conditions
  BY DEF SkipItem, ScanOther, Scan, Conditions
<1>2. asm = "parse" /\ push_state = "none" /\ start \in Conditions /\ Top # <<>>
      /\ start # "INITIAL"
  BY <1>1, AtItem
<1>3. ScanTypes /\ Modes /\ Levels
  BY <1>2 DEF ScanInv
<1>4. UNCHANGED <<asm, start, start_stack, chains>> /\ ScannerOnly
  BY DEF SkipItem
<1>5. yyvsp = <<>> /\ Len(chains) = Len(start_stack) /\ UNCHANGED push_state
  BY <1>2, <1>3, <1>4 DEF Modes, ScannerOnly, Conditions
<1>6. Levels'
  BY <1>3, <1>4, <1>5 DEF Levels, Level
<1>7. start' \in Conditions /\ start' # "INITIAL" /\ asm' = asm
      /\ start_stack' \in Seq(Conditions) /\ chains' \in Seq(Chain)
      /\ Len(chains') = Len(start_stack')
  BY <1>2, <1>3, <1>4, <1>5 DEF ScanTypes
<1>8. ScannerOnly
  BY <1>4
<1> QED BY <1>1, <1>5, <1>6, <1>7, <1>8, DirectiveHolds

\* At the end of a source the one that included it goes on.
LEMMA EndOfBufferHolds ==
  ASSUME ScanInv, EndOfBuffer
  PROVE  ScanInv'
<1>1. /\ asm = "parse" /\ push_state = "none" /\ Top = <<>>
      /\ UNCHANGED <<start, start_stack, push_state, chains, s_macro_name, named, yyvsp>>
  BY DEF EndOfBuffer, Scanning, condVars, parseVars
<1>2. ScanTypes /\ Modes /\ Nested /\ MacrosOK /\ Levels /\ BinaryOK /\ OneBranchPerIf
  BY <1>1 DEF ScanInv
<1>3. PICK l \in Nat : l = Len(buffers) /\ l >= 1
  BY <1>2 DEF ScanTypes
<1>4. CASE l = 1
  <2>1. asm' = "output" /\ UNCHANGED buffers
    BY <1>3, <1>4 DEF EndOfBuffer
  <2> QED BY <1>1, <2>1, ScanStays DEF scanVars, condVars
<1>5. CASE l # 1
  <2>1. buffers' = SubSeq(buffers, 1, l - 1) /\ asm' = asm
    BY <1>3, <1>5 DEF EndOfBuffer
  <2>2. buffers' \in Seq(Seq(Items)) /\ Len(buffers') = l - 1 /\ l - 1 \in 1 .. l
        /\ \A n \in 1 .. l - 1 : buffers'[n] = buffers[n]
    BY <1>2, <1>3, <1>5, <2>1 DEF ScanTypes
  <2>a. Len(buffers') \in 1 .. MAX_SRC_BUFFER_DEPTH
    BY <1>2, <1>3, <2>2, BufferAssumption DEF ScanTypes
  <2>3. ScanTypes'
    BY <1>1, <1>2, <2>2, <2>a DEF ScanTypes
  <2>4. InMacro' = InMacro /\ Here' = Here /\ Top' = buffers[l - 1]
    BY <1>1, <2>2 DEF InMacro, Here, Top
  <2>5. Modes'
    BY <1>1, <1>2, <2>4 DEF Modes
  <2>6. Path(buffers[l - 1], Between, Between)
    BY <1>2, <1>3, <2>2 DEF Nested
  <2>7. Position'
    <3>1. PICK at \in Place : GoesOn(at)
      BY <1>1 DEF ScanInv, Position
    <3>2. Path(<<>>, at, Between)
      BY <1>1, <3>1 DEF GoesOn
    <3>3. at = Between
      BY <3>2, PathEnd
    <3> QED BY <1>1, <2>4, <2>6, <3>1, <3>3 DEF Position, GoesOn
  <2>8. Nested'
    <3> SUFFICES ASSUME NEW n \in 1 .. Len(buffers') - 1
                 PROVE  Path(buffers'[n], Between, Between)
      BY DEF Nested
    <3>1. n \in 1 .. l - 1 /\ n \in 1 .. Len(buffers) - 1
      BY <1>3, <2>2
    <3>2. buffers'[n] = buffers[n] /\ Path(buffers[n], Between, Between)
      BY <1>2, <2>2, <3>1 DEF Nested
    <3> QED BY <3>2
  <2>9. MacrosOK' /\ BinaryOK' /\ Levels'
    BY <1>1, <1>2, <2>4 DEF MacrosOK, BinaryOK, Levels, Level
  <2> QED BY <2>3, <2>5, <2>7, <2>8, <2>9, ScanGoesOn
<1> QED BY <1>4, <1>5

\* What the parts of an item are.
LEMMA ItemShape ==
  ASSUME NEW i \in Items
  PROVE  /\ i.k \in {"macro", "include"} => i.name \in STRING \ BinaryName
         /\ i.k \in {"incbin", "incword"} => i.name \in BinaryName
         /\ i.k = "incbin" => i.args \in 0 .. 2
         /\ i.k \in {"symref", "defined", "symbol", "label"} => i.name \in Name
         /\ i.k = "number" => i.n \in Word32
         /\ i.k = "op1" => i.op \in UnaryOp
         /\ i.k = "op2" => i.op \in BinaryOp
         /\ i.k = "op" => i.type \in DOMAIN OpSize /\ i.code \in 0 .. 255
         /\ i.k \in {"byte", "word"} => i.n \in Nat \ {0}
<1> DEFINE T == DOMAIN OpSize
           W == Word32
           U == UnaryOp
           B == BinaryOp
           S == STRING \ BinaryName
<1>1. i \in Items
  OBVIOUS
<1> HIDE DEF T, W, U, B, S
<1>2. \/ i \in [k : {"IF", "ELIF", "ELSE", "ENDIF", "if", "org", "res", "endmacro", "error"}]
      \/ i \in [k : {"number"}, n : W]
      \/ i \in [k : {"symref", "defined", "symbol", "label"}, name : Name]
      \/ i \in [k : {"op1"}, op : U]
      \/ i \in [k : {"op2"}, op : B]
      \/ i \in [k : {"incword"}, name : BinaryName]
      \/ i \in [k : {"incbin"}, name : BinaryName, args : 0 .. 2]
      \/ i \in [k : {"op"}, type : T, code : 0 .. 255]
      \/ i \in [k : {"byte", "word"}, n : Nat \ {0}]
      \/ i \in [k : {"macro", "include"}, name : S]
  BY <1>1, Zenon DEF Items, T, W, U, B, S
<1>3. /\ i.k \in {"macro", "include"} => i.name \in S
      /\ i.k \in {"incbin", "incword"} => i.name \in BinaryName
      /\ i.k = "incbin" => i.args \in 0 .. 2
      /\ i.k \in {"symref", "defined", "symbol", "label"} => i.name \in Name
      /\ i.k = "number" => i.n \in W
      /\ i.k = "op1" => i.op \in U
      /\ i.k = "op2" => i.op \in B
      /\ i.k = "op" => i.type \in T /\ i.code \in 0 .. 255
      /\ i.k \in {"byte", "word"} => i.n \in Nat \ {0}
  BY <1>2
<1> QED BY <1>3 DEF T, W, U, B, S

LEMMA StoreIs ==
  ASSUME NEW name, NEW content, named' = Store(name, content)
  PROVE  /\ DOMAIN named' = DOMAIN named \cup {name}
         /\ named'[name] = content
         /\ \A n \in DOMAIN named : n # name => named'[n] = named[n]
BY DEF Store

\* A rule ends the assembler.
LEMMA ExitHolds ==
  ASSUME ScanInv, Top # <<>>, buffers' = Consumed, Exit
  PROVE  ScanInv'
<1>1. /\ asm' # "parse"
      /\ UNCHANGED <<start, start_stack, push_state, chains, named, yyvsp>>
  BY DEF Exit, condVars, parseVars
<1>2. ScanTypes'
  BY <1>1, ScanTypesNext DEF ScanInv, ScanTypes
<1>3. OneBranchPerIf'
  BY <1>1 DEF ScanInv, OneBranchPerIf
<1> QED BY <1>1, <1>2, <1>3, ScanEnds

\* In front of a statement of its own.
LEMMA AtOwn ==
  ASSUME ScanInv, NEW k \in {"macro", "include"}, At(k, {"INITIAL"})
  PROVE  /\ asm = "parse" /\ push_state = "none" /\ start = "INITIAL" /\ Top # <<>>
         /\ ~InMacro /\ yyvsp = <<>> /\ Len(chains) = Len(start_stack)
         /\ Item.name \in STRING \ BinaryName
         /\ Path(Tail(Top), Between, Between)
<1>1. /\ asm = "parse" /\ push_state = "none" /\ start = "INITIAL" /\ Top # <<>>
      /\ Item \in Items /\ Item.k = k /\ Accepts(Item, Here)
      /\ Path(Tail(Top), After(Item, Here), Between)
  BY AtItem
<1>2. ~IsExpression(Item) /\ Takes(Item) = 0 /\ k # "if" /\ k \notin {"IF", "ELIF"}
  BY <1>1 DEF IsExpression, Takes
<1>3. Len(yyvsp) = 0 /\ Len(chains) = Len(start_stack)
  BY <1>2, AtStatement
<1>4. ScanTypes
  BY DEF ScanInv
<1>5. Here \in Place
  BY <1>4, HerePlace
<1>6. After(Item, Here) = Between
  BY <1>1, <1>2, <1>5, AfterPlace
<1>7. Item.name \in STRING \ BinaryName
  BY <1>1, ItemShape
<1>8. yyvsp = <<>>
  BY <1>3, <1>4 DEF ScanTypes
<1> QED BY <1>1, <1>3, <1>6, <1>7, <1>8 DEF InMacro

LEMMA PushMacroStateHolds ==
  ASSUME ScanInv, PushMacroState
  PROVE  ScanInv'
<1>1. At("macro", {"INITIAL"}) /\ buffers' = Consumed
  BY DEF PushMacroState, Reduce, Scan
<1>2. /\ asm = "parse" /\ push_state = "none" /\ start = "INITIAL" /\ Top # <<>>
      /\ ~InMacro /\ yyvsp = <<>> /\ Len(chains) = Len(start_stack)
      /\ Item.name \in STRING \ BinaryName
      /\ Path(Tail(Top), Between, Between)
  BY <1>1, AtOwn
<1>3. CASE Item.name \in DOMAIN named
  BY <1>1, <1>2, <1>3, ExitHolds DEF PushMacroState
<1>4. CASE Item.name \notin DOMAIN named
  <2>1. /\ s_macro_name' = Item.name /\ push_state' = "MACROO"
        /\ named' = Store(Item.name, <<>>) /\ asm' = asm
        /\ UNCHANGED <<start, start_stack, chains, yyvsp>>
    BY <1>4 DEF PushMacroState, exprVars, parseVars
  <2>2. ScanTypes /\ Modes /\ Nested /\ MacrosOK /\ Levels /\ BinaryOK
    BY <1>2 DEF ScanInv
  <2>3. /\ DOMAIN named' = DOMAIN named \cup {Item.name} /\ named'[Item.name] = <<>>
        /\ \A n \in DOMAIN named : named'[n] = named[n]
    BY <1>4, <2>1, StoreIs
  <2>4. ScanTypes'
    BY <1>1, <1>2, <2>1, <2>2, ScanTypesNext DEF ScanTypes
  <2>5. InMacro'
    BY <2>1 DEF InMacro
  <2>6. Modes'
    BY <1>2, <2>1, <2>3 DEF Modes
  <2>7. Position'
    <3>1. Top' = Tail(Top)
      BY <1>1, <1>2, <2>2, ConsumedIs
    <3>2. Between \in Place
      BY DEF Between, Place
    <3>3. Path(<<>>, Between, Between)
      BY PathEnd
    <3> QED BY <1>2, <2>1, <2>3, <3>1, <3>2, <3>3 DEF Position, GoesOn
  <2>8. Nested'
    BY <1>1, <1>2, <2>2, NestedStays
  <2>9. MacrosOK'
    <3> SUFFICES ASSUME NEW n \in DOMAIN named' \ BinaryName, n # s_macro_name'
                 PROVE  Path(named'[n], Between, Between)
      BY <2>5 DEF MacrosOK
    <3>1. n \in DOMAIN named \ BinaryName
      BY <2>1, <2>3
    <3> QED BY <1>2, <2>2, <2>3, <3>1 DEF MacrosOK
  <2>10. BinaryOK'
    BY <1>2, <2>2, <2>3 DEF BinaryOK
  <2>11. Levels'
    <3>1. ASSUME NEW n \in 1 .. Len(chains) + 1 PROVE Level(n)' = Level(n)
      <4>1. n \in Nat /\ n <= Len(start_stack) + 1 /\ Len(start_stack) \in Nat
        BY <1>2, <2>2, <3>1 DEF ScanTypes
      <4>2. ~(n > Len(start_stack) + 1)
        BY <4>1
      <4> QED BY <2>1, <4>1, <4>2 DEF Level
    <3>2. chains' = chains /\ chains' \in Seq(Chain) /\ Len(chains) \in Nat
      BY <2>1, <2>2 DEF ScanTypes
    <3> QED BY <2>2, <3>1, <3>2, LevelsKept
  <2> QED BY <2>4, <2>6, <2>7, <2>8, <2>9, <2>10, <2>11, ScanGoesOn
<1> QED BY <1>3, <1>4

LEMMA IncludeHolds ==
  ASSUME ScanInv, Include
  PROVE  ScanInv'
<1>1. At("include", {"INITIAL"})
  BY DEF Include
<1>2. /\ asm = "parse" /\ push_state = "none" /\ start = "INITIAL" /\ Top # <<>>
      /\ ~InMacro /\ yyvsp = <<>> /\ Len(chains) = Len(start_stack)
      /\ Item.name \in STRING \ BinaryName
      /\ Path(Tail(Top), Between, Between)
  BY <1>1, AtOwn
<1>3. CASE ~Exists(Item.name) \/ Len(buffers) = MAX_SRC_BUFFER_DEPTH
  BY <1>2, <1>3, ExitHolds DEF Include
<1>4. CASE Exists(Item.name) /\ Len(buffers) # MAX_SRC_BUFFER_DEPTH
  <2>1. /\ named' = Store(Item.name, Content(Item.name)) /\ asm' = asm
        /\ buffers' = Append(Consumed, Content(Item.name))
        /\ UNCHANGED <<start, start_stack, push_state, chains, s_macro_name, yyvsp>>
    BY <1>4 DEF Include, GetNamedBuffer, exprVars, condVars, parseVars
  <2>2. ScanTypes /\ Modes /\ Nested /\ MacrosOK /\ Levels /\ BinaryOK
    BY <1>2 DEF ScanInv
  <2>3. Path(Content(Item.name), Between, Between)
    <3>1. CASE Item.name \in DOMAIN named
      BY <1>2, <2>2, <3>1 DEF Content, MacrosOK
    <3>2. CASE Item.name \notin DOMAIN named
      <4>1. Item.name \in DOMAIN Files /\ Content(Item.name) = Files[Item.name]
        BY <1>4, <3>2 DEF Exists, Content
      <4>2. Text(Files[Item.name])
        BY <1>2, <4>1, SourceAssumption
      <4> QED BY <4>1, <4>2, TextPath
    <3> QED BY <3>1, <3>2
  <2>4. PICK new \in Seq(Items) : new = Content(Item.name)
    BY <2>3 DEF Path
  <2>5. /\ Content(Item.name) = new /\ Path(new, Between, Between)
        /\ DOMAIN named' = DOMAIN named \cup {Item.name} /\ named'[Item.name] = new
        /\ \A n \in DOMAIN named : n # Item.name => named'[n] = named[n]
    BY <2>1, <2>3, <2>4, StoreIs
  <2>6. PICK l \in Nat : l = Len(buffers) /\ l >= 1 /\ l < MAX_SRC_BUFFER_DEPTH
    BY <1>4, <2>2, BufferAssumption DEF ScanTypes
  <2>7. PICK c : c = Consumed
    OBVIOUS
  <2>8. /\ c \in Seq(Seq(Items)) /\ Len(c) = l /\ c[l] = Tail(Top)
        /\ \A n \in 1 .. l - 1 : c[n] = buffers[n]
    <3>1. buffers \in Seq(Seq(Items)) /\ Top = buffers[l] /\ buffers[l] # <<>>
      BY <1>2, <2>2, <2>6 DEF ScanTypes, Top
    <3>2. Tail(buffers[l]) \in Seq(Items) /\ c = [buffers EXCEPT ![l] = Tail(buffers[l])]
      BY <2>6, <2>7, <3>1 DEF Consumed
    <3> QED BY <2>6, <3>1, <3>2
  <2>9. /\ buffers' \in Seq(Seq(Items)) /\ Len(buffers') = l + 1 /\ buffers'[l + 1] = new
        /\ \A n \in 1 .. l : buffers'[n] = c[n]
    BY <2>1, <2>5, <2>6, <2>7, <2>8
  <2>10. ScanTypes'
    BY <2>1, <2>2, <2>6, <2>9, BufferAssumption DEF ScanTypes
  <2>11. InMacro' = InMacro /\ Here' = Here /\ Top' = new
    BY <2>1, <2>9 DEF InMacro, Here, Top
  <2>12. Modes'
    BY <1>2, <2>1, <2>2, <2>11 DEF Modes
  <2>13. Here = Between
    <3>1. Here \in Place /\ Here.waiting = 0
      BY <1>2, <2>2, HerePlace DEF Here
    <3>2. ~Here.condition
      <4>1. ~(Len(chains) > Len(start_stack))
        BY <1>2, <2>2 DEF ScanTypes
      <4>2. Here.condition = (Len(chains) > Len(start_stack))
        BY DEF Here
      <4> QED BY <4>1, <4>2
    <3> QED BY <3>1, <3>2, PlaceBetween
  <2>14. Position'
    <3>1. Between \in Place
      BY DEF Between, Place
    <3> QED BY <1>2, <2>5, <2>11, <2>13, <3>1 DEF Position, GoesOn
  <2>15. Nested'
    <3> SUFFICES ASSUME NEW n \in 1 .. Len(buffers') - 1
                 PROVE  Path(buffers'[n], Between, Between)
      BY DEF Nested
    <3>1. n \in 1 .. l
      BY <2>6, <2>9
    <3>2. CASE n = l
      BY <1>2, <2>8, <2>9, <3>1, <3>2
    <3>3. CASE n # l
      <4>1. n \in 1 .. l - 1 /\ n \in 1 .. Len(buffers) - 1
        BY <2>6, <3>1, <3>3
      <4>2. buffers'[n] = buffers[n] /\ Path(buffers[n], Between, Between)
        BY <2>2, <2>8, <2>9, <3>1, <4>1 DEF Nested
      <4> QED BY <4>2
    <3> QED BY <3>2, <3>3
  <2>16. MacrosOK'
    <3> SUFFICES ASSUME NEW n \in DOMAIN named' \ BinaryName
                 PROVE  Path(named'[n], Between, Between)
      BY DEF MacrosOK
    <3>1. CASE n = Item.name
      BY <2>5, <3>1
    <3>2. CASE n # Item.name
      <4>1. n \in DOMAIN named \ BinaryName /\ named'[n] = named[n]
        BY <2>5, <3>2
      <4> QED BY <1>2, <2>2, <4>1 DEF MacrosOK
    <3> QED BY <3>1, <3>2
  <2>17. BinaryOK'
    BY <1>2, <2>2, <2>5 DEF BinaryOK
  <2>18. Levels'
    BY <2>1, <2>2 DEF Levels, Level
  <2> QED BY <2>10, <2>12, <2>14, <2>15, <2>16, <2>17, <2>18, ScanGoesOn
<1> QED BY <1>3, <1>4

LEMMA MacroAppendHolds ==
  ASSUME ScanInv, MacroAppend
  PROVE  ScanInv'
<1>1. At(Item.k, {"MACROO"}) /\ buffers' = Consumed /\ Top # <<>>
  BY DEF MacroAppend, ScanOther, Scan
<1>2. /\ asm = "parse" /\ push_state = "none" /\ start = "MACROO" /\ Item \in Items
  BY <1>1, AtItem
<1>3. PICK at \in Place : /\ GoesOn(at) /\ Accepts(Item, at)
                          /\ Path(Tail(Top), After(Item, at), Between)
  BY <1>1, AtItem
<1>4. /\ named' = [named EXCEPT ![s_macro_name] = Append(named[s_macro_name], Item)]
      /\ asm' = asm
      /\ UNCHANGED <<start, start_stack, push_state, chains, s_macro_name, yyvsp>>
  BY DEF MacroAppend, exprVars, condVars, parseVars
<1>5. ScanTypes /\ Modes /\ Nested /\ MacrosOK /\ Levels /\ BinaryOK
  BY <1>2 DEF ScanInv
<1>6. InMacro /\ InMacro' /\ s_macro_name \in DOMAIN named \ BinaryName
  BY <1>2, <1>4, <1>5 DEF InMacro, Modes
<1>7. /\ DOMAIN named' = DOMAIN named
      /\ named'[s_macro_name] = Append(named[s_macro_name], Item)
      /\ \A n \in DOMAIN named : n # s_macro_name => named'[n] = named[n]
  BY <1>4, <1>6, Zenon
<1>8. Path(named'[s_macro_name], Between, After(Item, at))
  <2>1. PICK text : text = named[s_macro_name]
    OBVIOUS
  <2>2. Path(text, Between, at)
    BY <1>3, <1>6, <2>1 DEF GoesOn
  <2>3. Path(Append(text, Item), Between, After(Item, at))
    BY <1>2, <1>3, <2>2, PathAppend
  <2> QED BY <1>7, <2>1, <2>3
<1>9. ScanTypes'
  BY <1>1, <1>4, <1>5, ScanTypesNext DEF ScanTypes
<1>10. Modes'
  BY <1>2, <1>4, <1>5, <1>6, <1>7 DEF Modes
<1>11. Position'
  <2>1. After(Item, at) \in Place
    BY <1>2, <1>3, AfterPlace
  <2>2. Top' = Tail(Top)
    BY <1>1, <1>5, ConsumedIs
  <2> QED BY <1>2, <1>3, <1>4, <1>8, <2>1, <2>2 DEF Position, GoesOn
<1>12. Nested'
  BY <1>1, <1>5, NestedStays
<1>13. MacrosOK' /\ BinaryOK' /\ Levels'
  BY <1>4, <1>5, <1>6, <1>7 DEF MacrosOK, BinaryOK, Levels, Level
<1> QED BY <1>9, <1>10, <1>11, <1>12, <1>13, ScanGoesOn

LEMMA EndMacroHolds ==
  ASSUME ScanInv, EndMacro
  PROVE  ScanInv'
<1>1. At("endmacro", {"MACROO"}) /\ buffers' = Consumed
  BY DEF EndMacro, Scan
<1>2. /\ asm = "parse" /\ push_state = "none" /\ start = "MACROO" /\ Item \in Items
      /\ Item.k = "endmacro" /\ Top # <<>>
  BY <1>1, AtItem
<1>3. PICK at \in Place : /\ GoesOn(at) /\ Accepts(Item, at)
                          /\ Path(Tail(Top), After(Item, at), Between)
  BY <1>1, AtItem
<1>4. Pop /\ UNCHANGED <<push_state, chains, s_macro_name, named, yyvsp>>
  BY DEF EndMacro, ScannerOnly, parseVars
<1>5. ScanTypes /\ Modes /\ Nested /\ MacrosOK /\ Levels /\ BinaryOK
  BY <1>2 DEF ScanInv
<1>6. at = Between /\ After(Item, at) = Between
  <2>1. ~IsExpression(Item) /\ Takes(Item) = 0 /\ Item.k # "if"
        /\ Item.k \notin {"IF", "ELIF"}
    BY <1>2 DEF IsExpression, Takes
  <2>2. at.waiting = 0 /\ (at.condition = (Item.k = "if"))
    BY <1>3, <2>1 DEF Accepts
  <2>3. ~at.condition
    BY <2>1, <2>2
  <2>4. After(Item, at) = Between
    BY <1>2, <1>3, <2>1, AfterPlace
  <2> QED BY <2>2, <2>3, <2>4, PlaceBetween
<1>7. Len(chains) = Len(start_stack) - 1 /\ yyvsp = <<>> /\ InMacro
  BY <1>2, <1>5 DEF Modes, InMacro
<1>8. PICK m \in Nat : m = Len(start_stack)
  BY <1>5 DEF ScanTypes
<1>9. m > 0 /\ start_stack # <<>> /\ Len(chains) = m - 1
  <2>1. Len(chains) \in Nat
    BY <1>5 DEF ScanTypes
  <2> QED BY <1>7, <1>8, <2>1
<1>10. /\ start' = start_stack[m] /\ start' \in Conditions
       /\ start_stack' \in Seq(Conditions) /\ Len(start_stack') = m - 1
       /\ \A n \in 1 .. m - 1 : start_stack'[n] = start_stack[n]
       /\ asm' = asm
  BY <1>4, <1>5, <1>8, <1>9, PopIs
<1>11. ScanTypes'
  BY <1>1, <1>2, <1>4, <1>5, <1>10, ScanTypesNext DEF ScanTypes
<1>12. ~InMacro'
  BY <1>2, <1>4, <1>10 DEF InMacro, Conditions
<1>13. Modes'
  <2>1. Len(chains') = Len(start_stack') /\ yyvsp' = <<>> /\ push_state' = "none"
        /\ start' # "MACROO"
    BY <1>2, <1>4, <1>7, <1>9, <1>10 DEF Conditions
  <2> QED BY <1>12, <2>1 DEF Modes
<1>14. Position'
  <2>1. Between \in Place
    BY DEF Between, Place
  <2>2. Here' = Between
    <3>1. Here' \in Place
      <4>1. ScanTypes => Here \in Place
        BY HerePlace
      <4>2. ScanTypes' => (Here \in Place)'
        BY <4>1, HerePlace, PTL
      <4> QED BY <1>11, <4>2 DEF Place
    <3>2. Here'.waiting = 0
      BY <1>4, <1>7 DEF Here
    <3>3. ~Here'.condition
      <4>1. ~(Len(chains') > Len(start_stack'))
        BY <1>4, <1>9, <1>10
      <4>2. Here'.condition = (Len(chains') > Len(start_stack'))
        BY DEF Here
      <4> QED BY <4>1, <4>2
    <3> QED BY <3>1, <3>2, <3>3, PlaceBetween
  <2>3. Path(Tail(Top), Between, Between)
    BY <1>3, <1>6
  <2>4. Top' = Tail(Top)
    BY <1>1, <1>2, <1>5, ConsumedIs
  <2> QED BY <1>12, <2>1, <2>2, <2>3, <2>4, PositionNext
<1>15. Nested'
  BY <1>1, <1>2, <1>5, NestedStays
<1>16. MacrosOK' /\ BinaryOK'
  <2>1. Path(named[s_macro_name], Between, Between)
    BY <1>3, <1>6, <1>7 DEF GoesOn
  <2>2. \A n \in DOMAIN named \ BinaryName : Path(named[n], Between, Between)
    BY <1>5, <2>1 DEF MacrosOK
  <2> QED BY <1>4, <1>5, <2>2 DEF MacrosOK, BinaryOK
<1>17. Levels'
  <2>1. ASSUME NEW n \in 1 .. m PROVE Level(n)' = Level(n)
    <3>1. Level(n) = start_stack[n]
      BY <1>8, <2>1 DEF Level
    <3>2. Level(n)' = IF n <= m - 1 THEN start_stack'[n] ELSE start'
      BY <1>10, <2>1 DEF Level
    <3> QED BY <1>10, <2>1, <3>1, <3>2
  <2>2. m - 1 \in Nat /\ m - 1 <= Len(chains) /\ (m - 1) + 1 = m
    BY <1>9
  <2>3. chains' = chains /\ chains' \in Seq(Chain) /\ Len(chains') = m - 1
    BY <1>4, <1>5, <1>9 DEF ScanTypes
  <2> QED BY <1>5, <2>1, <2>2, <2>3, LevelsKept
<1> QED BY <1>11, <1>13, <1>14, <1>15, <1>16, <1>17, ScanGoesOn

LEMMA AsmErrorHolds ==
  ASSUME ScanInv, AsmError
  PROVE  ScanInv'
<1>1. Top # <<>> /\ buffers' = Consumed /\ Exit
  BY DEF AsmError, Reduce, Scan, At
<1> QED BY <1>1, ExitHolds

LEMMA PushIfStateHolds ==
  ASSUME ScanInv, PushIfState
  PROVE  ScanInv'
<1>1. At("if", {"INITIAL"}) /\ buffers' = Consumed
  BY DEF PushIfState, Reduce, Scan
<1>2. /\ asm = "parse" /\ push_state = "none" /\ start = "INITIAL" /\ Top # <<>>
      /\ Item \in Items /\ Item.k = "if" /\ Accepts(Item, Here)
      /\ Path(Tail(Top), After(Item, Here), Between)
  BY <1>1, AtItem
<1>3. ~IsExpression(Item) /\ Takes(Item) = 1 /\ Item.k \notin {"IF", "ELIF"}
  BY <1>2 DEF IsExpression, Takes
<1>4. Len(yyvsp) = 1 /\ Len(chains) = Len(start_stack) + 1
  BY <1>1, <1>3, AtStatement
<1>5. ScanTypes /\ Modes /\ Nested /\ MacrosOK /\ Levels /\ BinaryOK
  BY <1>2 DEF ScanInv
<1>6. After(Item, Here) = Between
  BY <1>2, <1>3, <1>5, HerePlace, AfterPlace
<1>7. /\ UNCHANGED <<asm, start, start_stack, s_macro_name, named>>
      /\ yyvsp' = SubSeq(yyvsp, 1, Len(yyvsp) - 1)
      /\ \/ push_state' = "INITIAL" /\ Update([Innermost EXCEPT !.entered = @ + 1])
         \/ push_state' = "SKIP" /\ UNCHANGED chains
  BY DEF PushIfState, exprVars, Popped
<1>8. yyvsp' = <<>>
  BY <1>4, <1>5, <1>7 DEF ScanTypes
<1>9. PICK m \in Nat : m = Len(start_stack)
  BY <1>5 DEF ScanTypes
<1>10. Len(chains) = m + 1 /\ chains[m + 1] \in Chain /\ Innermost = chains[m + 1]
  BY <1>4, <1>5, <1>9, InnermostIs DEF ScanTypes
<1>11. Linked(chains[m + 1], "INITIAL", "none")
  <2>1. m + 1 \in 1 .. Len(chains) /\ Level(m + 1) = "INITIAL" /\ Level(m + 1 + 1) = "none"
    BY <1>2, <1>9, <1>10 DEF Level
  <2> QED BY <1>5, <2>1 DEF Levels
<1>12. /\ chains' \in Seq(Chain) /\ Len(chains') = m + 1
       /\ \A n \in 1 .. m : chains'[n] = chains[n]
       /\ Linked(chains'[m + 1], "INITIAL", push_state')
  <2>1. CASE push_state' = "INITIAL" /\ Update([Innermost EXCEPT !.entered = @ + 1])
    <3>1. PICK o \in Chain : o = Innermost
      BY <1>10
    <3>2. o.entered \in Nat
      BY DEF Chain
    <3>3. PICK e \in Nat : e = o.entered + 1
      BY ONLY <3>2
    <3>4. PICK c : c = [o EXCEPT !.entered = e]
      OBVIOUS
    <3>5. Update(c)
      BY <2>1, <3>1, <3>3, <3>4
    <3>6. c \in Chain /\ c.live = o.live /\ c.closed = o.closed /\ c.ordered = o.ordered
          /\ c.entered = e
      BY ONLY <3>4, o \in Chain, e \in Nat DEF Chain
    <3>7. chains' \in Seq(Chain) /\ Len(chains') = m + 1
          /\ (\A n \in 1 .. m : chains'[n] = chains[n]) /\ chains'[m + 1] = c
      BY <1>5, <1>10, <3>5, <3>6, UpdateIs
    <3>8. Linked(c, "INITIAL", "INITIAL")
      <4>1. Linked(o, "INITIAL", "none")
        BY <1>10, <1>11, <3>1
      <4> QED BY <3>2, <3>3, <3>6, <4>1 DEF Linked, Chain
    <3> QED BY <2>1, <3>7, <3>8
  <2>2. CASE push_state' = "SKIP" /\ UNCHANGED chains
    <3>1. Linked(chains[m + 1], "INITIAL", "SKIP")
      BY <1>11 DEF Linked
    <3> QED BY <1>5, <1>10, <2>2, <3>1 DEF ScanTypes
  <2> QED BY <1>7, <2>1, <2>2
<1>13. push_state' \in {"INITIAL", "SKIP"}
  BY <1>7
<1>14. ScanTypes'
  <2>1. start' \in Conditions \cup {"MACROO"} /\ start_stack' \in Seq(Conditions)
    BY <1>5, <1>7 DEF ScanTypes
  <2>2. push_state' \in {"none", "INITIAL", "SKIP", "MACROO"} /\ yyvsp' \in Seq(Nat)
    BY <1>8, <1>13
  <2>3. chains' \in Seq(Chain)
    BY <1>12
  <2> QED BY <1>1, <1>2, <1>5, <2>1, <2>2, <2>3, ScanTypesNext
<1>15. ~InMacro /\ ~InMacro'
  BY <1>2, <1>7, <1>13 DEF InMacro
<1>16. Modes'
  BY <1>2, <1>7, <1>8, <1>9, <1>12, <1>13, <1>15 DEF Modes
<1>17. Position'
  <2>1. Between \in Place
    BY DEF Between, Place
  <2>2. Top' = Tail(Top)
    BY <1>1, <1>2, <1>5, ConsumedIs
  <2> QED BY <1>2, <1>6, <1>13, <1>15, <2>1, <2>2, PositionNext
<1>18. Nested'
  BY <1>1, <1>2, <1>5, NestedStays
<1>19. MacrosOK' /\ BinaryOK'
  BY <1>5, <1>7, <1>15 DEF MacrosOK, BinaryOK
<1>20. Levels'
  <2>1. start_stack' = start_stack /\ start' = start /\ Len(start_stack') = m
    BY <1>7, <1>9
  <2>2. ASSUME NEW n \in 1 .. m + 1 PROVE Level(n)' = Level(n)
    <3>1. ~(n > m + 1) /\ n \in Int
      BY <2>2
    <3> QED BY <1>9, <2>1, <3>1 DEF Level
  <2>3. Level(m + 1)' = "INITIAL" /\ Level(m + 2)' = push_state'
    BY <1>2, <2>1 DEF Level
  <2>4. m \in Nat /\ m <= Len(chains)
    BY <1>10
  <2> QED BY <1>5, <1>12, <2>2, <2>3, <2>4, LevelsKept
<1> QED BY <1>14, <1>16, <1>17, <1>18, <1>19, <1>20, ScanGoesOn

-----------------------------------------------------------------------------
(***************************************************************************)
(* Rules that make expressions, symbols and atoms: they leave the scanner  *)
(* alone, and add to the pool.                                             *)
(***************************************************************************)
\* The values on the stack fit what the grammar is then waiting for.
LEMMA ReduceHolds ==
  ASSUME ScanInv, NEW k, At(k, {"INITIAL"}), k \notin {"IF", "ELIF", "if"},
         buffers' = Consumed, asm' = asm, ScanFrame,
         yyvsp' \in Seq(Nat), Len(yyvsp') = After(Item, Here).waiting,
         \A n \in DOMAIN named : n \in DOMAIN named' /\ named'[n] = named[n],
         \A n \in DOMAIN named' : n \in DOMAIN named \cup BinaryName,
         BinaryOK'
  PROVE  ScanInv'
<1>1. /\ asm = "parse" /\ push_state = "none" /\ start = "INITIAL" /\ Top # <<>>
      /\ Item \in Items /\ Item.k = k /\ Accepts(Item, Here)
      /\ Path(Tail(Top), After(Item, Here), Between)
  BY AtItem
<1>2. UNCHANGED <<start, start_stack, push_state, chains, s_macro_name>>
  BY DEF ScanFrame, condVars
<1>3. ScanTypes /\ Modes /\ Nested /\ MacrosOK /\ Levels
  BY <1>1 DEF ScanInv
<1>4. ScanTypes'
  BY <1>1, <1>2, <1>3, ScanTypesNext DEF ScanTypes
<1>5. ~InMacro /\ ~InMacro'
  BY <1>1, <1>2 DEF InMacro
<1>6. Modes'
  BY <1>1, <1>2, <1>3, <1>5 DEF Modes
<1>7. Here \in Place
  BY <1>3, HerePlace
<1>8. Position'
  <2>1. After(Item, Here) \in Place
    BY <1>1, <1>7, AfterPlace
  <2>2. After(Item, Here).condition = Here.condition
    <3>1. CASE IsExpression(Item)
      <4>1. After(Item, Here) = [waiting |-> Here.waiting - Takes(Item) + 1,
                                 condition |-> Here.condition]
        BY <1>1, <1>7, <3>1, AfterPlace
      <4> QED BY <4>1
    <3>2. CASE ~IsExpression(Item)
      <4>1. After(Item, Here) = Between
        BY <1>1, <1>7, <3>2, AfterPlace
      <4>2. Here.condition = (Item.k = "if")
        BY <1>1, <3>2 DEF Accepts
      <4>3. (Item.k = "if") = FALSE
        BY <1>1
      <4>4. Here.condition = FALSE
        BY <4>2, <4>3, Zenon
      <4>5. Between.condition = FALSE
        BY DEF Between
      <4> QED BY <4>1, <4>4, <4>5, Zenon
    <3> QED BY <3>1, <3>2
  <2>3. Here' = [waiting |-> Len(yyvsp'), condition |-> Len(chains) > Len(start_stack)]
    BY <1>2 DEF Here
  <2>4. Here.condition = (Len(chains) > Len(start_stack))
    BY DEF Here
  <2>5. After(Item, Here) = [waiting |-> After(Item, Here).waiting,
                             condition |-> After(Item, Here).condition]
    <3> DEFINE a == After(Item, Here)
    <3>1. a \in Place
      BY <2>1
    <3> HIDE DEF a
    <3>2. a = [waiting |-> a.waiting, condition |-> a.condition]
      BY <3>1 DEF Place
    <3> QED BY <3>2 DEF a
  <2>6. After(Item, Here) = Here'
    BY <2>2, <2>3, <2>4, <2>5, Zenon
  <2>7. Top' = Tail(Top)
    BY <1>1, <1>3, ConsumedIs
  <2> QED BY <1>1, <1>2, <1>5, <2>1, <2>6, <2>7, PositionNext
<1>9. Nested'
  BY <1>1, <1>3, NestedStays
<1>10. MacrosOK'
  <2> SUFFICES ASSUME NEW n \in DOMAIN named' \ BinaryName
               PROVE  Path(named'[n], Between, Between)
    BY DEF MacrosOK
  <2>1. n \in DOMAIN named \ BinaryName /\ named'[n] = named[n]
    OBVIOUS
  <2> QED BY <1>3, <1>5, <2>1 DEF MacrosOK
<1>11. Levels'
  BY <1>2, <1>3 DEF Levels, Level
<1> QED BY <1>4, <1>6, <1>8, <1>9, <1>10, <1>11, ScanGoesOn

\* The values a rule takes, and what is left of the stack.
LEMMA PoppedIs ==
  ASSUME NEW S, yyvsp \in Seq(S), NEW n \in Nat, n <= Len(yyvsp)
  PROVE  /\ Popped(n) \in Seq(S) /\ Len(Popped(n)) = Len(yyvsp) - n
         /\ \A i \in 1 .. Len(yyvsp) - n : Popped(n)[i] = yyvsp[i]
         /\ \A m \in 0 .. n - 1 : Arg(m) \in S
         /\ SubSeq(yyvsp, Len(yyvsp) - n + 1, Len(yyvsp)) \in Seq(S)
         /\ Len(SubSeq(yyvsp, Len(yyvsp) - n + 1, Len(yyvsp))) = n
         /\ \A i \in 1 .. n :
              SubSeq(yyvsp, Len(yyvsp) - n + 1, Len(yyvsp))[i] = yyvsp[Len(yyvsp) - n + i]
<1>1. PICK l \in Nat : l = Len(yyvsp)
  OBVIOUS
<1>2. Popped(n) \in Seq(S) /\ Len(Popped(n)) = l - n
      /\ \A i \in 1 .. l - n : Popped(n)[i] = yyvsp[i]
  BY <1>1 DEF Popped
<1>3. \A m \in 0 .. n - 1 : Arg(m) \in S
  BY <1>1 DEF Arg
<1>4. SubSeq(yyvsp, l - n + 1, l) \in Seq(S) /\ Len(SubSeq(yyvsp, l - n + 1, l)) = n
  BY <1>1
<1>5. \A i \in 1 .. n : SubSeq(yyvsp, l - n + 1, l)[i] = yyvsp[l - n + i]
  BY <1>1
<1> QED BY <1>1, <1>2, <1>3, <1>4, <1>5

\* The rule of an expression, and that of a statement.
LEMMA ReduceExpression ==
  ASSUME ScanInv, NEW k, At(k, {"INITIAL"}), buffers' = Consumed, asm' = asm, ScanFrame,
         IsExpression(Item), NEW x \in Nat, yyvsp' = Append(Popped(Takes(Item)), x),
         \A n \in DOMAIN named : n \in DOMAIN named' /\ named'[n] = named[n],
         \A n \in DOMAIN named' : n \in DOMAIN named \cup BinaryName,
         BinaryOK'
  PROVE  ScanInv'
<1>1. Item \in Items /\ Item.k = k /\ Accepts(Item, Here)
  BY AtItem
<1>2. k \notin {"IF", "ELIF", "if"} /\ Takes(Item) \in Nat
  BY <1>1 DEF IsExpression, Takes
<1>3. Len(yyvsp) >= Takes(Item)
  BY AtStatement
<1>4. yyvsp \in Seq(Nat)
  BY DEF ScanInv, ScanTypes
<1>5. yyvsp' \in Seq(Nat) /\ Len(yyvsp') = Len(yyvsp) - Takes(Item) + 1
  <2> DEFINE n == Takes(Item)
             p == Popped(Takes(Item))
  <2>1. p \in Seq(Nat) /\ Len(p) = Len(yyvsp) - n
    BY <1>2, <1>3, <1>4, PoppedIs
  <2>2. yyvsp' = Append(p, x)
    OBVIOUS
  <2> HIDE DEF n, p
  <2>3. yyvsp' \in Seq(Nat) /\ Len(yyvsp') = Len(p) + 1
    BY ONLY <2>1, <2>2, x \in Nat
  <2> QED BY <2>1, <2>3 DEF n
<1>6. After(Item, Here).waiting = Len(yyvsp) - Takes(Item) + 1
  <2>1. Here \in Place
    BY HerePlace DEF ScanInv
  <2>2. After(Item, Here) = [waiting |-> Here.waiting - Takes(Item) + 1,
                             condition |-> Here.condition]
    BY <1>1, <2>1, AfterPlace
  <2> QED BY <2>2 DEF Here
<1> QED BY <1>2, <1>5, <1>6, ReduceHolds

LEMMA ReduceStatement ==
  ASSUME ScanInv, NEW k, At(k, {"INITIAL"}), k \notin {"IF", "ELIF", "if"},
         buffers' = Consumed, asm' = asm, ScanFrame,
         ~IsExpression(Item), yyvsp' = Popped(Takes(Item)),
         \A n \in DOMAIN named : n \in DOMAIN named' /\ named'[n] = named[n],
         \A n \in DOMAIN named' : n \in DOMAIN named \cup BinaryName,
         BinaryOK'
  PROVE  ScanInv' /\ yyvsp' = <<>>
<1>1. Item \in Items /\ Item.k = k /\ Accepts(Item, Here)
  BY AtItem
<1>2. Len(yyvsp) = Takes(Item) /\ yyvsp \in Seq(Nat)
  BY AtStatement DEF ScanInv, ScanTypes
<1>3. yyvsp' = <<>>
  <2>1. yyvsp' = SubSeq(yyvsp, 1, Len(yyvsp) - Len(yyvsp))
    BY <1>2 DEF Popped
  <2> QED BY <1>2, <2>1
<1>4. After(Item, Here).waiting = 0
  <2>1. Here \in Place
    BY HerePlace DEF ScanInv
  <2> QED BY <1>1, <2>1, AfterPlace
<1>5. Len(yyvsp') = 0 /\ yyvsp' \in Seq(Nat)
  BY <1>3
<1> QED BY <1>3, <1>4, <1>5, ReduceHolds

-----------------------------------------------------------------------------
(***************************************************************************)
(* The pool of expressions grows, and so does the symbol table.            *)
(***************************************************************************)
LEMMA CreateHolds ==
  ASSUME EInv, NEW nodes \in Seq(Expression), NEW l \in Nat, l = Len(exprs) + Len(nodes),
         Create(nodes), UNCHANGED <<asm, calls>>,
         \A n \in 1 .. Len(nodes) : Arguments(nodes[n]) \subseteq 1 .. l,
         DOMAIN s_sym_table' \subseteq Name,
         \A s \in DOMAIN s_sym_table' : s_sym_table'[s] \in 1 .. l,
         \A s \in DOMAIN s_sym_table :
           s \in DOMAIN s_sym_table' /\ s_sym_table'[s] = s_sym_table[s]
  PROVE  /\ EInv'
         /\ Len(exprs') = l
         /\ \A e \in Pointer : exprs'[e] = exprs[e] /\ parsed'[e] = parsed[e]
         /\ \A n \in 1 .. Len(nodes) : /\ exprs'[Len(exprs) + n] = nodes[n]
                                       /\ parsed'[Len(exprs) + n] = nodes[n]
<1>1. PICK x \in Nat : x = Len(exprs)
  BY DEF EInv, ExprTypeOK
<1>2. PICK y \in Nat : y = Len(nodes) /\ l = x + y
  BY <1>1
<1>3. exprs \in Seq(Expression) /\ parsed \in Seq(Expression) /\ Len(parsed) = x
  BY <1>1 DEF EInv, ExprTypeOK
<1>4. /\ exprs' \in Seq(Expression) /\ Len(exprs') = l
      /\ (\A e \in 1 .. x : exprs'[e] = exprs[e])
      /\ \A n \in 1 .. y : exprs'[x + n] = nodes[n]
  BY <1>1, <1>2, <1>3 DEF Create
<1>5. /\ parsed' \in Seq(Expression) /\ Len(parsed') = l
      /\ (\A e \in 1 .. x : parsed'[e] = parsed[e])
      /\ \A n \in 1 .. y : parsed'[x + n] = nodes[n]
  <2>1. PICK p \in Seq(Expression) : p = parsed /\ Len(p) = x
    BY <1>3
  <2>2. parsed' = p \o nodes
    BY <2>1 DEF Create
  <2>3. p \o nodes \in Seq(Expression) /\ Len(p \o nodes) = l
        /\ (\A e \in 1 .. x : (p \o nodes)[e] = p[e])
        /\ \A n \in 1 .. y : (p \o nodes)[x + n] = nodes[n]
    BY <1>2, <2>1
  <2> QED BY <2>1, <2>2, <2>3
<1>6. Pointer = 1 .. x /\ Pointer' = 1 .. l /\ Pointer \subseteq Pointer'
  BY <1>1, <1>2, <1>4 DEF Pointer
<1>7. ASSUME NEW e \in 1 .. l
      PROVE  \/ e \in 1 .. x
             \/ \E n \in 1 .. y : e = x + n
  <2>1. CASE e <= x
    BY <2>1
  <2>2. CASE e > x
    <3>1. e - x \in 1 .. y /\ e = x + (e - x)
      BY <1>2, <1>7, <2>2
    <3> QED BY <3>1
  <2> QED BY <2>1, <2>2
<1>8. ExprTypeOK'
  <2>1. ASSUME NEW e \in 1 .. l
        PROVE  Arguments(exprs'[e]) \cup Arguments(parsed'[e]) \subseteq 1 .. l
    <3>1. CASE e \in 1 .. x
      <4>1. Arguments(exprs[e]) \cup Arguments(parsed[e]) \subseteq Pointer
        BY <1>6, <3>1 DEF EInv, ExprTypeOK
      <4> QED BY <1>4, <1>5, <1>6, <3>1, <4>1
    <3>2. CASE \E n \in 1 .. y : e = x + n
      BY <1>2, <1>4, <1>5, <3>2
    <3> QED BY <1>7, <2>1, <3>1, <3>2
  <2>2. calls' \in Seq(1 .. l) /\ Len(calls') <= MAX_DEPTH
    <3>1. calls \in Seq(1 .. x) /\ Len(calls) <= MAX_DEPTH
      BY <1>6 DEF EInv, ExprTypeOK
    <3> QED BY <1>2, <3>1
  <2>3. asm' \in {"parse", "output", "done", "failed", "crashed"}
    BY DEF EInv, ExprTypeOK
  <2> QED BY <1>4, <1>5, <1>6, <2>1, <2>2, <2>3 DEF ExprTypeOK
<1>9. Keeps
  BY <1>4, <1>6 DEF Keeps
<1>10. AllExplained'
  <2> SUFFICES ASSUME NEW e \in 1 .. l
               PROVE  (IF Resolved(e) THEN Explained(parsed[e], Value(e))
                       ELSE exprs[e] = parsed[e])'
    BY <1>6 DEF AllExplained
  <2>1. CASE e \in 1 .. x
    <3>1. PICK n \in Expression : n = parsed[e] /\ Arguments(n) \subseteq Pointer
      BY <1>3, <1>6, <2>1 DEF EInv, ExprTypeOK
    <3>2. PICK w : w = Value(e)
      OBVIOUS
    <3>3. (Resolved(e)' <=> Resolved(e)) /\ Value(e)' = w /\ parsed'[e] = n /\ exprs'[e] = exprs[e]
      BY <1>4, <1>5, <2>1, <3>1, <3>2 DEF Resolved, Value
    <3>4. IF Resolved(e) THEN Explained(n, w) ELSE exprs[e] = n
      BY <1>6, <2>1, <3>1, <3>2 DEF EInv, AllExplained
    <3>5. \A s \in DOMAIN s_sym_table : s_sym_table[s] \in Pointer
      BY DEF EInv, ExprTypeOK
    <3>6. Explained(n, w) => Explained(n, w)'
      BY <1>9, <3>1, <3>5, ExplainedKept
    <3> QED BY <3>3, <3>4, <3>6
  <2>2. CASE \E n \in 1 .. y : e = x + n
    <3>1. exprs'[e] = parsed'[e]
      BY <1>4, <1>5, <2>2
    <3>2. ASSUME Resolved(e)' PROVE Explained(parsed[e], Value(e))'
      <4>1. PICK n : n = exprs'[e]
        OBVIOUS
      <4>2. n.expr_op = "NUMBER" /\ Value(e)' = n.number /\ parsed'[e] = n
        BY <3>1, <3>2, <4>1 DEF Resolved, Value
      <4>3. Explained(n, n.number)'
        BY <4>2 DEF Explained, UnaryOp, BinaryOp
      <4> QED BY <4>2, <4>3
    <3> QED BY <3>1, <3>2
  <2> QED BY <1>7, <2>1, <2>2
<1> QED BY <1>1, <1>2, <1>4, <1>5, <1>6, <1>8, <1>10 DEF EInv

\* A step of resolve_expr2 leaves what has a value, and all that is not an expression.
LEMMA ResolveKeeps ==
  ASSUME EInv, Resolve
  PROVE  /\ EInv'
         /\ UNCHANGED <<s_sym_table, parsed>> /\ Pointer' = Pointer
         /\ \A e \in Pointer : Resolved(e) => exprs'[e] = exprs[e]
         /\ asm' \in {asm, "failed", "crashed"} /\ asm \in {"parse", "output"}
<1>1. EInv'
  BY ResolveUnaryHolds, ResolveSymbolHolds, ResolveFirstHolds, ShortCircuitHolds,
     ResolveSecondHolds DEF Resolve
<1>2. Resolving /\ ~Resolved(Callee)
  BY CalleeOpen
<1>3. asm \in {"parse", "output"}
  BY <1>2 DEF Resolving
<1>4. \/ \E v : Return(v)
      \/ \E e : Call(e)
      \/ Stop("failed") \/ Stop("crashed")
  <2>1. CASE ResolveUnary
    BY <2>1 DEF ResolveUnary
  <2>2. CASE ResolveSymbol
    BY <2>2 DEF ResolveSymbol
  <2>3. CASE ResolveFirst
    BY <2>3 DEF ResolveFirst
  <2>4. CASE ShortCircuit
    BY <2>4 DEF ShortCircuit
  <2>5. CASE ResolveSecond
    BY <2>5 DEF ResolveSecond
  <2> QED BY <2>1, <2>2, <2>3, <2>4, <2>5 DEF Resolve
<1>5. CASE \E v : Return(v)
  <2>1. PICK v : Return(v)
    BY <1>5
  <2>2. PICK c : c = Callee /\ ~Resolved(c)
    BY <1>2
  <2>3. exprs' = [exprs EXCEPT ![c] = Number(v)] /\ UNCHANGED <<asm, s_sym_table, parsed>>
    BY <2>1, <2>2 DEF Return
  <2>4. exprs \in Seq(Expression)
    BY DEF EInv, ExprTypeOK
  <2>5. Len(exprs') = Len(exprs) /\ \A e \in Pointer : e # c => exprs'[e] = exprs[e]
    BY <2>3, <2>4 DEF Pointer
  <2> QED BY <1>1, <1>3, <2>2, <2>3, <2>5 DEF Pointer
<1>6. CASE (\E e : Call(e)) \/ Stop("failed") \/ Stop("crashed")
  <2>1. UNCHANGED <<exprs, s_sym_table, parsed>> /\ asm' \in {asm, "failed", "crashed"}
    BY <1>6 DEF Call, Stop
  <2> QED BY <1>1, <1>3, <2>1 DEF Pointer
<1> QED BY <1>4, <1>5, <1>6

-----------------------------------------------------------------------------
(***************************************************************************)
(* What the parser keeps of expressions: pointers into the pool.           *)
(***************************************************************************)
AtomSet ==
       [type : DOMAIN OpSize, code : 0 .. 255, args : Seq(Nat)]
  \cup [type : {"byte", "word", "res"}, args : Seq(Nat)]
  \cup [type : {"incbin"}, name : BinaryName, skip : Nat, length : Nat, args : {<<>>}]

Expects(a) ==
  CASE a.type = "NONE" -> 0
    [] a.type \in {"U8", "U16", "UI8", "I8"} -> 1
    [] a.type = "res" -> 2
    [] OTHER -> Len(a.args)

\* The argument of a branch is a distance, and the part of a file lies in it.
AtomOK(a) ==
  /\ a.args \in Seq(Pointer) /\ Len(a.args) = Expects(a)
  /\ a.type = "I8" => parsed[a.args[1]].expr_op = "MINUS"
  /\ a.type = "incbin" =>
       a.name \in DOMAIN named /\ a.skip + a.length <= Len(named[a.name])

Origin == [org : Nat, atom : Nat]

MarkOK(p) ==
  /\ p.pc \in Pointer /\ p.after.org \in Pointer
  /\ p.after.atom <= p.atom /\ p.atom <= Len(atoms)

ValueInv ==
  /\ yyvsp \in Seq(Pointer)
  /\ s_pc1 \in Pointer \cup {unset_value}
  /\ s_pc2 \in Word32
  /\ atoms \in Seq(AtomSet)
  /\ \A n \in 1 .. Len(atoms) : AtomOK(atoms[n])
  /\ origin \in Origin
  /\ origin.org \in Pointer \cup {unset_value} /\ origin.atom <= Len(atoms)
  /\ origin.org = unset_value <=> s_pc1 = unset_value
  /\ places \in Seq([pc : Nat, after : Origin, atom : Nat])
  /\ \A n \in 1 .. Len(places) : MarkOK(places[n])

\* Expressions stay where they are, and files as they were read.
Grows ==
  /\ Len(exprs) <= Len(exprs') /\ Len(exprs') \in Nat /\ Len(exprs) \in Nat
  /\ \A e \in Pointer : parsed'[e] = parsed[e]
  /\ \A n \in DOMAIN named \cap BinaryName : n \in DOMAIN named' /\ named'[n] = named[n]

LEMMA AtomKept ==
  ASSUME Grows, NEW a \in AtomSet, AtomOK(a)
  PROVE  AtomOK(a)'
<1>1. Pointer \subseteq Pointer'
  BY DEF Grows, Pointer
<1>2. a.args \in Seq(Pointer) /\ Len(a.args) = Expects(a)
  BY DEF AtomOK
<1>3. a.args \in Seq(Pointer')
  BY <1>1, <1>2
<1>4. a.type = "I8" => parsed'[a.args[1]].expr_op = "MINUS"
  <2> SUFFICES ASSUME a.type = "I8" PROVE parsed'[a.args[1]].expr_op = "MINUS"
    OBVIOUS
  <2>1. Len(a.args) = 1
    BY <1>2 DEF Expects
  <2>2. a.args[1] \in Pointer
    BY <1>2, <2>1
  <2> QED BY <2>2 DEF AtomOK, Grows
<1>5. a.type = "incbin" =>
        a.name \in DOMAIN named' /\ a.skip + a.length <= Len(named'[a.name])
  <2> SUFFICES ASSUME a.type = "incbin"
               PROVE  a.name \in DOMAIN named' /\ a.skip + a.length <= Len(named'[a.name])
    OBVIOUS
  <2>1. a.name \in BinaryName
    BY DEF AtomSet, OpSize
  <2>2. a.name \in DOMAIN named /\ a.skip + a.length <= Len(named[a.name])
    BY DEF AtomOK
  <2> QED BY <2>1, <2>2 DEF Grows
<1> QED BY <1>2, <1>3, <1>4, <1>5 DEF AtomOK, Expects

\* What a step of the parser has to show of its values.
LEMMA ValueGrows ==
  ASSUME ValueInv, Grows,
         yyvsp' \in Seq(Pointer'), s_pc1' \in Pointer' \cup {unset_value}, s_pc2' \in Word32,
         \/ atoms' = atoms
         \/ \E a \in AtomSet : atoms' = Append(atoms, a) /\ AtomOK(a)',
         origin' \in Origin, origin'.org \in Pointer' \cup {unset_value},
         origin'.atom <= Len(atoms),
         origin'.org = unset_value <=> s_pc1' = unset_value,
         \/ places' = places
         \/ \E p \in [pc : Nat, after : Origin, atom : Nat] :
              places' = Append(places, p) /\ MarkOK(p)'
  PROVE  ValueInv'
<1>1. PICK l \in Nat : l = Len(atoms)
  BY DEF ValueInv
<1>2. Pointer \subseteq Pointer'
  BY DEF Grows, Pointer
<1>3. atoms \in Seq(AtomSet) /\ \A n \in 1 .. l : atoms[n] \in AtomSet /\ AtomOK(atoms[n])
  BY <1>1 DEF ValueInv
<1>4. /\ atoms' \in Seq(AtomSet) /\ Len(atoms') \in Nat /\ l <= Len(atoms')
      /\ \A n \in 1 .. Len(atoms') : AtomOK(atoms[n])'
  <2>1. CASE atoms' = atoms
    <3>1. ASSUME NEW n \in 1 .. l PROVE AtomOK(atoms[n])'
      <4>1. PICK a \in AtomSet : a = atoms[n]
        BY <1>3
      <4>2. AtomOK(a)'
        BY <1>3, <4>1, AtomKept
      <4>3. atoms'[n] = a
        BY <2>1, <4>1
      <4> QED BY <4>2, <4>3 DEF AtomOK
    <3> QED BY <1>1, <1>3, <2>1, <3>1
  <2>2. CASE \E a \in AtomSet : atoms' = Append(atoms, a) /\ AtomOK(a)'
    <3>1. PICK b \in AtomSet : atoms' = Append(atoms, b) /\ AtomOK(b)'
      BY <2>2
    <3>2. atoms' \in Seq(AtomSet) /\ Len(atoms') = l + 1 /\ atoms'[l + 1] = b
          /\ \A n \in 1 .. l : atoms'[n] = atoms[n]
      BY <1>1, <1>3, <3>1
    <3>3. ASSUME NEW n \in 1 .. l + 1 PROVE AtomOK(atoms[n])'
      <4>1. CASE n = l + 1
        <5>1. atoms'[n] = b
          BY <3>2, <4>1
        <5> QED BY <3>1, <5>1 DEF AtomOK
      <4>2. CASE n # l + 1
        <5>1. n \in 1 .. l
          BY <3>3, <4>2
        <5>2. PICK a \in AtomSet : a = atoms[n] /\ AtomOK(a)
          BY <1>3, <5>1
        <5>3. AtomOK(a)'
          BY <5>2, AtomKept
        <5>4. atoms'[n] = a
          BY <3>2, <5>1, <5>2
        <5> QED BY <5>3, <5>4 DEF AtomOK
      <4> QED BY <4>1, <4>2
    <3> QED BY <3>2, <3>3
  <2> QED BY <2>1, <2>2
<1>5. PICK k \in Nat : k = Len(places)
  BY DEF ValueInv
<1> DEFINE MarkSet == [pc : Nat, after : Origin, atom : Nat]
<1>6. places \in Seq(MarkSet) /\ \A n \in 1 .. k : places[n] \in MarkSet /\ MarkOK(places[n])
  <2>1. places \in Seq(MarkSet) /\ \A n \in 1 .. k : MarkOK(places[n])
    BY <1>5 DEF ValueInv
  <2> HIDE DEF MarkSet
  <2>2. \A n \in 1 .. k : places[n] \in MarkSet
    BY <1>5, <2>1
  <2> QED BY <2>1, <2>2
<1>7. ASSUME NEW p \in MarkSet, MarkOK(p) PROVE MarkOK(p)'
  <2>1. p.atom \in Nat
    BY <1>7
  <2> QED BY <1>1, <1>2, <1>4, <1>7, <2>1 DEF MarkOK
<1>8. places' \in Seq(MarkSet) /\ \A n \in 1 .. Len(places') : MarkOK(places[n])'
  <2>1. CASE places' = places
    <3>1. ASSUME NEW n \in 1 .. k PROVE MarkOK(places[n])'
      <4>1. PICK p \in MarkSet : p = places[n] /\ MarkOK(p)
        BY <1>6
      <4>2. MarkOK(p)' /\ places'[n] = p
        BY <1>7, <2>1, <4>1
      <4> QED BY <4>2 DEF MarkOK
    <3> QED BY <1>5, <1>6, <2>1, <3>1
  <2>2. CASE \E p \in MarkSet : places' = Append(places, p) /\ MarkOK(p)'
    <3>1. PICK q \in MarkSet : places' = Append(places, q) /\ MarkOK(q)'
      BY <2>2
    <3> HIDE DEF MarkSet
    <3>2. places' \in Seq(MarkSet) /\ Len(places') = k + 1 /\ places'[k + 1] = q
          /\ \A n \in 1 .. k : places'[n] = places[n]
      BY <1>5, <1>6, <3>1
    <3>3. ASSUME NEW n \in 1 .. k + 1 PROVE MarkOK(places[n])'
      <4>1. CASE n = k + 1
        <5>1. places'[n] = q
          BY <3>2, <4>1
        <5> QED BY <3>1, <5>1 DEF MarkOK
      <4>2. CASE n # k + 1
        <5>1. n \in 1 .. k
          BY <3>3, <4>2
        <5>2. PICK p \in MarkSet : p = places[n] /\ MarkOK(p)
          BY <1>6, <5>1
        <5>3. MarkOK(p)' /\ places'[n] = p
          BY <1>7, <3>2, <5>1, <5>2
        <5> QED BY <5>3 DEF MarkOK
      <4> QED BY <4>1, <4>2
    <3> QED BY <3>2, <3>3
  <2> QED BY <2>1, <2>2
<1>9. origin'.atom <= Len(atoms')
  BY <1>1, <1>4 DEF Origin
<1> QED BY <1>4, <1>8, <1>9 DEF ValueInv

-----------------------------------------------------------------------------
(***************************************************************************)
(* Arithmetic of addresses: sums that wrap around are equal if they differ *)
(* by whole turns.                                                         *)
(***************************************************************************)
LEMMA WholeTurns ==
  ASSUME NEW a \in Word32, NEW b \in Word32, NEW q \in Int, a = b + (2 * LIMIT) * q
  PROVE  a = b
<1>1. PICK m \in Nat : m = 2 * LIMIT /\ m > 0
  BY WordAssumption
<1>2. a \in Int /\ b \in Int /\ a - b < m /\ b - a < m
  BY <1>1, WordAssumption DEF Word32
<1>3. a - b = m * q
  BY <1>1, <1>2
<1>4. ASSUME q >= 1 PROVE FALSE
  <2>1. PICK r \in Nat : q = r + 1
    BY <1>4
  <2>2. m * q = m * r + m /\ m * r \in Nat
    BY <2>1
  <2> QED BY <1>2, <1>3, <2>2
<1>5. ASSUME q <= -1 PROVE FALSE
  <2>1. PICK r \in Nat : q = -r - 1
    BY <1>5
  <2>2. m * q = -(m * r) - m /\ m * r \in Nat
    BY <2>1
  <2> QED BY <1>2, <1>3, <2>2
<1>6. q = 0
  BY <1>4, <1>5
<1> QED BY <1>2, <1>3, <1>6

LEMMA WrapTurns ==
  ASSUME NEW n \in Int
  PROVE  \E q \in Int : Wrap(n) = n + (2 * LIMIT) * q
<1>1. PICK m \in Nat \ {0} : m = 2 * LIMIT
  BY WordAssumption
<1>2. PICK x \in Int : x = n + LIMIT
  BY WordAssumption
<1>3. x % m = x - m * (x \div m) /\ x \div m \in Int
  BY ONLY x \in Int, m \in Nat \ {0}
<1>4. PICK d \in Int : d = x \div m
  BY <1>3
<1>5. -d \in Int /\ m * (-d) = -(m * d) /\ m * d \in Int
  BY <1>1
<1>6. Wrap(n) = x - m * d - LIMIT
  BY <1>1, <1>2, <1>3, <1>4 DEF Wrap
<1>7. LIMIT \in Int
  BY WordAssumption
<1>8. Wrap(n) = n + m * (-d)
  BY ONLY <1>2, <1>5, <1>6, <1>7, n \in Int
<1> QED BY <1>1, <1>5, <1>8

LEMMA WrapEqual ==
  ASSUME NEW a \in Int, NEW b \in Int, NEW q \in Int, a = b + (2 * LIMIT) * q
  PROVE  Wrap(a) = Wrap(b)
<1>1. PICK m \in Nat : m = 2 * LIMIT /\ m > 0
  BY WordAssumption
<1>2. PICK r \in Int : Wrap(a) = a + m * r
  BY <1>1, WrapTurns
<1>3. PICK s \in Int : Wrap(b) = b + m * s
  BY <1>1, WrapTurns
<1>4. a = b + m * q
  BY <1>1
<1>5. PICK t \in Int : t = q + r - s
  OBVIOUS
<1>6. m * t = m * q + m * r - m * s
  BY <1>5
<1>7. m * t \in Int /\ m * q \in Int /\ m * r \in Int /\ m * s \in Int
  OBVIOUS
<1>8. Wrap(a) = Wrap(b) + m * t
  BY ONLY <1>2, <1>3, <1>4, <1>6, <1>7, a \in Int, b \in Int
<1>9. Wrap(a) \in Word32 /\ Wrap(b) \in Word32
  BY WrapRange
<1> QED BY <1>1, <1>8, <1>9, WholeTurns

LEMMA WrapWord ==
  ASSUME NEW a \in Word32
  PROVE  Wrap(a) = a
<1>1. a \in Int
  BY WordAssumption DEF Word32
<1>2. PICK q \in Int : Wrap(a) = a + (2 * LIMIT) * q
  BY <1>1, WrapTurns
<1> QED BY <1>1, <1>2, WrapRange, WholeTurns

\* What is wrapped inside of a sum need not be.
LEMMA WrapSum ==
  ASSUME NEW a \in Int, NEW b \in Int
  PROVE  /\ Wrap(a + Wrap(b)) = Wrap(a + b)
         /\ Wrap(Wrap(b) + a) = Wrap(a + b)
         /\ Wrap(Wrap(b) - a) = Wrap(b - a)
<1>1. PICK w \in Int : w = Wrap(b)
  BY WrapRange, WordAssumption DEF Word32
<1>2. PICK t \in Int : (\E q \in Int : t = (2 * LIMIT) * q) /\ w = b + t
  <2>1. PICK q \in Int : Wrap(b) = b + (2 * LIMIT) * q
    BY WrapTurns
  <2>2. (2 * LIMIT) * q \in Int
    BY WordAssumption
  <2> QED BY <1>1, <2>1, <2>2
<1>3. PICK q \in Int : t = (2 * LIMIT) * q
  BY <1>2
<1>4. a + w = (a + b) + t /\ w + a = (a + b) + t /\ w - a = (b - a) + t
      /\ a + b \in Int /\ a + w \in Int /\ w + a \in Int /\ w - a \in Int /\ b - a \in Int
  BY ONLY <1>2, a \in Int, b \in Int, t \in Int, w \in Int
<1>5. Wrap(a + w) = Wrap(a + b)
  BY <1>3, <1>4, WrapEqual
<1>6. Wrap(w + a) = Wrap(a + b)
  BY <1>3, <1>4, WrapEqual
<1>7. Wrap(w - a) = Wrap(b - a)
  BY <1>3, <1>4, WrapEqual
<1> QED BY <1>1, <1>5, <1>6, <1>7

-----------------------------------------------------------------------------
(***************************************************************************)
(* The program counter.  Take any values V for expressions, of which those *)
(* in D add up as their nodes say, and let f count the bytes of the atoms  *)
(* with them: then the program counter, the labels, and the addresses the  *)
(* branches count from lie f bytes behind the last .ORG.  It is said of    *)
(* any values, as those of the program are known only when the source has  *)
(* been read and the atoms are put out.                                    *)
(***************************************************************************)
Size(a, V) ==
  CASE a.type \in DOMAIN OpSize -> OpSize[a.type]
    [] a.type = "byte"          -> Len(a.args)
    [] a.type = "word"          -> 2 * Len(a.args)
    [] a.type = "incbin"        -> a.length
    [] a.type = "res"           -> V[a.args[1]]

Obeys(V, D, pool) ==
  \A e \in D : e \in 1 .. Len(pool) =>
    LET n == pool[e]
    IN /\ n.expr_op = "NUMBER" => V[e] = n.number
       /\ n.expr_op = "PLUS" =>
            n.arg1 \in D /\ n.arg2 \in D /\ V[e] = Wrap(V[n.arg1] + V[n.arg2])
       /\ n.expr_op = "MINUS" =>
            n.arg1 \in D /\ n.arg2 \in D /\ V[e] = Wrap(V[n.arg1] - V[n.arg2])

Adds(f, V, list) ==
  /\ f[0] = 0
  /\ \A n \in 1 .. Len(list) : f[n] = f[n - 1] + Size(list[n], V)

\* The value of e is the address behind the first n atoms.
Lies(V, D, f, e, o, n) ==
  e \in D => o.org \in D /\ Wrap(V[e]) = Wrap(V[o.org] + f[n] - f[o.atom])

\* The address a branch counts from.
Behind(n) == parsed[atoms[n].args[1]].arg2

PcHolds(V, D, f) ==
  /\ s_pc1 # unset_value /\ s_pc1 \in D =>
       /\ origin.org \in D
       /\ Wrap(V[s_pc1] + s_pc2) = Wrap(V[origin.org] + f[Len(atoms)] - f[origin.atom])
  /\ \A n \in 1 .. Len(places) :
       Lies(V, D, f, places[n].pc, places[n].after, places[n].atom)
  /\ \A n \in origin.atom + 1 .. Len(atoms) :
       atoms[n].type = "I8" => Lies(V, D, f, Behind(n), origin, n)
  /\ \A n \in 1 .. Len(places) :
       places[n].atom > places[n].after.atom /\ atoms[places[n].atom].type = "I8" =>
         Lies(V, D, f, Behind(places[n].atom), places[n].after, places[n].atom)

PcMeans ==
  \A V \in [Nat -> Int], D \in SUBSET Nat, f \in [Nat -> Int] :
    Obeys(V, D, parsed) /\ Adds(f, V, atoms) => PcHolds(V, D, f)

LEMMA ObeysBack ==
  ASSUME NEW V, NEW D, NEW pool, NEW longer, Len(pool) \in Nat, Len(longer) \in Nat,
         Len(pool) <= Len(longer), \A e \in 1 .. Len(pool) : longer[e] = pool[e],
         Obeys(V, D, longer)
  PROVE  Obeys(V, D, pool)
BY DEF Obeys

LEMMA AppendIs ==
  ASSUME NEW S, NEW done \in Seq(S), NEW a \in S, NEW l \in Nat, l = Len(done)
  PROVE  /\ Append(done, a) \in Seq(S)
         /\ Len(Append(done, a)) = l + 1
         /\ Append(done, a)[l + 1] = a
         /\ \A n \in 1 .. l : Append(done, a)[n] = done[n]
OBVIOUS

LEMMA AddsBack ==
  ASSUME NEW V, NEW f, NEW S, NEW done \in Seq(S), NEW a \in S, NEW l \in Nat,
         l = Len(done), Adds(f, V, Append(done, a))
  PROVE  Adds(f, V, done) /\ f[l + 1] = f[l] + Size(a, V)
<1>1. PICK more : more = Append(done, a)
  OBVIOUS
<1>2. Len(more) = l + 1 /\ more[l + 1] = a /\ \A n \in 1 .. l : more[n] = done[n]
  BY <1>1, AppendIs
<1>3. f[0] = 0 /\ \A n \in 1 .. l + 1 : f[n] = f[n - 1] + Size(more[n], V)
  BY <1>1, <1>2 DEF Adds
<1>4. l + 1 \in 1 .. l + 1 /\ (l + 1) - 1 = l /\ \A n \in 1 .. l : n \in 1 .. l + 1
  BY ONLY l \in Nat
<1>5. \A n \in 1 .. l : f[n] = f[n - 1] + Size(done[n], V)
  BY <1>2, <1>3, <1>4
<1>6. f[l + 1] = f[l + 1 - 1] + Size(more[l + 1], V)
  BY <1>3, <1>4
<1>7. f[l + 1] = f[l] + Size(a, V)
  BY <1>2, <1>4, <1>6
<1> QED BY <1>3, <1>5, <1>7 DEF Adds

\* The address a branch counts from does not change.
LEMMA BehindStays ==
  ASSUME ValueInv, Grows, NEW n \in 1 .. Len(atoms), atoms[n].type = "I8",
         atoms'[n] = atoms[n]
  PROVE  Behind(n)' = Behind(n)
<1>1. AtomOK(atoms[n])
  BY DEF ValueInv
<1>2. atoms[n].args \in Seq(Pointer) /\ Len(atoms[n].args) = 1
  BY <1>1 DEF AtomOK, Expects
<1>3. atoms[n].args[1] \in Pointer
  BY <1>2
<1> QED BY <1>3 DEF Behind, Grows

\* What a step has to show for some values.
LEMMA PcGrows ==
  ASSUME ValueInv, Grows, NEW V \in [Nat -> Int], NEW D \in SUBSET Nat,
         NEW f \in [Nat -> Int], PcHolds(V, D, f),
         Len(atoms) <= Len(atoms'), Len(atoms') \in Nat,
         \A n \in 1 .. Len(atoms) : atoms'[n] = atoms[n],
         s_pc1' # unset_value /\ s_pc1' \in D =>
           /\ origin'.org \in D
           /\ Wrap(V[s_pc1'] + s_pc2') =
                Wrap(V[origin'.org] + f[Len(atoms')] - f[origin'.atom]),
         \/ origin' = origin
         \/ origin'.atom = Len(atoms),
         \A n \in Len(atoms) + 1 .. Len(atoms') :
           atoms'[n].type = "I8" => Lies(V, D, f, Behind(n)', origin', n),
         \/ places' = places
         \/ \E p \in [pc : Nat, after : Origin, atom : Nat] :
              /\ places' = Append(places, p)
              /\ p.after = origin /\ origin' = origin
              /\ p.atom = Len(atoms')
              /\ Lies(V, D, f, p.pc, origin, Len(atoms'))
  PROVE  PcHolds(V, D, f)'
<1>1. PICK l \in Nat : l = Len(atoms)
  BY DEF ValueInv
<1>2. PICK m \in Nat : m = Len(atoms') /\ l <= m
  BY <1>1
<1>3. PICK k \in Nat : k = Len(places)
  BY DEF ValueInv
<1> DEFINE MarkSet == [pc : Nat, after : Origin, atom : Nat]
<1>4. places \in Seq(MarkSet) /\ \A n \in 1 .. k : MarkOK(places[n])
  BY <1>3 DEF ValueInv
<1> HIDE DEF MarkSet
<1>5. \A n \in 1 .. l : atoms[n].type = "I8" => Behind(n)' = Behind(n)
  BY <1>1, BehindStays
<1>6. ASSUME NEW n \in origin'.atom + 1 .. m, atoms'[n].type = "I8"
      PROVE  Lies(V, D, f, Behind(n)', origin', n)
  <2>1. origin.atom \in Nat /\ origin'.atom \in Nat
    BY <1>1 DEF ValueInv, Origin
  <2>a. PICK x \in Nat : x = origin'.atom
    BY <2>1
  <2>b. n \in x + 1 .. m
    BY <1>6, <2>a
  <2>2. n \in Nat /\ n >= 1
    BY ONLY <2>b, x \in Nat, m \in Nat
  <2>3. CASE n > l
    BY <1>1, <1>2, <1>6, <2>1, <2>2, <2>3
  <2>4. CASE n <= l
    <3>1. origin' = origin
      <4>1. x # l
        BY ONLY <2>b, <2>4, x \in Nat, m \in Nat, l \in Nat
      <4> QED BY <1>1, <2>a, <4>1
    <3>2. n \in 1 .. l /\ n \in origin.atom + 1 .. Len(atoms)
      BY <1>1, <1>6, <2>1, <2>2, <2>4, <3>1
    <3>3. atoms[n].type = "I8" /\ Behind(n)' = Behind(n)
      BY <1>1, <1>5, <1>6, <3>2
    <3> QED BY <3>1, <3>2, <3>3 DEF PcHolds
  <2> QED BY <1>1, <2>2, <2>3, <2>4
<1>7. ASSUME NEW p, NEW n \in 1 .. k, p = places[n]
      PROVE  /\ Lies(V, D, f, p.pc, p.after, p.atom)
             /\ p.atom > p.after.atom /\ atoms'[p.atom].type = "I8" =>
                  Lies(V, D, f, Behind(p.atom)', p.after, p.atom)
  <2>1. Lies(V, D, f, p.pc, p.after, p.atom)
    BY <1>3, <1>7 DEF PcHolds
  <2>2. ASSUME p.atom > p.after.atom, atoms'[p.atom].type = "I8"
        PROVE  Lies(V, D, f, Behind(p.atom)', p.after, p.atom)
    <3>1. p \in MarkSet /\ MarkOK(p)
      BY <1>3, <1>4, <1>7
    <3>2. p.atom \in Nat /\ p.after.atom \in Nat
      BY <3>1 DEF MarkSet, Origin
    <3>3. p.atom \in 1 .. l
      BY <1>1, <2>2, <3>1, <3>2 DEF MarkOK
    <3>4. atoms'[p.atom] = atoms[p.atom]
      BY <1>1, <3>3
    <3>5. atoms[p.atom].type = "I8"
      BY <2>2, <3>4
    <3>6. Behind(p.atom)' = Behind(p.atom)
      BY <1>5, <3>3, <3>5
    <3>7. Lies(V, D, f, Behind(p.atom), p.after, p.atom)
      BY <1>3, <1>7, <2>2, <3>5 DEF PcHolds
    <3> QED BY <3>6, <3>7
  <2> QED BY <2>1, <2>2
<1>8. \A n \in 1 .. Len(places') :
        /\ Lies(V, D, f, places'[n].pc, places'[n].after, places'[n].atom)
        /\ places'[n].atom > places'[n].after.atom /\ atoms'[places'[n].atom].type = "I8" =>
             Lies(V, D, f, Behind(places[n].atom)', places'[n].after, places'[n].atom)
  <2>1. CASE places' = places
    <3> SUFFICES ASSUME NEW n \in 1 .. k
                 PROVE  /\ Lies(V, D, f, places'[n].pc, places'[n].after, places'[n].atom)
                        /\ places'[n].atom > places'[n].after.atom
                           /\ atoms'[places'[n].atom].type = "I8" =>
                             Lies(V, D, f, Behind(places[n].atom)', places'[n].after,
                                  places'[n].atom)
      BY <1>3, <2>1
    <3>1. PICK p : p = places[n]
      OBVIOUS
    <3>2. Behind(places[n].atom)' = Behind(p.atom)' /\ places'[n] = p
      BY <2>1, <3>1 DEF Behind
    <3> QED BY <1>7, <3>1, <3>2
  <2>2. CASE \E p \in MarkSet :
              /\ places' = Append(places, p)
              /\ p.after = origin /\ origin' = origin
              /\ p.atom = Len(atoms')
              /\ Lies(V, D, f, p.pc, origin, Len(atoms'))
    <3>1. PICK q \in MarkSet :
              /\ places' = Append(places, q)
              /\ q.after = origin /\ origin' = origin
              /\ q.atom = m
              /\ Lies(V, D, f, q.pc, origin, m)
      BY <1>2, <2>2
    <3>2. Len(places') = k + 1 /\ places'[k + 1] = q
          /\ \A n \in 1 .. k : places'[n] = places[n]
      BY <1>3, <1>4, <3>1
    <3> SUFFICES ASSUME NEW n \in 1 .. k + 1
                 PROVE  /\ Lies(V, D, f, places'[n].pc, places'[n].after, places'[n].atom)
                        /\ places'[n].atom > places'[n].after.atom
                           /\ atoms'[places'[n].atom].type = "I8" =>
                             Lies(V, D, f, Behind(places[n].atom)', places'[n].after,
                                  places'[n].atom)
      BY <3>2
    <3>3. PICK p : p = places'[n]
      OBVIOUS
    <3>4. Behind(places[n].atom)' = Behind(p.atom)'
      BY <3>3 DEF Behind
    <3>5. CASE n = k + 1
      <4>1. p = q
        BY <3>2, <3>3, <3>5
      <4>2. ASSUME q.atom > q.after.atom, atoms'[q.atom].type = "I8"
            PROVE  Lies(V, D, f, Behind(q.atom)', q.after, q.atom)
        <5>1. origin'.atom \in Nat
          BY <3>1 DEF ValueInv, Origin
        <5>a. PICK x \in Nat : x = origin'.atom
          BY <5>1
        <5>b. m > x
          BY <3>1, <4>2, <5>a
        <5>c. m \in x + 1 .. m
          BY ONLY <5>b, x \in Nat, m \in Nat
        <5>2. m \in origin'.atom + 1 .. m
          BY <5>a, <5>c
        <5> QED BY <1>6, <3>1, <4>2, <5>2
      <4> QED BY <3>1, <3>3, <3>4, <4>1, <4>2
    <3>6. CASE n # k + 1
      <4>a. n \in 1 .. k
        BY ONLY <3>6, k \in Nat, n \in 1 .. k + 1
      <4>1. n \in 1 .. k /\ p = places[n]
        BY <3>2, <3>3, <4>a
      <4> QED BY <1>7, <3>3, <3>4, <4>1
    <3> QED BY <3>5, <3>6
  <2> QED BY <2>1, <2>2 DEF MarkSet
<1>9. (\A n \in origin.atom + 1 .. Len(atoms) :
         atoms[n].type = "I8" => Lies(V, D, f, Behind(n), origin, n))'
  BY <1>2, <1>6
<1> QED BY <1>8, <1>9 DEF PcHolds

-----------------------------------------------------------------------------
(***************************************************************************)
(* What was put out, and the inductive invariant of the assembler.         *)
(***************************************************************************)
\* The values expressions have, and which of them.
Valued == {e \in Pointer : Resolved(e)}
Values == [e \in Nat |-> IF e \in Valued THEN Value(e) ELSE 0]

\* The n-th atom was put out, up to where it ends.
PutOut(n) ==
  /\ \A m \in 1 .. Len(atoms[n].args) : Resolved(atoms[n].args[m])
  /\ ends[n] = End(n - 1) + Size(atoms[n], Values) /\ ends[n] <= Len(out)
  /\ atoms[n].type = "I8" =>
       LET v == Value(atoms[n].args[1])
       IN v \in -128 .. 127 /\ ends[n] > 0 /\ out[ends[n]] = LowByte(v)

OutInv ==
  /\ out \in Seq(0 .. 255) /\ ends \in Seq(Nat)
  /\ Len(ends) <= Len(atoms) /\ Len(out) = End(Len(ends))
  /\ asm = "parse" => ends = <<>>
  /\ asm = "done" => Len(ends) = Len(atoms)
  /\ \A n \in 1 .. Len(ends) : PutOut(n)

AsmInv == EInv /\ ScanInv /\ ValueInv /\ PcMeans /\ OutInv

\* Nothing is put out while the source is read.
LEMMA OutStays ==
  ASSUME OutInv, asm = "parse", asm' # "done", UNCHANGED outVars, Len(atoms') \in Nat
  PROVE  OutInv'
<1>1. ends = <<>> /\ ends' = <<>> /\ out' = out
  BY DEF OutInv, outVars
<1>2. Len(ends) = 0 /\ Len(ends') = 0
  BY <1>1
<1>3. Len(out) = 0 /\ Len(out') = 0
  BY <1>1, <1>2 DEF OutInv, End
<1>4. End(Len(ends))' = 0
  BY <1>2 DEF End
<1>5. out' \in Seq(0 .. 255) /\ ends' \in Seq(Nat)
  BY <1>1 DEF OutInv
<1>6. Len(ends') <= Len(atoms')
  BY <1>2
<1>7. (\A n \in 1 .. Len(ends) : PutOut(n))'
  BY <1>2
<1> QED BY <1>1, <1>3, <1>4, <1>5, <1>6, <1>7 DEF OutInv

\* Of places and the program counter, nothing has changed.
LEMMA PcStays ==
  ASSUME ValueInv, Grows, Len(parsed) = Len(exprs), Len(parsed') = Len(exprs'), PcMeans,
         UNCHANGED <<pcVars, atoms, origin, places>>
  PROVE  PcMeans'
<1> SUFFICES ASSUME NEW V \in [Nat -> Int], NEW D \in SUBSET Nat, NEW f \in [Nat -> Int],
                    Obeys(V, D, parsed'), Adds(f, V, atoms')
             PROVE  PcHolds(V, D, f)'
  BY DEF PcMeans
<1>1. /\ s_pc1' = s_pc1 /\ s_pc2' = s_pc2 /\ atoms' = atoms /\ origin' = origin
      /\ places' = places
  BY DEF pcVars
<1>2. Obeys(V, D, parsed)
  <2>1. Len(parsed) \in Nat /\ Len(parsed') \in Nat /\ Len(parsed) <= Len(parsed')
        /\ \A e \in 1 .. Len(parsed) : parsed'[e] = parsed[e]
    BY DEF Grows, Pointer
  <2>2. \A longer : Len(longer) \in Nat /\ Len(parsed) <= Len(longer)
          /\ (\A e \in 1 .. Len(parsed) : longer[e] = parsed[e]) /\ Obeys(V, D, longer)
          => Obeys(V, D, parsed)
    BY <2>1, ObeysBack
  <2> QED BY <2>1, <2>2
<1>3. PcHolds(V, D, f)
  BY <1>1, <1>2 DEF PcMeans
<1>4. Len(atoms) \in Nat
  BY DEF ValueInv
<1>5. s_pc1' # unset_value /\ s_pc1' \in D =>
           /\ origin'.org \in D
           /\ Wrap(V[s_pc1'] + s_pc2') =
                Wrap(V[origin'.org] + f[Len(atoms')] - f[origin'.atom])
  BY <1>1, <1>3 DEF PcHolds
<1>6. Len(atoms) <= Len(atoms') /\ Len(atoms') \in Nat
  BY <1>1, <1>4
<1>7. \A n \in 1 .. Len(atoms) : atoms'[n] = atoms[n]
  BY <1>1
<1>8. \A n \in Len(atoms) + 1 .. Len(atoms') :
           atoms'[n].type = "I8" => Lies(V, D, f, Behind(n)', origin', n)
  BY <1>1, <1>4
<1> QED BY <1>1, <1>3, <1>5, <1>6, <1>7, <1>8, PcGrows

\* A step of the scanner, or the end of the assembler.
LEMMA ScannerHolds ==
  ASSUME AsmInv, asm = "parse", asm' \in {"parse", "output", "failed", "crashed"},
         UNCHANGED <<exprs, s_sym_table, parsed, pcVars, atoms, origin, places, outVars>>,
         calls' = calls, yyvsp' = yyvsp \/ yyvsp' \in Seq(Pointer),
         \A n \in DOMAIN named \cap BinaryName : n \in DOMAIN named' /\ named'[n] = named[n],
         ScanInv'
  PROVE  AsmInv'
<1>1. EInv /\ ValueInv /\ PcMeans /\ OutInv
  BY DEF AsmInv
<1>2. calls \in Seq(Pointer) /\ Len(calls) <= MAX_DEPTH /\ Len(exprs) \in Nat
      /\ Len(parsed) = Len(exprs)
  BY <1>1 DEF EInv, ExprTypeOK
<1>3. EInv'
  BY <1>1, <1>2, PoolStays
<1>4. Grows
  BY <1>2 DEF Grows
<1>5. Pointer' = Pointer
  BY DEF Pointer
<1>6. ValueInv'
  <2>1. yyvsp' \in Seq(Pointer')
    BY <1>1, <1>5 DEF ValueInv
  <2>2. s_pc1' \in Pointer' \cup {unset_value} /\ s_pc2' \in Word32
    BY <1>1, <1>5 DEF ValueInv, pcVars
  <2>3. origin' \in Origin /\ origin'.org \in Pointer' \cup {unset_value}
        /\ origin'.atom <= Len(atoms) /\ (origin'.org = unset_value <=> s_pc1' = unset_value)
    BY <1>1, <1>5 DEF ValueInv, pcVars
  <2>4. atoms' = atoms /\ places' = places
    OBVIOUS
  <2> QED BY ONLY <1>1, <1>4, <2>1, <2>2, <2>3, <2>4, ValueGrows
<1>7. PcMeans'
  BY <1>1, <1>2, <1>4, PcStays
<1>8. OutInv'
  <2>1. Len(atoms') \in Nat
    BY <1>1 DEF ValueInv
  <2> QED BY <1>1, <2>1, OutStays
<1> QED BY <1>3, <1>6, <1>7, <1>8 DEF AsmInv

\* A rule ends the assembler.
LEMMA ExitKeeps ==
  ASSUME AsmInv, asm = "parse", Top # <<>>, buffers' = Consumed, Exit
  PROVE  AsmInv'
<1>1. ScanInv'
  BY ExitHolds DEF AsmInv
<1>2. /\ asm' = "failed" /\ calls' = calls /\ named' = named /\ yyvsp' = yyvsp
      /\ UNCHANGED <<exprs, s_sym_table, parsed, pcVars, atoms, origin, places, outVars>>
  BY DEF Exit, parseVars
<1> QED BY <1>1, <1>2, ScannerHolds

\* What Create does for the invariant: the expressions that were there stay.
LEMMA CreateGrows ==
  ASSUME AsmInv, NEW nodes \in Seq(Expression), NEW l \in Nat, l = Len(exprs) + Len(nodes),
         Create(nodes), UNCHANGED <<asm, calls>>,
         \A n \in 1 .. Len(nodes) : Arguments(nodes[n]) \subseteq 1 .. l,
         DOMAIN s_sym_table' \subseteq Name,
         \A s \in DOMAIN s_sym_table' : s_sym_table'[s] \in 1 .. l,
         \A s \in DOMAIN s_sym_table :
           s \in DOMAIN s_sym_table' /\ s_sym_table'[s] = s_sym_table[s],
         \A n \in DOMAIN named \cap BinaryName : n \in DOMAIN named' /\ named'[n] = named[n]
  PROVE  /\ EInv' /\ Grows
         /\ Pointer' = 1 .. l /\ Len(parsed') = l /\ Len(parsed) = Len(exprs)
         /\ Len(exprs) \in Nat
         /\ \A n \in 1 .. Len(nodes) : parsed'[Len(exprs) + n] = nodes[n]
<1>1. EInv
  BY DEF AsmInv
<1>2. /\ EInv' /\ Len(exprs') = l
      /\ \A e \in Pointer : exprs'[e] = exprs[e] /\ parsed'[e] = parsed[e]
      /\ \A n \in 1 .. Len(nodes) : /\ exprs'[Len(exprs) + n] = nodes[n]
                                    /\ parsed'[Len(exprs) + n] = nodes[n]
  BY <1>1, CreateHolds
<1>3. Len(parsed') = Len(exprs')
  BY <1>2 DEF EInv, ExprTypeOK
<1>4. Len(exprs) \in Nat /\ Len(nodes) \in Nat /\ Len(parsed) = Len(exprs)
  BY <1>1 DEF EInv, ExprTypeOK
<1>5. Grows
  BY <1>2, <1>4 DEF Grows
<1> QED BY <1>2, <1>3, <1>4, <1>5 DEF Pointer

\* Names that need no file.
LEMMA NamedSame ==
  ASSUME AsmInv, named' = named
  PROVE  /\ \A n \in DOMAIN named : n \in DOMAIN named' /\ named'[n] = named[n]
         /\ \A n \in DOMAIN named' : n \in DOMAIN named \cup BinaryName
         /\ BinaryOK'
BY DEF AsmInv, ScanInv, BinaryOK

\* An expression of one node is made.
LEMMA NewExprHolds ==
  ASSUME AsmInv, NEW k, At(k, {"INITIAL"}), buffers' = Consumed, IsExpression(Item),
         NEW node \in Expression, Arguments(node) \subseteq Pointer,
         Create(<<node>>), yyvsp' = Append(Popped(Takes(Item)), Fresh(1)),
         UNCHANGED <<asm, s_sym_table, calls, pcVars, atoms, origin, places, outVars>>,
         ScanFrame,
         \A n \in DOMAIN named : n \in DOMAIN named' /\ named'[n] = named[n],
         \A n \in DOMAIN named' : n \in DOMAIN named \cup BinaryName,
         BinaryOK'
  PROVE  AsmInv'
<1>1. EInv /\ ScanInv /\ ValueInv /\ PcMeans /\ OutInv
  BY DEF AsmInv
<1>2. asm = "parse" /\ Item \in Items
  BY <1>1, AtItem
<1>3. PICK x \in Nat : x = Len(exprs)
  BY <1>1 DEF EInv, ExprTypeOK
<1>4. <<node>> \in Seq(Expression) /\ Len(<<node>>) = 1 /\ <<node>>[1] = node
  OBVIOUS
<1>5. DOMAIN s_sym_table' \subseteq Name
      /\ (\A s \in DOMAIN s_sym_table' : s_sym_table'[s] \in 1 .. x + 1)
      /\ \A s \in DOMAIN s_sym_table :
           s \in DOMAIN s_sym_table' /\ s_sym_table'[s] = s_sym_table[s]
  BY <1>1, <1>3 DEF EInv, ExprTypeOK, Pointer
<1>6. \A n \in 1 .. Len(<<node>>) : Arguments(<<node>>[n]) \subseteq 1 .. x + 1
  BY <1>3, <1>4 DEF Pointer
<1>7. EInv' /\ Grows /\ Pointer' = 1 .. x + 1 /\ Len(parsed') = x + 1
      /\ Len(parsed) = Len(exprs)
  <2>1. PICK nodes \in Seq(Expression) : nodes = <<node>>
    BY <1>4
  <2>2. Len(nodes) = 1 /\ Create(nodes)
    BY <1>4, <2>1
  <2>3. \A n \in 1 .. Len(nodes) : Arguments(nodes[n]) \subseteq 1 .. x + 1
    BY <1>6, <2>1
  <2>4. PICK l \in Nat : l = x + 1 /\ l = Len(exprs) + Len(nodes)
    BY <1>3, <2>2
  <2>5. /\ \A n \in DOMAIN named \cap BinaryName : n \in DOMAIN named' /\ named'[n] = named[n]
        /\ UNCHANGED <<asm, calls>>
    OBVIOUS
  <2>6. /\ DOMAIN s_sym_table' \subseteq Name
        /\ \A s \in DOMAIN s_sym_table' : s_sym_table'[s] \in 1 .. l
        /\ \A s \in DOMAIN s_sym_table :
             s \in DOMAIN s_sym_table' /\ s_sym_table'[s] = s_sym_table[s]
        /\ \A n \in 1 .. Len(nodes) : Arguments(nodes[n]) \subseteq 1 .. l
    BY <1>5, <2>3, <2>4
  <2>7. EInv' /\ Grows /\ Pointer' = 1 .. l /\ Len(parsed') = l /\ Len(parsed) = Len(exprs)
    BY ONLY AsmInv, <2>2, <2>4, <2>5, <2>6, CreateGrows
  <2> QED BY <2>4, <2>7
<1>8. Takes(Item) \in Nat /\ Takes(Item) <= Len(yyvsp)
  <2>1. Accepts(Item, Here)
    BY <1>1, AtItem DEF At
  <2>2. Takes(Item) \in Nat
    BY DEF Takes, IsExpression
  <2> QED BY <2>1, <2>2, <1>1, AtStatement
<1>9. Popped(Takes(Item)) \in Seq(Pointer)
  BY <1>1, <1>8, PoppedIs DEF ValueInv
<1>10. Fresh(1) = x + 1
  BY <1>3 DEF Fresh
<1>11. ScanInv'
  <2>1. Fresh(1) \in Nat
    BY <1>10
  <2> QED BY <1>1, <2>1, ReduceExpression
<1>12. yyvsp' \in Seq(Pointer')
  <2>1. Pointer \subseteq Pointer'
    BY <1>3, <1>7 DEF Pointer
  <2>2. Popped(Takes(Item)) \in Seq(Pointer')
    BY <1>9, <2>1
  <2>3. x + 1 \in Pointer'
    BY <1>7
  <2> QED BY <1>10, <2>2, <2>3
<1>13. ValueInv'
  <2>1. Pointer \subseteq Pointer'
    BY <1>3, <1>7 DEF Pointer
  <2>2. s_pc1' \in Pointer' \cup {unset_value} /\ s_pc2' \in Word32
    BY <1>1, <2>1 DEF ValueInv, pcVars
  <2>3. origin' \in Origin /\ origin'.org \in Pointer' \cup {unset_value}
        /\ origin'.atom <= Len(atoms) /\ (origin'.org = unset_value <=> s_pc1' = unset_value)
    BY <1>1, <2>1 DEF ValueInv, pcVars
  <2>4. atoms' = atoms /\ places' = places
    OBVIOUS
  <2> QED BY ONLY <1>1, <1>7, <1>12, <2>2, <2>3, <2>4, ValueGrows
<1>14. PcMeans'
  <2>1. Len(parsed') = Len(exprs')
    BY <1>7 DEF EInv, ExprTypeOK
  <2> QED BY <1>1, <1>7, <2>1, PcStays
<1>15. OutInv'
  <2>1. Len(atoms') \in Nat
    BY <1>1 DEF ValueInv
  <2> QED BY <1>1, <1>2, <2>1, OutStays
<1> QED BY <1>7, <1>11, <1>13, <1>14, <1>15 DEF AsmInv

LEMMA NewExprStep ==
  ASSUME AsmInv, NEW k, Reduce(k), IsExpression(Item),
         NEW node \in Expression, Arguments(node) \subseteq Pointer,
         NewExpr(Takes(Item), node)
  PROVE  AsmInv'
<1>1. At(k, {"INITIAL"}) /\ buffers' = Consumed
  BY DEF Reduce, Scan
<1>2. /\ Create(<<node>>) /\ yyvsp' = Append(Popped(Takes(Item)), Fresh(1))
      /\ UNCHANGED <<asm, s_sym_table, calls, pcVars, atoms, origin, places, outVars>>
      /\ ScanFrame /\ named' = named
  BY DEF NewExpr
<1>3. /\ \A n \in DOMAIN named : n \in DOMAIN named' /\ named'[n] = named[n]
      /\ \A n \in DOMAIN named' : n \in DOMAIN named \cup BinaryName
      /\ BinaryOK'
  BY <1>2, NamedSame
<1> QED BY <1>1, <1>2, <1>3, NewExprHolds

\* The last n expressions are there when an item takes them.
LEMMA ArgsThere ==
  ASSUME AsmInv, NEW k, At(k, {"INITIAL"}), NEW n \in Nat, n = Takes(Item)
  PROVE  /\ n <= Len(yyvsp) /\ Len(yyvsp) \in Nat
         /\ \A m \in 0 .. n - 1 : Arg(m) \in Pointer
         /\ Popped(n) \in Seq(Pointer)
<1>1. ScanInv /\ yyvsp \in Seq(Pointer)
  BY DEF AsmInv, ValueInv
<1>2. n <= Len(yyvsp) /\ Len(yyvsp) \in Nat
  BY <1>1, AtStatement
<1> QED BY <1>1, <1>2, PoppedIs

LEMMA NewExprNumberHolds ==
  ASSUME AsmInv, NewExprNumber
  PROVE  AsmInv'
<1>1. Reduce("number") /\ NewExpr(0, Number(Item.n))
  BY DEF NewExprNumber
<1>2. Item \in Items /\ Item.k = "number"
  BY <1>1, AtItem DEF Reduce, Scan, AsmInv
<1>3. Item.n \in Word32 /\ IsExpression(Item) /\ Takes(Item) = 0
  BY <1>2, ItemShape DEF IsExpression, Takes
<1>4. Number(Item.n) \in Expression /\ Arguments(Number(Item.n)) = {}
  BY <1>3 DEF Number, Expression, Arguments, UnaryOp, BinaryOp
<1> QED BY <1>1, <1>3, <1>4, NewExprStep

LEMMA NewExprSymrefHolds ==
  ASSUME AsmInv, NewExprSymref
  PROVE  AsmInv'
<1>1. Reduce("symref") /\ NewExpr(0, Symref(Item.name))
  BY DEF NewExprSymref
<1>2. Item \in Items /\ Item.k = "symref"
  BY <1>1, AtItem DEF Reduce, Scan, AsmInv
<1>3. Item.name \in Name /\ IsExpression(Item) /\ Takes(Item) = 0
  BY <1>2, ItemShape DEF IsExpression, Takes
<1>4. Symref(Item.name) \in Expression /\ Arguments(Symref(Item.name)) = {}
  BY <1>3 DEF Symref, Expression, Arguments, UnaryOp, BinaryOp
<1> QED BY <1>1, <1>3, <1>4, NewExprStep

LEMMA NewIsDefinedHolds ==
  ASSUME AsmInv, NewIsDefined
  PROVE  AsmInv'
<1>1. Reduce("defined") /\ NewExpr(0, Number(Truth(IsDefined(Item.name))))
  BY DEF NewIsDefined
<1>2. Item \in Items /\ Item.k = "defined"
  BY <1>1, AtItem DEF Reduce, Scan, AsmInv
<1>3. IsExpression(Item) /\ Takes(Item) = 0
  BY <1>2 DEF IsExpression, Takes
<1>4. Truth(IsDefined(Item.name)) \in Word32
  BY WordAssumption DEF Truth, Word32
<1>5. \A n \in Word32 : Number(n) \in Expression /\ Arguments(Number(n)) = {}
  BY DEF Number, Expression, Arguments, UnaryOp, BinaryOp
<1> QED BY <1>1, <1>3, <1>4, <1>5, NewExprStep

LEMMA NewExprOp1Holds ==
  ASSUME AsmInv, NewExprOp1
  PROVE  AsmInv'
<1>1. Reduce("op1") /\ NewExpr(1, Op1(Item.op, Arg(0)))
  BY DEF NewExprOp1
<1>2. Item \in Items /\ Item.k = "op1"
  BY <1>1, AtItem DEF Reduce, Scan, AsmInv
<1>3. Item.op \in UnaryOp /\ IsExpression(Item) /\ Takes(Item) = 1
  BY <1>2, ItemShape DEF IsExpression, Takes
<1>4. PICK e \in Pointer : e = Arg(0)
  BY <1>1, <1>3, ArgsThere DEF Reduce, Scan
<1>5. PICK op \in UnaryOp : op = Item.op
  BY <1>3
<1>6. e \in Nat
  BY DEF Pointer
<1>7. Op1(op, e) \in Expression /\ Arguments(Op1(op, e)) = {e}
  BY <1>6 DEF Op1, Expression, Arguments, UnaryOp, BinaryOp
<1> QED BY <1>1, <1>3, <1>4, <1>5, <1>7, NewExprStep

LEMMA NewExprOp2Holds ==
  ASSUME AsmInv, NewExprOp2
  PROVE  AsmInv'
<1>1. Reduce("op2") /\ NewExpr(2, Op2(Item.op, Arg(1), Arg(0)))
  BY DEF NewExprOp2
<1>2. Item \in Items /\ Item.k = "op2"
  BY <1>1, AtItem DEF Reduce, Scan, AsmInv
<1>3. Item.op \in BinaryOp /\ IsExpression(Item) /\ Takes(Item) = 2
  BY <1>2, ItemShape DEF IsExpression, Takes
<1>4. \A m \in 0 .. 2 - 1 : Arg(m) \in Pointer
  BY <1>1, <1>3, ArgsThere DEF Reduce, Scan
<1>5. PICK e \in Pointer : e = Arg(0)
  BY <1>4
<1>6. PICK d \in Pointer : d = Arg(1)
  BY <1>4
<1>7. PICK op \in BinaryOp : op = Item.op
  BY <1>3
<1>8. e \in Nat /\ d \in Nat
  BY DEF Pointer
<1>9. Op2(op, d, e) \in Expression /\ Arguments(Op2(op, d, e)) = {d, e}
  BY <1>8 DEF Op2, Expression, Arguments, UnaryOp, BinaryOp
<1> QED BY <1>1, <1>3, <1>5, <1>6, <1>7, <1>9, NewExprStep

\* A file of bytes is read once and stays.
LEMMA BinaryStored ==
  ASSUME AsmInv, NEW name \in BinaryName, Exists(name)
  PROVE  /\ Content(name) \in Seq(0 .. 255)
         /\ GetNamedBuffer(name) =>
              /\ \A n \in DOMAIN named : n \in DOMAIN named' /\ named'[n] = named[n]
              /\ \A n \in DOMAIN named' : n \in DOMAIN named \cup BinaryName
              /\ name \in DOMAIN named' /\ named'[name] = Content(name)
              /\ BinaryOK'
<1>1. BinaryOK
  BY DEF AsmInv, ScanInv
<1>2. Content(name) \in Seq(0 .. 255)
  <2>1. CASE name \in DOMAIN named
    BY <1>1, <2>1 DEF BinaryOK, Content
  <2>2. CASE name \notin DOMAIN named
    <3>1. name \in DOMAIN Files
      BY <2>2 DEF Exists
    <3>2. Files[name] \in Seq(0 .. 255)
      BY <3>1, SourceAssumption
    <3> QED BY <2>2, <3>2 DEF Content
  <2> QED BY <2>1, <2>2
<1>3. ASSUME GetNamedBuffer(name)
      PROVE  /\ \A n \in DOMAIN named : n \in DOMAIN named' /\ named'[n] = named[n]
             /\ \A n \in DOMAIN named' : n \in DOMAIN named \cup BinaryName
             /\ name \in DOMAIN named' /\ named'[name] = Content(name)
             /\ BinaryOK'
  <2>1. named' = Store(name, Content(name))
    BY <1>3 DEF GetNamedBuffer
  <2>2. /\ DOMAIN named' = DOMAIN named \cup {name}
        /\ named'[name] = Content(name)
        /\ \A n \in DOMAIN named : n # name => named'[n] = named[n]
    BY <2>1, StoreIs
  <2>3. \A n \in DOMAIN named : named'[n] = named[n]
    BY <2>2 DEF Content
  <2> QED BY <1>1, <1>2, <2>2, <2>3 DEF BinaryOK
<1> QED BY <1>2, <1>3

\* In front of a rule the source is not at its end.
LEMMA AtRule ==
  ASSUME AsmInv, NEW k, Reduce(k)
  PROVE  /\ At(k, {"INITIAL"}) /\ buffers' = Consumed
         /\ asm = "parse" /\ Top # <<>> /\ Item \in Items /\ Item.k = k
<1>1. ScanInv /\ At(k, {"INITIAL"}) /\ buffers' = Consumed
  BY DEF AsmInv, Reduce, Scan
<1> QED BY <1>1, AtItem

LEMMA PushIfStateKeeps ==
  ASSUME AsmInv, PushIfState
  PROVE  AsmInv'
<1>1. Reduce("if")
  BY DEF PushIfState
<1>2. /\ At("if", {"INITIAL"}) /\ asm = "parse" /\ Item \in Items /\ Item.k = "if"
  BY <1>1, AtRule
<1>3. ScanInv'
  BY PushIfStateHolds DEF AsmInv
<1>4. Takes(Item) = 1
  BY <1>2 DEF Takes
<1>5. Popped(1) \in Seq(Pointer)
  BY <1>2, <1>4, ArgsThere
<1>6. /\ asm' = asm /\ calls' = calls /\ named' = named /\ yyvsp' = Popped(1)
      /\ UNCHANGED <<exprs, s_sym_table, parsed, pcVars, atoms, origin, places, outVars>>
  BY DEF PushIfState, exprVars
<1> QED BY <1>2, <1>3, <1>5, <1>6, ScannerHolds

LEMMA NewExprIncwordHolds ==
  ASSUME AsmInv, NewExprIncword
  PROVE  AsmInv'
<1>1. Reduce("incword") /\ Known
  BY DEF NewExprIncword
<1>2. /\ At("incword", {"INITIAL"}) /\ buffers' = Consumed
      /\ asm = "parse" /\ Top # <<>> /\ Item \in Items /\ Item.k = "incword"
  BY <1>1, AtRule
<1>3. Item.name \in BinaryName /\ IsExpression(Item) /\ Takes(Item) = 1
  BY <1>2, ItemShape DEF IsExpression, Takes
<1>4. CASE Exit
  BY <1>2, <1>4, ExitKeeps
<1>5. CASE ~Exit
  <2>1. PICK file : file = Content(Item.name)
    OBVIOUS
  <2>2. PICK offset : offset = FromEnd(Value(Arg(0)), Len(file))
    OBVIOUS
  <2>3. /\ Exists(Item.name) /\ InRange(offset, Len(file) - 2)
        /\ Create(<<Number(file[offset + 1] + 256 * file[offset + 2])>>)
        /\ yyvsp' = Append(Popped(1), Fresh(1))
        /\ GetNamedBuffer(Item.name)
        /\ UNCHANGED <<asm, s_sym_table, calls, pcVars, atoms, origin, places, outVars>>
        /\ ScanFrame
    BY <1>5, <2>1, <2>2 DEF NewExprIncword
  <2>4. /\ file \in Seq(0 .. 255)
        /\ \A n \in DOMAIN named : n \in DOMAIN named' /\ named'[n] = named[n]
        /\ \A n \in DOMAIN named' : n \in DOMAIN named \cup BinaryName
        /\ BinaryOK'
    BY <1>3, <2>1, <2>3, BinaryStored
  <2>5. PICK e \in Pointer : e = Arg(0)
    BY <1>2, <1>3, ArgsThere
  <2>6. Resolved(e)
    <3>1. NeededNow = <<e>>
      BY <1>2, <2>5 DEF NeededNow
    <3> QED BY <1>1, <3>1 DEF Known
  <2>7. Value(e) \in Int
    <3>1. Value(e) \in Word32
      BY <2>6, ValueRange DEF AsmInv
    <3> QED BY <3>1, WordAssumption DEF Word32
  <2>8. PICK l \in Nat : l = Len(file)
    BY <2>4
  <2>9. offset \in Int /\ 0 <= offset /\ offset <= l - 2
    BY <2>2, <2>3, <2>5, <2>7, <2>8 DEF FromEnd, InRange
  <2>10. offset + 1 \in 1 .. l /\ offset + 2 \in 1 .. l
    BY ONLY <2>9, l \in Nat
  <2>a. \A n \in 1 .. l : file[n] \in 0 .. 255
    BY ONLY <2>4, <2>8
  <2>b. file[offset + 1] \in 0 .. 255 /\ file[offset + 2] \in 0 .. 255
    BY ONLY <2>a, <2>10
  <2>11. PICK a \in 0 .. 255 : a = file[offset + 1]
    BY ONLY <2>b
  <2>12. PICK b \in 0 .. 255 : b = file[offset + 2]
    BY ONLY <2>b
  <2>13. a + 256 * b \in Word32
    BY LimitAssumption, WordAssumption DEF Word32
  <2>14. PICK v \in Word32 : v = a + 256 * b
    BY <2>13
  <2>15. Number(v) \in Expression /\ Arguments(Number(v)) = {}
    BY DEF Number, Expression, Arguments, UnaryOp, BinaryOp
  <2>16. PICK node \in Expression : node = Number(v)
    BY <2>15
  <2>17. Create(<<node>>) /\ Arguments(node) \subseteq Pointer
         /\ yyvsp' = Append(Popped(Takes(Item)), Fresh(1))
    BY <1>3, <2>3, <2>11, <2>12, <2>14, <2>15, <2>16
  <2> QED BY <1>2, <1>3, <2>3, <2>4, <2>17, NewExprHolds
<1> QED BY <1>4, <1>5

\* A value is asked for while the source is read.
LEMMA NeedHolds ==
  ASSUME AsmInv, NEW e \in Pointer, Need(e)
  PROVE  AsmInv'
<1>1. EInv /\ ScanInv /\ ValueInv /\ PcMeans /\ OutInv
  BY DEF AsmInv
<1>2. Call(e) /\ UNCHANGED <<scanVars, parseVars, outVars>>
  BY DEF Need
<1>3. EInv'
  BY <1>1, <1>2, CallHolds
<1>4. UNCHANGED <<exprs, s_sym_table, parsed>> /\ asm' \in {asm, "crashed"}
  BY <1>2 DEF Call
<1>5. UNCHANGED <<scanVars, yyvsp>> /\ UNCHANGED <<yyvsp, s_pc1, s_pc2, atoms, origin, places>>
      /\ named' = named /\ out' = out /\ ends' = ends /\ UNCHANGED pcVars
  BY <1>2 DEF parseVars, scanVars, pcVars, outVars
<1>6. ScanInv'
  BY <1>1, <1>4, <1>5, ScanStays
<1>7. Len(exprs) \in Nat /\ Len(parsed) = Len(exprs)
  BY <1>1 DEF EInv, ExprTypeOK
<1>8. Grows
  BY <1>4, <1>5, <1>7 DEF Grows
<1>9. PcMeans'
  BY <1>1, <1>4, <1>5, <1>7, <1>8, PcStays
<1>10. ValueInv'
  BY <1>1, <1>4, <1>5, SMTT(30) DEF ValueInv, AtomOK, MarkOK, Pointer, Expects
<1>11. OutInv'
  BY <1>1, <1>4, <1>5 DEF OutInv, PutOut, End, Values, Valued, Resolved, Value, Pointer
<1> QED BY <1>3, <1>6, <1>9, <1>10, <1>11 DEF AsmInv

LEMMA ResolveForParserHolds ==
  ASSUME AsmInv, ResolveForParser
  PROVE  AsmInv'
<1>1. PICK k \in {"if", "incword", "incbin"} : At(k, {"INITIAL"})
  BY DEF ResolveForParser
<1>2. Item \in Items /\ Item.k = k
  BY <1>1, AtItem DEF AsmInv
<1>3. PICK n \in 1 .. Len(NeededNow) : Need(NeededNow[n])
  BY DEF ResolveForParser, NeedFirst
<1>4. CASE k \in {"if", "incword"}
  <2>1. Takes(Item) = 1
    BY <1>2, <1>4 DEF Takes
  <2>2. Arg(0) \in Pointer
    BY <1>1, <2>1, ArgsThere
  <2>3. NeededNow = <<Arg(0)>>
    BY <1>2, <1>4 DEF NeededNow
  <2>4. NeededNow[n] = Arg(0)
    BY <1>3, <2>3
  <2> QED BY <1>3, <2>2, <2>4, NeedHolds
<1>5. CASE k = "incbin"
  <2>1. Takes(Item) = Item.args /\ Item.args \in 0 .. 2
    BY <1>2, <1>5, ItemShape DEF Takes
  <2>2. CASE Item.args = 1
    <3>1. Arg(0) \in Pointer
      BY <1>1, <2>1, <2>2, ArgsThere
    <3>2. NeededNow = <<>> \/ NeededNow = <<Arg(0)>>
      BY <1>2, <1>5, <2>2 DEF NeededNow
    <3>3. NeededNow[n] = Arg(0)
      BY <1>3, <3>2
    <3> QED BY <1>3, <3>1, <3>3, NeedHolds
  <2>3. CASE Item.args = 2
    <3>1. \A m \in 0 .. 2 - 1 : Arg(m) \in Pointer
      BY <1>1, <2>1, <2>3, ArgsThere
    <3>2. Arg(0) \in Pointer /\ Arg(1) \in Pointer
      BY <3>1
    <3>3. NeededNow = <<>> \/ NeededNow = <<Arg(1), Arg(0)>>
      BY <1>2, <1>5, <2>3 DEF NeededNow
    <3>4. NeededNow[n] \in Pointer
      BY <1>3, <3>2, <3>3
    <3> QED BY <1>3, <3>4, NeedHolds
  <2>4. CASE Item.args \notin {1, 2}
    <3>1. NeededNow = <<>>
      BY <1>2, <1>5, <2>4 DEF NeededNow
    <3> QED BY <1>3, <3>1
  <2> QED BY <2>2, <2>3, <2>4
<1> QED BY <1>1, <1>4, <1>5

\* Only one kind of atom has a size that is a value.
LEMMA SizeSame ==
  ASSUME NEW a \in AtomSet, NEW V, NEW W, a.type = "res" => V[a.args[1]] = W[a.args[1]]
  PROVE  Size(a, V) = Size(a, W)
<1>1. a.type \in DOMAIN OpSize \cup {"byte", "word", "res", "incbin"}
  BY DEF AtomSet
<1>2. CASE a.type \in DOMAIN OpSize
  <2>1. \A X : Size(a, X) = OpSize[a.type]
    BY <1>2 DEF Size, OpSize
  <2> QED BY <2>1
<1>3. CASE a.type = "byte"
  <2>1. \A X : Size(a, X) = Len(a.args)
    BY <1>3 DEF Size, OpSize
  <2> QED BY <2>1
<1>4. CASE a.type = "word"
  <2>1. \A X : Size(a, X) = 2 * Len(a.args)
    BY <1>4 DEF Size, OpSize
  <2> QED BY <2>1
<1>5. CASE a.type = "incbin"
  <2>1. \A X : Size(a, X) = a.length
    BY <1>5 DEF Size, OpSize
  <2> QED BY <2>1
<1>6. CASE a.type = "res"
  <2>1. \A X : Size(a, X) = X[a.args[1]]
    BY <1>6 DEF Size, OpSize
  <2> QED BY <1>6, <2>1
<1> QED BY <1>1, <1>2, <1>3, <1>4, <1>5, <1>6

\* The n-th atom, and the expressions it has.
LEMMA AtomArgs ==
  ASSUME ValueInv, NEW n \in 1 .. Len(atoms)
  PROVE  /\ atoms[n] \in AtomSet /\ AtomOK(atoms[n])
         /\ atoms[n].args \in Seq(Pointer) /\ Len(atoms[n].args) = Expects(atoms[n])
         /\ \A m \in 1 .. Len(atoms[n].args) : atoms[n].args[m] \in Pointer
<1>1. atoms \in Seq(AtomSet) /\ AtomOK(atoms[n])
  BY DEF ValueInv
<1>2. atoms[n] \in AtomSet
  BY <1>1
<1>3. PICK args : args = atoms[n].args
  OBVIOUS
<1>4. args \in Seq(Pointer) /\ Len(args) = Expects(atoms[n])
  BY <1>1, <1>3 DEF AtomOK
<1>5. \A m \in 1 .. Len(args) : args[m] \in Pointer
  BY <1>4
<1> QED BY <1>1, <1>2, <1>3, <1>4, <1>5

\* The next atom to put out.
LEMMA AtomIs ==
  ASSUME AsmInv, AtAtom
  PROVE  /\ Len(ends) + 1 \in 1 .. Len(atoms) /\ Len(ends) \in Nat
         /\ asm = "output" /\ Atom = atoms[Len(ends) + 1]
         /\ \A m \in 1 .. Len(Atom.args) : Atom.args[m] \in Pointer
<1>1. asm = "output" /\ Len(ends) < Len(atoms)
  BY DEF AtAtom
<1>2. Len(ends) \in Nat /\ Len(atoms) \in Nat
  BY DEF AsmInv, OutInv, ValueInv
<1>3. Len(ends) + 1 \in 1 .. Len(atoms)
  BY <1>1, <1>2
<1>4. Atom = atoms[Len(ends) + 1]
  BY DEF Atom
<1>5. ValueInv
  BY DEF AsmInv
<1>6. \A m \in 1 .. Len(Atom.args) : Atom.args[m] \in Pointer
  BY <1>3, <1>4, <1>5, AtomArgs
<1> QED BY <1>1, <1>2, <1>3, <1>4, <1>6

LEMMA ResolveForOutputHolds ==
  ASSUME AsmInv, ResolveForOutput
  PROVE  AsmInv'
<1>1. AtAtom
  BY DEF ResolveForOutput
<1>2. PICK n \in 1 .. Len(Atom.args) : Need(Atom.args[n])
  BY DEF ResolveForOutput, NeedFirst
<1>3. Atom.args[n] \in Pointer
  BY <1>1, AtomIs
<1> QED BY <1>2, <1>3, NeedHolds

LEMMA ResolveStepHolds ==
  ASSUME AsmInv, ResolveStep
  PROVE  AsmInv'
<1>1. EInv /\ ScanInv /\ ValueInv /\ PcMeans /\ OutInv
  BY DEF AsmInv
<1>2. Resolve /\ UNCHANGED <<scanVars, parseVars, outVars>>
  BY DEF ResolveStep
<1>3. /\ EInv'
      /\ UNCHANGED <<s_sym_table, parsed>> /\ Pointer' = Pointer
      /\ \A e \in Pointer : Resolved(e) => exprs'[e] = exprs[e]
      /\ asm' \in {asm, "failed", "crashed"} /\ asm \in {"parse", "output"}
  BY <1>1, <1>2, ResolveKeeps
<1>5. UNCHANGED <<scanVars, yyvsp>> /\ UNCHANGED <<yyvsp, s_pc1, s_pc2, atoms, origin, places>>
      /\ named' = named /\ out' = out /\ ends' = ends /\ UNCHANGED pcVars
  BY <1>2 DEF parseVars, scanVars, pcVars, outVars
<1>6. ScanInv'
  BY <1>1, <1>3, <1>5, ScanStays
<1>7. Len(exprs) \in Nat /\ Len(parsed) = Len(exprs) /\ Len(parsed') = Len(exprs')
  BY <1>1, <1>3 DEF EInv, ExprTypeOK
<1>8. Len(exprs') = Len(exprs) /\ Grows
  BY <1>3, <1>5, <1>7 DEF Grows
<1>9. PcMeans'
  BY <1>1, <1>3, <1>5, <1>7, <1>8, PcStays
<1>10. ValueInv'
  BY <1>1, <1>3, <1>5 DEF ValueInv, AtomOK, MarkOK, Expects
<1>11. OutInv'
  <2>1. \A e \in Pointer : Resolved(e) => Resolved(e)' /\ Value(e)' = Value(e)
    BY <1>3 DEF Resolved, Value
  <2>2. ASSUME NEW n \in 1 .. Len(ends) PROVE PutOut(n)'
    <3>1. n \in 1 .. Len(atoms)
      <4>1. PICK x \in Nat : x = Len(ends)
        BY <1>1 DEF OutInv
      <4>2. PICK y \in Nat : y = Len(atoms)
        BY <1>1 DEF ValueInv
      <4>3. x <= y
        BY <1>1, <4>1, <4>2 DEF OutInv
      <4> QED BY <4>1, <4>2, <4>3
    <3>2. PutOut(n)
      BY <1>1 DEF OutInv
    <3>3. PICK a \in AtomSet : a = atoms[n]
      BY <1>1, <3>1, AtomArgs
    <3>4. a.args \in Seq(Pointer) /\ \A m \in 1 .. Len(a.args) : a.args[m] \in Pointer
      BY <1>1, <3>1, <3>3, AtomArgs
    <3>5. \A m \in 1 .. Len(a.args) : Resolved(a.args[m])
      BY <3>2, <3>3 DEF PutOut
    <3>6. \A m \in 1 .. Len(a.args) : Resolved(a.args[m])' /\ Value(a.args[m])' = Value(a.args[m])
      BY <2>1, <3>4, <3>5
    <3>7. Len(a.args) = Expects(a)
      BY <1>1, <3>1, <3>3, AtomArgs
    <3>8. Size(a, Values') = Size(a, Values)
      <4>1. ASSUME a.type = "res" PROVE Values'[a.args[1]] = Values[a.args[1]]
        <5>1. 1 \in 1 .. Len(a.args)
          <6>1. Expects(a) = 2
            BY <4>1 DEF Expects
          <6> QED BY <3>7, <6>1
        <5>2. PICK e \in Pointer : e = a.args[1] /\ Resolved(e) /\ Resolved(e)'
                                   /\ Value(e)' = Value(e)
          BY <3>4, <3>5, <3>6, <5>1
        <5>3. e \in Nat /\ e \in Valued /\ e \in Valued'
          BY <1>3, <5>2 DEF Valued, Pointer
        <5>4. Values[e] = Value(e)
          BY <5>3 DEF Values
        <5>5. Values'[e] = Value(e)'
          BY <5>3 DEF Values
        <5>6. Values'[a.args[1]] = Values[a.args[1]]
          BY <5>2, <5>4, <5>5
        <5> QED BY <5>6
      <4>2. \A V, W : (a.type = "res" => V[a.args[1]] = W[a.args[1]]) => Size(a, V) = Size(a, W)
        BY SizeSame
      <4> QED BY <4>1, <4>2
    <3>9. a.type = "I8" => 1 \in 1 .. Len(a.args)
      BY <3>7 DEF Expects
    <3>10. PICK z : z = ends[n]
      OBVIOUS
    <3>11. /\ z = End(n - 1) + Size(a, Values) /\ z <= Len(out)
           /\ a.type = "I8" =>
                /\ Value(a.args[1]) \in -128 .. 127
                /\ z > 0 /\ out[z] = LowByte(Value(a.args[1]))
      BY <3>2, <3>3, <3>10 DEF PutOut
    <3>12. End(n - 1)' = End(n - 1)
      BY <1>5 DEF End
    <3>13. a.type = "I8" => Value(a.args[1])' = Value(a.args[1])
      BY <3>6, <3>9
    <3>14. atoms'[n] = a /\ ends'[n] = z /\ Len(out') = Len(out) /\ out'[z] = out[z]
      BY <1>5, <3>3, <3>10
    <3>15. a.type = "I8" => /\ Value(a.args[1])' \in -128 .. 127
                            /\ z > 0 /\ out'[z] = LowByte(Value(a.args[1])')
      BY <3>11, <3>13, <3>14
    <3> QED BY <3>6, <3>8, <3>11, <3>12, <3>14, <3>15 DEF PutOut
  <2>3. End(Len(ends))' = End(Len(ends))
    BY <1>5 DEF End
  <2> QED BY <1>1, <1>3, <1>5, <2>2, <2>3 DEF OutInv
<1> QED BY <1>3, <1>6, <1>9, <1>10, <1>11 DEF AsmInv

\* A statement was read.
LEMMA StatementHolds ==
  ASSUME AsmInv, NEW k, At(k, {"INITIAL"}), buffers' = Consumed,
         k \notin {"IF", "ELIF", "if"}, ~IsExpression(Item),
         yyvsp' = Popped(Takes(Item)), asm' = asm, ScanFrame, UNCHANGED outVars,
         \A n \in DOMAIN named : n \in DOMAIN named' /\ named'[n] = named[n],
         \A n \in DOMAIN named' : n \in DOMAIN named \cup BinaryName,
         BinaryOK',
         EInv', Grows,
         s_pc1' \in Pointer' \cup {unset_value}, s_pc2' \in Word32,
         \/ atoms' = atoms
         \/ \E a \in AtomSet : atoms' = Append(atoms, a) /\ AtomOK(a)',
         origin' \in Origin, origin'.org \in Pointer' \cup {unset_value},
         origin'.atom <= Len(atoms),
         origin'.org = unset_value <=> s_pc1' = unset_value,
         \/ places' = places
         \/ \E p \in [pc : Nat, after : Origin, atom : Nat] :
              places' = Append(places, p) /\ MarkOK(p)',
         PcMeans'
  PROVE  AsmInv'
<1>1. ScanInv /\ ValueInv /\ OutInv
  BY DEF AsmInv
<1>2. ScanInv' /\ yyvsp' = <<>>
  BY <1>1, ReduceStatement
<1>3. yyvsp' \in Seq(Pointer')
  BY <1>2
<1>4. ValueInv'
  BY <1>1, <1>3, ValueGrows
<1>5. asm = "parse"
  BY <1>1, AtItem
<1>6. Len(atoms') \in Nat
  BY <1>4 DEF ValueInv
<1>7. OutInv'
  BY <1>1, <1>5, <1>6, OutStays
<1> QED BY <1>2, <1>4, <1>7 DEF AsmInv

\* What is known of the values and the bytes before the statement.
LEMMA PcBefore ==
  ASSUME AsmInv, Grows, Len(parsed') = Len(exprs'),
         NEW V, NEW D, NEW f, V \in [Nat -> Int], D \in SUBSET Nat, f \in [Nat -> Int],
         Obeys(V, D, parsed'), Adds(f, V, atoms'),
         \/ atoms' = atoms
         \/ \E a \in AtomSet : atoms' = Append(atoms, a)
  PROVE  PcHolds(V, D, f)
<1>1. PcMeans /\ atoms \in Seq(AtomSet) /\ Len(parsed) = Len(exprs)
  BY DEF AsmInv, ValueInv, EInv, ExprTypeOK
<1>2. Obeys(V, D, parsed)
  <2>1. Len(parsed) \in Nat /\ Len(parsed') \in Nat /\ Len(parsed) <= Len(parsed')
        /\ \A e \in 1 .. Len(parsed) : parsed'[e] = parsed[e]
    BY <1>1 DEF Grows, Pointer
  <2>2. \A longer : Len(longer) \in Nat /\ Len(parsed) <= Len(longer)
          /\ (\A e \in 1 .. Len(parsed) : longer[e] = parsed[e]) /\ Obeys(V, D, longer)
          => Obeys(V, D, parsed)
    BY <2>1, ObeysBack
  <2> QED BY <2>1, <2>2
<1>3. Adds(f, V, atoms)
  <2>1. CASE atoms' = atoms
    BY <2>1
  <2>2. CASE \E a \in AtomSet : atoms' = Append(atoms, a)
    <3>1. PICK a \in AtomSet : atoms' = Append(atoms, a)
      BY <2>2
    <3>2. PICK l \in Nat : l = Len(atoms)
      BY <1>1
    <3> QED BY <1>1, <3>1, <3>2, AddsBack
  <2> QED BY <2>1, <2>2
<1> QED BY <1>1, <1>2, <1>3 DEF PcMeans

LEMMA Appended ==
  ASSUME NEW V, NEW f, f \in [Nat -> Int], AsmInv, NEW a \in AtomSet,
         atoms' = Append(atoms, a), Adds(f, V, atoms')
  PROVE  \E l \in Nat :
           /\ l = Len(atoms) /\ Len(atoms') = l + 1 /\ atoms'[l + 1] = a
           /\ \A n \in 1 .. l : atoms'[n] = atoms[n]
           /\ f[l + 1] = f[l] + Size(a, V) /\ f[l] \in Int /\ f[l + 1] \in Int
<1>1. atoms \in Seq(AtomSet)
  BY DEF AsmInv, ValueInv
<1>2. PICK l \in Nat : l = Len(atoms)
  BY <1>1
<1>3. f[l + 1] = f[l] + Size(a, V)
  BY <1>1, <1>2, AddsBack
<1>4. Len(atoms') = l + 1 /\ atoms'[l + 1] = a /\ \A n \in 1 .. l : atoms'[n] = atoms[n]
  BY <1>1, <1>2, AppendIs
<1>5. f[l] \in Int /\ f[l + 1] \in Int
  BY <1>2
<1> QED BY <1>2, <1>3, <1>4, <1>5

\* Equal sums that wrap around stay equal when the same is added.
LEMMA WrapBoth ==
  ASSUME NEW a \in Int, NEW b \in Int, NEW n \in Int, Wrap(a) = Wrap(b)
  PROVE  Wrap(a + n) = Wrap(b + n)
<1>1. Wrap(n + Wrap(a)) = Wrap(n + a) /\ Wrap(n + Wrap(b)) = Wrap(n + b)
  BY WrapSum
<1>2. n + a = a + n /\ n + b = b + n
  OBVIOUS
<1> QED BY <1>1, <1>2

\* An atom of n bytes was added, and the program counter moved on by n.
LEMMA PcAdded ==
  ASSUME AsmInv, Grows, Len(parsed') = Len(exprs'), NEW n \in Int, PcAdd(n),
         NEW a \in AtomSet, atoms' = Append(atoms, a), a.type # "I8",
         \A V : Size(a, V) = n, UNCHANGED <<origin, places>>
  PROVE  PcMeans'
<1> SUFFICES ASSUME NEW V, NEW D, NEW f,
                    V \in [Nat -> Int], D \in SUBSET Nat, f \in [Nat -> Int],
                    Obeys(V, D, parsed'), Adds(f, V, atoms')
             PROVE  PcHolds(V, D, f)'
  BY DEF PcMeans
<1>1. PcHolds(V, D, f)
  BY PcBefore
<1>2. PICK l \in Nat : /\ l = Len(atoms) /\ Len(atoms') = l + 1 /\ atoms'[l + 1] = a
                       /\ \A m \in 1 .. l : atoms'[m] = atoms[m]
                       /\ f[l + 1] = f[l] + n /\ f[l] \in Int /\ f[l + 1] \in Int
  <2>1. \E l \in Nat :
           /\ l = Len(atoms) /\ Len(atoms') = l + 1 /\ atoms'[l + 1] = a
           /\ \A m \in 1 .. l : atoms'[m] = atoms[m]
           /\ f[l + 1] = f[l] + Size(a, V) /\ f[l] \in Int /\ f[l + 1] \in Int
    BY Appended
  <2>2. Size(a, V) = n
    OBVIOUS
  <2> QED BY ONLY <2>1, <2>2
<1>3. ValueInv
  BY DEF AsmInv
<1>4. s_pc1' # unset_value /\ s_pc1' \in D =>
           /\ origin'.org \in D
           /\ Wrap(V[s_pc1'] + s_pc2') =
                Wrap(V[origin'.org] + f[Len(atoms')] - f[origin'.atom])
  <2> SUFFICES ASSUME s_pc1' # unset_value, s_pc1' \in D
               PROVE  /\ origin'.org \in D
                      /\ Wrap(V[s_pc1'] + s_pc2') =
                           Wrap(V[origin'.org] + f[Len(atoms')] - f[origin'.atom])
    OBVIOUS
  <2>1. s_pc1' = s_pc1 /\ s_pc2' = Wrap(s_pc2 + n) /\ origin' = origin
    BY DEF PcAdd
  <2>2. /\ origin.org \in D
        /\ Wrap(V[s_pc1] + s_pc2) = Wrap(V[origin.org] + f[l] - f[origin.atom])
    BY <1>1, <1>2, <2>1 DEF PcHolds
  <2>3. PICK v \in Int : v = V[s_pc1]
    BY <2>1
  <2>4. PICK o \in Int : o = V[origin.org]
    BY <2>2
  <2>5. PICK g \in Int : g = f[origin.atom]
    BY <1>3 DEF ValueInv, Origin
  <2>6. PICK s \in Int : s = s_pc2
    BY <1>3, WordAssumption DEF ValueInv, Word32
  <2>7. PICK h \in Int : h = f[l] /\ f[l + 1] = h + n
    BY <1>2
  <2>8. Wrap(v + s) = Wrap(o + h - g)
    BY <2>2, <2>3, <2>4, <2>5, <2>6, <2>7
  <2>9. v + s \in Int /\ o + h - g \in Int /\ s + n \in Int
        /\ (v + s) + n = v + (s + n) /\ (o + h - g) + n = o + (h + n) - g
    OBVIOUS
  <2>10. Wrap((v + s) + n) = Wrap((o + h - g) + n)
    <3>1. PICK x \in Int : x = v + s
      BY <2>9
    <3>2. PICK y \in Int : y = o + h - g
      BY <2>9
    <3>3. Wrap(x + n) = Wrap(y + n)
      <4>1. Wrap(x) = Wrap(y)
        BY <2>8, <3>1, <3>2
      <4> QED BY ONLY <4>1, x \in Int, y \in Int, n \in Int, WrapBoth, Zenon
    <3> QED BY <3>1, <3>2, <3>3
  <2>11. Wrap(v + Wrap(s + n)) = Wrap(v + (s + n))
    BY <2>9, WrapSum
  <2>12. Wrap(v + Wrap(s + n)) = Wrap(o + (h + n) - g)
    BY <2>9, <2>10, <2>11
  <2> QED BY <1>2, <2>1, <2>2, <2>3, <2>4, <2>5, <2>6, <2>7, <2>12
<1>5. \A m \in Len(atoms) + 1 .. Len(atoms') :
           atoms'[m].type = "I8" => Lies(V, D, f, Behind(m)', origin', m)
  <2>1. ASSUME NEW m \in Len(atoms) + 1 .. Len(atoms') PROVE atoms'[m] = a
    <3>1. m = l + 1
      BY <1>2, <2>1
    <3> QED BY <1>2, <3>1
  <2> QED BY <2>1
<1>6. Len(atoms) <= Len(atoms') /\ Len(atoms') \in Nat
      /\ \A m \in 1 .. Len(atoms) : atoms'[m] = atoms[m]
  BY <1>2
<1>7. origin' = origin /\ places' = places
  OBVIOUS
<1> QED BY <1>1, <1>3, <1>4, <1>5, <1>6, <1>7, PcGrows

\* Statements that make no expressions: the pool is as it was.
LEMMA PoolSame ==
  ASSUME AsmInv, UNCHANGED <<exprs, s_sym_table, parsed, asm, calls>>, named' = named
         \/ \A n \in DOMAIN named : n \in DOMAIN named' /\ named'[n] = named[n]
  PROVE  EInv' /\ Grows /\ Pointer' = Pointer /\ Len(parsed') = Len(exprs')
<1>1. EInv
  BY DEF AsmInv
<1>2. calls \in Seq(Pointer) /\ Len(calls) <= MAX_DEPTH /\ Len(exprs) \in Nat
      /\ asm \in {"parse", "output", "done", "failed", "crashed"}
      /\ Len(parsed) = Len(exprs)
  BY <1>1 DEF EInv, ExprTypeOK
<1>3. EInv'
  BY <1>1, <1>2, PoolStays
<1> QED BY <1>2, <1>3 DEF Grows, Pointer

LEMMA StatementFrameIs ==
  ASSUME AsmInv, StatementFrame
  PROVE  /\ asm' = asm /\ calls' = calls /\ named' = named /\ UNCHANGED outVars /\ ScanFrame
         /\ \A n \in DOMAIN named : n \in DOMAIN named' /\ named'[n] = named[n]
         /\ \A n \in DOMAIN named' : n \in DOMAIN named \cup BinaryName
         /\ BinaryOK'
<1>1. asm' = asm /\ calls' = calls /\ named' = named /\ UNCHANGED outVars /\ ScanFrame
  BY DEF StatementFrame
<1> QED BY <1>1, NamedSame

LEMMA SetOrgHolds ==
  ASSUME AsmInv, SetOrg
  PROVE  AsmInv'
<1>1. Reduce("org") /\ StatementFrame
  BY DEF SetOrg
<1>2. /\ At("org", {"INITIAL"}) /\ buffers' = Consumed
      /\ asm = "parse" /\ Top # <<>> /\ Item \in Items /\ Item.k = "org"
  BY <1>1, AtRule
<1>3. ~IsExpression(Item) /\ Takes(Item) = 1
  BY <1>2 DEF IsExpression, Takes
<1>4. PICK e \in Pointer : e = Arg(0)
  BY <1>2, <1>3, ArgsThere
<1>5. /\ s_pc1' = e /\ s_pc2' = 0 /\ yyvsp' = Popped(1)
      /\ origin' = [org |-> e, atom |-> Len(atoms)]
      /\ UNCHANGED <<exprs, s_sym_table, parsed, atoms, places>>
  BY <1>4 DEF SetOrg
<1>6. /\ asm' = asm /\ calls' = calls /\ named' = named /\ UNCHANGED outVars /\ ScanFrame
      /\ \A n \in DOMAIN named : n \in DOMAIN named' /\ named'[n] = named[n]
      /\ \A n \in DOMAIN named' : n \in DOMAIN named \cup BinaryName
      /\ BinaryOK'
  BY <1>1, StatementFrameIs
<1>7. EInv' /\ Grows /\ Pointer' = Pointer /\ Len(parsed') = Len(exprs')
  BY <1>5, <1>6, PoolSame
<1>8. PICK l \in Nat : l = Len(atoms)
  BY DEF AsmInv, ValueInv
<1>9. e \in Nat /\ e # unset_value
  BY DEF Pointer, unset_value
<1>10. /\ origin' \in Origin /\ origin'.org = e /\ origin'.atom = l
  BY <1>5, <1>8, <1>9 DEF Origin
<1>11. PcMeans'
  <2> SUFFICES ASSUME NEW V, NEW D, NEW f,
                      V \in [Nat -> Int], D \in SUBSET Nat, f \in [Nat -> Int],
                      Obeys(V, D, parsed'), Adds(f, V, atoms')
               PROVE  PcHolds(V, D, f)'
    BY DEF PcMeans
  <2>1. PcHolds(V, D, f)
    BY <1>5, <1>7, PcBefore
  <2>2. ValueInv
    BY DEF AsmInv
  <2>3. s_pc1' # unset_value /\ s_pc1' \in D =>
           /\ origin'.org \in D
           /\ Wrap(V[s_pc1'] + s_pc2') =
                Wrap(V[origin'.org] + f[Len(atoms')] - f[origin'.atom])
    <3>1. PICK v \in Int : v = V[e]
      BY <1>9
    <3>2. PICK g \in Int : g = f[l]
      OBVIOUS
    <3>3. v + 0 = v + g - g
      OBVIOUS
    <3>4. V[s_pc1'] + s_pc2' = v + 0
      BY <1>5, <3>1
    <3>5. V[origin'.org] + f[Len(atoms')] - f[origin'.atom] = v + g - g
      BY <1>5, <1>8, <1>10, <3>1, <3>2
    <3>6. Wrap(V[s_pc1'] + s_pc2') = Wrap(V[origin'.org] + f[Len(atoms')] - f[origin'.atom])
      BY ONLY <3>3, <3>4, <3>5
    <3> QED BY <1>5, <1>10, <3>6
  <2>4. /\ Len(atoms) <= Len(atoms') /\ Len(atoms') \in Nat
        /\ \A n \in 1 .. Len(atoms) : atoms'[n] = atoms[n]
        /\ \A n \in Len(atoms) + 1 .. Len(atoms') :
             atoms'[n].type = "I8" => Lies(V, D, f, Behind(n)', origin', n)
        /\ origin'.atom = Len(atoms) /\ places' = places
    BY <1>5, <1>8, <1>10
  <2> QED BY <1>7, <2>1, <2>2, <2>3, <2>4, PcGrows
<1>12. 0 \in Word32
  BY WordAssumption DEF Word32
<1>13. /\ s_pc1' \in Pointer' \cup {unset_value} /\ s_pc2' \in Word32
       /\ atoms' = atoms /\ places' = places
       /\ origin'.org \in Pointer' \cup {unset_value} /\ origin'.atom <= Len(atoms)
       /\ (origin'.org = unset_value <=> s_pc1' = unset_value)
       /\ yyvsp' = Popped(Takes(Item))
  BY <1>3, <1>5, <1>7, <1>8, <1>9, <1>10, <1>12
<1>14. "org" \notin {"IF", "ELIF", "if"}
  OBVIOUS
<1> QED BY ONLY AsmInv, <1>2, <1>3, <1>6, <1>7, <1>10, <1>11, <1>13, <1>14, StatementHolds

LEMMA NewSymbolExprHolds ==
  ASSUME AsmInv, NewSymbolExpr
  PROVE  AsmInv'
<1>1. Reduce("symbol")
  BY DEF NewSymbolExpr
<1>2. /\ At("symbol", {"INITIAL"}) /\ buffers' = Consumed
      /\ asm = "parse" /\ Top # <<>> /\ Item \in Items /\ Item.k = "symbol"
  BY <1>1, AtRule
<1>3. ~IsExpression(Item) /\ Takes(Item) = 1 /\ Item.name \in Name
  BY <1>2, ItemShape DEF IsExpression, Takes
<1>4. PICK e \in Pointer : e = Arg(0)
  BY <1>2, <1>3, ArgsThere
<1>5. CASE IsDefined(Item.name)
  <2>1. Exit
    BY <1>5 DEF NewSymbolExpr
  <2> QED BY <1>2, <2>1, ExitKeeps
<1>6. CASE ~IsDefined(Item.name)
  <2>1. /\ Define(Item.name, e) /\ yyvsp' = Popped(1) /\ StatementFrame
        /\ UNCHANGED <<exprs, parsed, pcVars, atoms, origin, places>>
    BY <1>4, <1>6 DEF NewSymbolExpr
  <2>2. /\ asm' = asm /\ calls' = calls /\ named' = named /\ UNCHANGED outVars /\ ScanFrame
        /\ \A n \in DOMAIN named : n \in DOMAIN named' /\ named'[n] = named[n]
        /\ \A n \in DOMAIN named' : n \in DOMAIN named \cup BinaryName
        /\ BinaryOK'
    BY <2>1, StatementFrameIs
  <2>3. EInv'
    <3>1. calls = <<>>
      BY <1>2 DEF At, Scanning
    <3>2. PICK s \in Name : s = Item.name
      BY <1>3
    <3>3. DefineSymbol(s, e)
      BY <1>2, <1>6, <2>1, <2>2, <3>1, <3>2 DEF DefineSymbol
    <3> QED BY <3>3, DefineHolds DEF AsmInv
  <2>4. EInv /\ ValueInv /\ PcMeans
    BY DEF AsmInv
  <2>5. Len(exprs) \in Nat /\ Len(parsed) = Len(exprs) /\ Len(parsed') = Len(exprs')
        /\ Pointer' = Pointer
    BY <2>1, <2>4 DEF EInv, ExprTypeOK, Pointer
  <2>6. Grows
    BY <2>1, <2>2, <2>5 DEF Grows
  <2>7. PcMeans'
    BY <2>1, <2>4, <2>5, <2>6, PcStays
  <2>8. /\ s_pc1' \in Pointer' \cup {unset_value} /\ s_pc2' \in Word32
        /\ atoms' = atoms /\ places' = places
        /\ origin' \in Origin
        /\ origin'.org \in Pointer' \cup {unset_value} /\ origin'.atom <= Len(atoms)
        /\ (origin'.org = unset_value <=> s_pc1' = unset_value)
    BY <2>1, <2>4, <2>5 DEF ValueInv, pcVars
  <2>9. yyvsp' = Popped(Takes(Item))
    BY <1>3, <2>1
  <2>10. "symbol" \notin {"IF", "ELIF", "if"}
    OBVIOUS
  <2> QED BY ONLY AsmInv, <1>2, <1>3, <2>2, <2>3, <2>6, <2>7, <2>8, <2>9, <2>10, StatementHolds
<1> QED BY <1>5, <1>6

\* An atom of n bytes is made, of expressions that are there.
LEMMA AtomHolds ==
  ASSUME AsmInv, NEW k, At(k, {"INITIAL"}), buffers' = Consumed,
         k \notin {"IF", "ELIF", "if"}, ~IsExpression(Item),
         yyvsp' = Popped(Takes(Item)), UNCHANGED <<exprVars, origin, places, outVars>>,
         ScanFrame,
         \A m \in DOMAIN named : m \in DOMAIN named' /\ named'[m] = named[m],
         \A m \in DOMAIN named' : m \in DOMAIN named \cup BinaryName,
         BinaryOK',
         NEW a \in AtomSet, atoms' = Append(atoms, a), AtomOK(a)', a.type # "I8",
         NEW n \in Int, PcAdd(n), \A V : Size(a, V) = n
  PROVE  AsmInv'
<1>1. /\ asm' = asm /\ calls' = calls /\ UNCHANGED <<exprs, s_sym_table, parsed>>
      /\ UNCHANGED outVars /\ origin' = origin /\ places' = places
  BY DEF exprVars
<1>2. EInv' /\ Grows /\ Pointer' = Pointer /\ Len(parsed') = Len(exprs')
  BY <1>1, PoolSame
<1>3. PcMeans'
  BY <1>1, <1>2, PcAdded
<1>4. ValueInv
  BY DEF AsmInv
<1>5. s_pc1' \in Pointer' \cup {unset_value} /\ s_pc1' = s_pc1
  BY <1>2, <1>4 DEF ValueInv, PcAdd
<1>6. s_pc2' \in Word32
  <2>1. s_pc2 \in Word32 /\ s_pc2 \in Int
    BY <1>4, WordAssumption DEF ValueInv, Word32
  <2>2. s_pc2 + n \in Int
    BY <2>1
  <2>3. Wrap(s_pc2 + n) \in Word32
    BY <2>2, WrapRange
  <2> QED BY <2>1, <2>3 DEF PcAdd
<1>7. /\ origin' \in Origin
      /\ origin'.org \in Pointer' \cup {unset_value} /\ origin'.atom <= Len(atoms)
      /\ (origin'.org = unset_value <=> s_pc1' = unset_value)
  BY <1>1, <1>2, <1>4, <1>5 DEF ValueInv
<1>8. \E x \in AtomSet : atoms' = Append(atoms, x) /\ AtomOK(x)'
  OBVIOUS
<1>9. /\ yyvsp' = Popped(Takes(Item)) /\ ScanFrame
      /\ \A m \in DOMAIN named : m \in DOMAIN named' /\ named'[m] = named[m]
      /\ \A m \in DOMAIN named' : m \in DOMAIN named \cup BinaryName
      /\ BinaryOK'
  OBVIOUS
<1>10. At(k, {"INITIAL"}) /\ buffers' = Consumed /\ k \notin {"IF", "ELIF", "if"}
       /\ ~IsExpression(Item)
  OBVIOUS
<1> QED BY ONLY AsmInv, <1>1, <1>2, <1>3, <1>5, <1>6, <1>7, <1>8, <1>9, <1>10, StatementHolds

LEMMA SeqWiden ==
  ASSUME NEW S, NEW T, S \subseteq T, NEW list \in Seq(S)
  PROVE  list \in Seq(T)
OBVIOUS

\* The expressions a statement takes, as the list its atom keeps.
LEMMA ArgsList ==
  ASSUME AsmInv, NEW k, At(k, {"INITIAL"}), NEW n \in Nat, n = Takes(Item)
  PROVE  \E args \in Seq(Pointer) :
           /\ args = SubSeq(yyvsp, Len(yyvsp) - n + 1, Len(yyvsp))
           /\ args \in Seq(Nat) /\ Len(args) = n
<1>1. yyvsp \in Seq(Pointer) /\ n <= Len(yyvsp)
  BY ArgsThere DEF AsmInv, ValueInv
<1>2. PICK args : args = SubSeq(yyvsp, Len(yyvsp) - n + 1, Len(yyvsp))
  OBVIOUS
<1>3. args \in Seq(Pointer) /\ Len(args) = n
  BY <1>1, <1>2, PoppedIs
<1>4. Pointer \subseteq Nat
  BY DEF Pointer
<1>5. args \in Seq(Nat)
  BY <1>3, <1>4, SeqWiden
<1> QED BY <1>2, <1>3, <1>5

LEMMA NewOpHolds ==
  ASSUME AsmInv, NewOp
  PROVE  AsmInv'
<1>1. Reduce("op") /\ Item.type # "I8"
  BY DEF NewOp
<1>2. /\ At("op", {"INITIAL"}) /\ buffers' = Consumed
      /\ asm = "parse" /\ Top # <<>> /\ Item \in Items /\ Item.k = "op"
  BY <1>1, AtRule
<1>3. PICK n \in {0, 1} : n = IF Item.type = "NONE" THEN 0 ELSE 1
  OBVIOUS
<1>4. /\ ~IsExpression(Item) /\ Takes(Item) = n
      /\ Item.type \in DOMAIN OpSize /\ Item.code \in 0 .. 255
  BY <1>2, <1>3, ItemShape DEF IsExpression, Takes
<1>5. PICK args \in Seq(Pointer) :
         /\ args = SubSeq(yyvsp, Len(yyvsp) - n + 1, Len(yyvsp))
         /\ args \in Seq(Nat) /\ Len(args) = n
  BY <1>2, <1>4, ArgsList
<1>6. PICK a : a = [type |-> Item.type, code |-> Item.code, args |-> args]
  OBVIOUS
<1>7. a \in AtomSet /\ a.type = Item.type /\ a.args = args
  <2>1. a \in [type : DOMAIN OpSize, code : 0 .. 255, args : Seq(Nat)]
    BY <1>4, <1>5, <1>6
  <2> QED BY <1>6, <2>1 DEF AtomSet
<1>8. NewAtom(n, a) /\ PcAdd(OpSize[Item.type]) /\ UNCHANGED <<exprs, parsed, places>>
  BY <1>3, <1>5, <1>6 DEF NewOp
<1>9. /\ atoms' = Append(atoms, a) /\ yyvsp' = Popped(n)
      /\ UNCHANGED <<s_sym_table, origin>> /\ StatementFrame
  BY <1>8 DEF NewAtom
<1>10. /\ asm' = asm /\ calls' = calls /\ named' = named /\ UNCHANGED outVars /\ ScanFrame
       /\ \A m \in DOMAIN named : m \in DOMAIN named' /\ named'[m] = named[m]
       /\ \A m \in DOMAIN named' : m \in DOMAIN named \cup BinaryName
       /\ BinaryOK'
  BY <1>9, StatementFrameIs
<1>11. UNCHANGED <<exprVars, origin, places, outVars>>
  BY <1>8, <1>9, <1>10 DEF exprVars
<1>12. PICK z \in Nat : z = OpSize[Item.type]
  BY <1>4 DEF OpSize
<1>13. \A V : Size(a, V) = z
  BY <1>4, <1>7, <1>12 DEF Size, OpSize
<1>14. AtomOK(a)'
  <2>1. Pointer' = Pointer
    BY <1>8 DEF Pointer
  <2>2. a.args \in Seq(Pointer')
    BY <1>7, <2>1
  <2>3. Len(a.args) = Expects(a)
    BY <1>1, <1>3, <1>4, <1>5, <1>7 DEF Expects, OpSize
  <2>4. a.type # "I8" /\ a.type # "incbin"
    BY <1>1, <1>4, <1>7 DEF OpSize
  <2> QED BY <2>2, <2>3, <2>4 DEF AtomOK, Expects
<1>15. /\ "op" \notin {"IF", "ELIF", "if"} /\ yyvsp' = Popped(Takes(Item))
       /\ a.type # "I8" /\ z \in Int /\ PcAdd(z)
  BY <1>1, <1>4, <1>7, <1>8, <1>9, <1>12
<1> QED BY ONLY AsmInv, <1>2, <1>4, <1>7, <1>9, <1>10, <1>11, <1>13, <1>14, <1>15, AtomHolds

LEMMA NewExprsHolds ==
  ASSUME AsmInv, NewExprs
  PROVE  AsmInv'
<1>1. PICK k \in {"byte", "word"} : Reduce(k)
  BY DEF NewExprs
<1>2. /\ At(k, {"INITIAL"}) /\ buffers' = Consumed
      /\ asm = "parse" /\ Top # <<>> /\ Item \in Items /\ Item.k = k
  BY <1>1, AtRule
<1>3. PICK n \in Nat : n = Item.n
  BY <1>2, ItemShape
<1>4. ~IsExpression(Item) /\ Takes(Item) = n
  BY <1>2, <1>3 DEF IsExpression, Takes
<1>5. PICK args \in Seq(Pointer) :
         /\ args = SubSeq(yyvsp, Len(yyvsp) - n + 1, Len(yyvsp))
         /\ args \in Seq(Nat) /\ Len(args) = n
  BY <1>2, <1>4, ArgsList
<1>6. PICK a : a = [type |-> k, args |-> args]
  OBVIOUS
<1>7. a \in AtomSet /\ a.type = k /\ a.args = args
  <2>1. a \in [type : {"byte", "word", "res"}, args : Seq(Nat)]
    BY <1>5, <1>6
  <2> QED BY <1>6, <2>1 DEF AtomSet
<1>8. PICK z \in Nat : z = IF k = "byte" THEN n ELSE 2 * n
  OBVIOUS
<1>9. NewAtom(n, a) /\ PcAdd(z) /\ UNCHANGED <<exprs, parsed, places>>
  BY <1>2, <1>3, <1>5, <1>6, <1>8 DEF NewExprs
<1>10. /\ atoms' = Append(atoms, a) /\ yyvsp' = Popped(n)
       /\ UNCHANGED <<s_sym_table, origin>> /\ StatementFrame
  BY <1>9 DEF NewAtom
<1>11. /\ asm' = asm /\ calls' = calls /\ named' = named /\ UNCHANGED outVars /\ ScanFrame
       /\ \A m \in DOMAIN named : m \in DOMAIN named' /\ named'[m] = named[m]
       /\ \A m \in DOMAIN named' : m \in DOMAIN named \cup BinaryName
       /\ BinaryOK'
  BY <1>10, StatementFrameIs
<1>12. UNCHANGED <<exprVars, origin, places, outVars>>
  BY <1>9, <1>10, <1>11 DEF exprVars
<1>13. \A V : Size(a, V) = z
  BY <1>5, <1>7, <1>8 DEF Size, OpSize
<1>14. AtomOK(a)'
  <2>1. Pointer' = Pointer
    BY <1>9 DEF Pointer
  <2>2. a.args \in Seq(Pointer')
    BY <1>7, <2>1
  <2>3. a.type \in {"byte", "word"}
    BY <1>7
  <2>4. Len(a.args) = Expects(a)
    BY <2>3 DEF Expects
  <2> QED BY <2>2, <2>3, <2>4 DEF AtomOK, Expects
<1>15. /\ k \notin {"IF", "ELIF", "if"} /\ yyvsp' = Popped(Takes(Item))
       /\ a.type # "I8" /\ z \in Int
  BY <1>4, <1>7, <1>10
<1> QED BY ONLY AsmInv, <1>2, <1>4, <1>7, <1>9, <1>10, <1>11, <1>12, <1>13, <1>14, <1>15, AtomHolds

LEMMA NewIncbinHolds ==
  ASSUME AsmInv, NewIncbin
  PROVE  AsmInv'
<1>1. Reduce("incbin") /\ Known
  BY DEF NewIncbin
<1>2. /\ At("incbin", {"INITIAL"}) /\ buffers' = Consumed
      /\ asm = "parse" /\ Top # <<>> /\ Item \in Items /\ Item.k = "incbin"
  BY <1>1, AtRule
<1>3. /\ Item.name \in BinaryName /\ Item.args \in 0 .. 2
      /\ ~IsExpression(Item) /\ Takes(Item) = Item.args
  BY <1>2, ItemShape DEF IsExpression, Takes
<1>4. CASE Exit
  BY <1>2, <1>4, ExitKeeps
<1>5. CASE ~Exit
  <2>1. PICK rest : rest = Len(Content(Item.name)) - Skip
    OBVIOUS
  <2>2. PICK length : length = IF Item.args = 2 THEN FromEnd(Value(Arg(0)), rest) ELSE 0
    OBVIOUS
  <2>3. /\ Exists(Item.name) /\ SkipFits /\ InRange(length, rest)
        /\ atoms' = Append(atoms, [type |-> "incbin", name |-> Item.name,
                                   skip |-> Skip, length |-> length, args |-> <<>>])
        /\ yyvsp' = Popped(Item.args) /\ GetNamedBuffer(Item.name)
        /\ PcAdd(length) /\ UNCHANGED <<exprVars, origin, places, outVars>> /\ ScanFrame
    BY <1>5, <2>1, <2>2 DEF NewIncbin
  <2>4. /\ Content(Item.name) \in Seq(0 .. 255)
        /\ \A n \in DOMAIN named : n \in DOMAIN named' /\ named'[n] = named[n]
        /\ \A n \in DOMAIN named' : n \in DOMAIN named \cup BinaryName
        /\ Item.name \in DOMAIN named' /\ named'[Item.name] = Content(Item.name)
        /\ BinaryOK'
    BY <1>3, <2>3, BinaryStored
  <2>5. PICK l \in Nat : l = Len(Content(Item.name))
    BY <2>4
  <2>6. ASSUME Item.args # 0
        PROVE  Skip \in Int
    <3>1. PICK m \in {0, 1} : m = Item.args - 1
      BY <1>3, <2>6
    <3>2. PICK e \in Pointer : e = Arg(m)
      BY <1>2, <1>3, <2>6, <3>1, ArgsThere
    <3>3. Resolved(e)
      <4>1. CASE m = 0
        <5>1. NeededNow = <<e>>
          BY <1>2, <2>3, <3>1, <3>2, <4>1 DEF NeededNow
        <5> QED BY <1>1, <5>1 DEF Known
      <4>2. CASE m = 1
        <5>1. Item.args = 2 /\ SkipFits
          BY <1>3, <2>3, <3>1, <4>2
        <5>2. NeededNow = <<Arg(1), Arg(0)>>
          BY <1>2, <2>3, <5>1 DEF NeededNow
        <5>3. Resolved(Arg(1))
          BY <1>1, <5>2 DEF Known
        <5> QED BY <3>2, <4>2, <5>3
      <4> QED BY <4>1, <4>2
    <3>4. Value(e) \in Word32
      BY <3>3, ValueRange DEF AsmInv
    <3>5. Value(e) \in Int
      BY <3>4, WordAssumption DEF Word32
    <3>6. Skip = FromEnd(Value(e), l)
      BY <2>5, <2>6, <3>1, <3>2 DEF Skip
    <3> QED BY <3>5, <3>6 DEF FromEnd
  <2>7. PICK s \in Int : s = Skip
    <3>1. Item.args = 0 => Skip = 0
      BY DEF Skip
    <3> QED BY <2>6, <3>1
  <2>8. 0 <= s /\ s <= l
    BY <2>3, <2>5, <2>7 DEF SkipFits, InRange
  <2>9. length \in Int
    <3>1. CASE Item.args = 2
      <4>1. PICK e \in Pointer : e = Arg(0)
        BY <1>2, <1>3, <3>1, ArgsThere
      <4>2. NeededNow = <<Arg(1), Arg(0)>>
        BY <1>2, <2>3, <3>1 DEF NeededNow
      <4>3. Resolved(e)
        BY <1>1, <4>1, <4>2 DEF Known
      <4>4. Value(e) \in Word32
        BY <4>3, ValueRange DEF AsmInv
      <4>5. Value(e) \in Int
        BY <4>4, WordAssumption DEF Word32
      <4>6. length = FromEnd(Value(e), l - s)
        BY <2>1, <2>2, <2>5, <2>7, <3>1, <4>1
      <4> QED BY <4>5, <4>6 DEF FromEnd
    <3>2. CASE Item.args # 2
      BY <2>2, <3>2
    <3> QED BY <3>1, <3>2
  <2>10. 0 <= length /\ length <= l - s
    BY <2>1, <2>3, <2>5, <2>7 DEF InRange
  <2>11. PICK n \in Nat : n = length
    BY <2>9, <2>10
  <2>12. PICK a : a = [type |-> "incbin", name |-> Item.name, skip |-> s, length |-> n,
                       args |-> <<>>]
    OBVIOUS
  <2>13. a \in AtomSet /\ a.type = "incbin" /\ a.type # "I8" /\ a.args = <<>>
         /\ a.name = Item.name /\ a.skip = s /\ a.length = n
    <3>1. s \in Nat
      BY <2>8
    <3>2. a \in [type : {"incbin"}, name : BinaryName, skip : Nat, length : Nat, args : {<<>>}]
      BY <1>3, <2>12, <3>1
    <3> QED BY <2>12, <3>2 DEF AtomSet
  <2>14. \A V : Size(a, V) = n
    BY <2>13 DEF Size, OpSize
  <2>15. AtomOK(a)'
    <3>1. a.args \in Seq(Pointer') /\ Len(a.args) = Expects(a)
      BY <2>13 DEF Expects
    <3>2. a.name \in DOMAIN named' /\ Len(named'[a.name]) = l
      BY <2>4, <2>5, <2>13
    <3>3. a.skip + a.length <= l
      BY <2>10, <2>11, <2>13
    <3> QED BY <2>13, <3>1, <3>2, <3>3 DEF AtomOK, Expects
  <2>16. /\ "incbin" \notin {"IF", "ELIF", "if"} /\ yyvsp' = Popped(Takes(Item))
         /\ n \in Int /\ PcAdd(n) /\ atoms' = Append(atoms, a)
    BY <1>3, <2>3, <2>7, <2>11, <2>12
  <2> QED BY ONLY AsmInv, <1>2, <1>3, <2>3, <2>4, <2>13, <2>14, <2>15, <2>16, AtomHolds
<1> QED BY <1>4, <1>5

-----------------------------------------------------------------------------
(***************************************************************************)
(* Statements that make an expression of the program counter.              *)
(***************************************************************************)
\* The nodes of pc_get, and its result.
LEMMA PcNodesShape ==
  ASSUME NEW x \in Nat, x = Len(exprs), NEW s2 \in Word32, s_pc1 \in Pointer
  PROVE  \E y \in {0, 2} :
           /\ PcNodes(s2) \in Seq(Expression) /\ Len(PcNodes(s2)) = y
           /\ PcPointer(s2) \in 1 .. x + y
           /\ \A n \in 1 .. y : Arguments(PcNodes(s2)[n]) \subseteq 1 .. x + y
           /\ y = 0 => s2 = 0 /\ PcPointer(s2) = s_pc1
           /\ y = 2 => /\ PcPointer(s2) = x + 2
                       /\ PcNodes(s2)[1] = Number(s2)
                       /\ PcNodes(s2)[2] = Op2("PLUS", x + 1, s_pc1)
<1>1. s_pc1 \in 1 .. x
  BY DEF Pointer
<1>2. CASE s2 = 0
  <2>1. PcNodes(s2) = <<>> /\ PcPointer(s2) = s_pc1
    BY <1>2 DEF PcNodes, PcPointer
  <2>2. /\ PcNodes(s2) \in Seq(Expression) /\ Len(PcNodes(s2)) = 0
        /\ PcPointer(s2) \in 1 .. x + 0
        /\ \A n \in 1 .. 0 : Arguments(PcNodes(s2)[n]) \subseteq 1 .. x + 0
    BY <1>1, <2>1
  <2> QED BY <1>2, <2>1, <2>2
<1>3. CASE s2 # 0
  <2>1. PcNodes(s2) = <<Number(s2), Op2("PLUS", x + 1, s_pc1)>> /\ PcPointer(s2) = x + 2
    BY <1>3 DEF PcNodes, PcPointer, Fresh
  <2>2. PICK a : a = Number(s2)
    OBVIOUS
  <2>3. PICK b : b = Op2("PLUS", x + 1, s_pc1)
    OBVIOUS
  <2>4. a \in Expression /\ Arguments(a) = {}
    BY <2>2 DEF Number, Expression, Arguments, UnaryOp, BinaryOp
  <2>5. b \in Expression /\ Arguments(b) = {x + 1, s_pc1}
    BY <1>1, <2>3 DEF Op2, Expression, Arguments, UnaryOp, BinaryOp
  <2>6. PICK nodes : nodes = PcNodes(s2) /\ nodes = <<a, b>>
    BY <2>1, <2>2, <2>3
  <2>7. nodes \in Seq(Expression) /\ Len(nodes) = 2 /\ nodes[1] = a /\ nodes[2] = b
    BY <2>4, <2>5, <2>6
  <2>8. \A n \in 1 .. 2 : Arguments(nodes[n]) \subseteq 1 .. x + 2
    <3>1. Arguments(nodes[1]) \subseteq 1 .. x + 2 /\ Arguments(nodes[2]) \subseteq 1 .. x + 2
      BY <1>1, <2>4, <2>5, <2>7
    <3>2. \A n \in 1 .. 2 : n = 1 \/ n = 2
      OBVIOUS
    <3> QED BY ONLY <3>1, <3>2
  <2>9. x + 2 \in 1 .. x + 2 /\ 2 \in {0, 2} /\ 2 # 0
    OBVIOUS
  <2> QED BY <2>1, <2>2, <2>3, <2>6, <2>7, <2>8, <2>9
<1> QED BY <1>2, <1>3

\* It adds the offset to the expression.
LEMMA PcGets ==
  ASSUME NEW x \in Nat, x = Len(exprs), NEW s2 \in Word32, s_pc1 \in Pointer,
         NEW V, NEW D, V \in [Nat -> Int], NEW pool, Obeys(V, D, pool),
         Len(pool) \in Nat, Len(pool) >= x + Len(PcNodes(s2)),
         \A n \in 1 .. Len(PcNodes(s2)) : pool[x + n] = PcNodes(s2)[n],
         PcPointer(s2) \in D
  PROVE  s_pc1 \in D /\ Wrap(V[PcPointer(s2)]) = Wrap(V[s_pc1] + s2)
<1>1. PICK y \in {0, 2} :
         /\ PcNodes(s2) \in Seq(Expression) /\ Len(PcNodes(s2)) = y
         /\ PcPointer(s2) \in 1 .. x + y
         /\ \A n \in 1 .. y : Arguments(PcNodes(s2)[n]) \subseteq 1 .. x + y
         /\ y = 0 => s2 = 0 /\ PcPointer(s2) = s_pc1
         /\ y = 2 => /\ PcPointer(s2) = x + 2
                     /\ PcNodes(s2)[1] = Number(s2)
                     /\ PcNodes(s2)[2] = Op2("PLUS", x + 1, s_pc1)
  BY PcNodesShape
<1>2. PICK c \in Nat : c = s_pc1
  BY DEF Pointer
<1>3. PICK v \in Int : v = V[c]
  OBVIOUS
<1>4. s2 \in Int
  BY WordAssumption DEF Word32
<1>5. CASE y = 0
  <2>1. V[PcPointer(s2)] = v /\ V[s_pc1] + s2 = v + 0 /\ s_pc1 \in D
    BY <1>1, <1>2, <1>3, <1>5
  <2>2. v + 0 = v
    OBVIOUS
  <2> QED BY <2>1, <2>2
<1>6. CASE y = 2
  <2>1. x + 1 \in 1 .. Len(pool) /\ x + 2 \in 1 .. Len(pool)
    BY <1>1, <1>6
  <2>2. pool[x + 1] = Number(s2) /\ pool[x + 2] = Op2("PLUS", x + 1, c) /\ x + 2 \in D
    BY <1>1, <1>2, <1>6
  <2>3. x + 1 \in D /\ c \in D /\ V[x + 2] = Wrap(V[x + 1] + V[c])
    <3>1. PICK n : n = pool[x + 2]
      OBVIOUS
    <3>2. n.expr_op = "PLUS" /\ n.arg1 = x + 1 /\ n.arg2 = c
      BY <2>2, <3>1 DEF Op2
    <3>3. n.expr_op = "PLUS" =>
            n.arg1 \in D /\ n.arg2 \in D /\ V[x + 2] = Wrap(V[n.arg1] + V[n.arg2])
      BY <2>1, <2>2, <3>1 DEF Obeys
    <3> QED BY <3>2, <3>3
  <2>4. V[x + 1] = s2
    <3>1. PICK n : n = pool[x + 1]
      OBVIOUS
    <3>2. n.expr_op = "NUMBER" /\ n.number = s2
      BY <2>2, <3>1 DEF Number
    <3>3. n.expr_op = "NUMBER" => V[x + 1] = n.number
      BY <2>1, <2>3, <3>1 DEF Obeys
    <3> QED BY <3>2, <3>3
  <2>5. V[x + 2] = Wrap(s2 + v)
    BY <1>3, <2>3, <2>4
  <2>6. s2 + v = v + s2 /\ s2 + v \in Int
    BY <1>4
  <2>7. PICK z \in Int : z = s2 + v
    BY <2>6
  <2>8. Wrap(z) \in Word32
    BY WrapRange
  <2>9. Wrap(Wrap(z)) = Wrap(z)
    BY <2>8, WrapWord
  <2>10. Wrap(V[x + 2]) = Wrap(v + s2)
    BY <2>5, <2>6, <2>7, <2>9
  <2> QED BY <1>1, <1>2, <1>3, <1>6, <2>3, <2>10
<1> QED BY <1>1, <1>5, <1>6

LEMMA NewLabelHolds ==
  ASSUME AsmInv, NewLabel
  PROVE  AsmInv'
<1>1. Reduce("label")
  BY DEF NewLabel
<1>2. /\ At("label", {"INITIAL"}) /\ buffers' = Consumed
      /\ asm = "parse" /\ Top # <<>> /\ Item \in Items /\ Item.k = "label"
  BY <1>1, AtRule
<1>3. ~IsExpression(Item) /\ Takes(Item) = 0 /\ Item.name \in Name
  BY <1>2, ItemShape DEF IsExpression, Takes
<1>4. EInv /\ ScanInv /\ ValueInv
  BY DEF AsmInv
<1>5. CASE IsDefined(Item.name) \/ s_pc1 = unset_value
  <2>1. Exit
    BY <1>5 DEF NewLabel
  <2> QED BY <1>2, <2>1, ExitKeeps
<1>6. CASE ~(IsDefined(Item.name) \/ s_pc1 = unset_value)
  <2>1. PICK s2 \in Word32 : s2 = s_pc2
    BY <1>4 DEF ValueInv
  <2>2. s_pc1 \in Pointer
    BY <1>4, <1>6 DEF ValueInv
  <2>3. PICK x \in Nat : x = Len(exprs)
    BY <1>4 DEF EInv, ExprTypeOK
  <2>4. PICK y \in {0, 2} :
           /\ PcNodes(s2) \in Seq(Expression) /\ Len(PcNodes(s2)) = y
           /\ PcPointer(s2) \in 1 .. x + y
           /\ \A n \in 1 .. y : Arguments(PcNodes(s2)[n]) \subseteq 1 .. x + y
    BY <2>2, <2>3, PcNodesShape
  <2>5. PICK nodes \in Seq(Expression) : nodes = PcNodes(s2)
    BY <2>4
  <2>6. PICK p \in 1 .. x + y : p = PcPointer(s2)
    BY <2>4
  <2>7. /\ Create(nodes) /\ s_pc1' = p /\ s_pc2' = 0 /\ Define(Item.name, p)
        /\ MarkPlace(p, Len(atoms)) /\ UNCHANGED <<yyvsp, atoms, origin>> /\ StatementFrame
    BY <1>6, <2>1, <2>5, <2>6 DEF NewLabel
  <2>8. /\ asm' = asm /\ calls' = calls /\ named' = named /\ UNCHANGED outVars /\ ScanFrame
        /\ \A n \in DOMAIN named : n \in DOMAIN named' /\ named'[n] = named[n]
        /\ \A n \in DOMAIN named' : n \in DOMAIN named \cup BinaryName
        /\ BinaryOK'
    BY <2>7, StatementFrameIs
  <2>9. PICK l \in Nat : l = x + y
    BY <2>4
  <2>10. /\ DOMAIN s_sym_table' \subseteq Name
         /\ \A s \in DOMAIN s_sym_table' : s_sym_table'[s] \in 1 .. l
         /\ \A s \in DOMAIN s_sym_table :
              s \in DOMAIN s_sym_table' /\ s_sym_table'[s] = s_sym_table[s]
    <3>1. PICK name \in Name : name = Item.name /\ name \notin DOMAIN s_sym_table
      BY <1>3, <1>6 DEF IsDefined
    <3>2. s_sym_table' = [s \in DOMAIN s_sym_table \cup {name} |->
                            IF s = name THEN p ELSE s_sym_table[s]]
      BY <2>7, <3>1 DEF Define
    <3>3. DOMAIN s_sym_table \subseteq Name /\ \A s \in DOMAIN s_sym_table : s_sym_table[s] \in 1 .. x
      BY <1>4, <2>3 DEF EInv, ExprTypeOK, Pointer
    <3>4. \A e \in 1 .. x : e \in 1 .. l
      BY <2>4, <2>9
    <3> QED BY <2>9, <3>1, <3>2, <3>3, <3>4
  <2>11. /\ l = Len(exprs) + Len(nodes) /\ UNCHANGED <<asm, calls>>
         /\ \A n \in 1 .. Len(nodes) : Arguments(nodes[n]) \subseteq 1 .. l
         /\ \A n \in DOMAIN named \cap BinaryName : n \in DOMAIN named' /\ named'[n] = named[n]
    BY <2>3, <2>4, <2>5, <2>8, <2>9
  <2>12. /\ EInv' /\ Grows
         /\ Pointer' = 1 .. l /\ Len(parsed') = l /\ Len(parsed) = Len(exprs)
         /\ Len(exprs) \in Nat
         /\ \A n \in 1 .. Len(nodes) : parsed'[Len(exprs) + n] = nodes[n]
    BY ONLY AsmInv, <2>7, <2>10, <2>11, CreateGrows
  <2>13. Len(parsed') = Len(exprs')
    BY <2>12 DEF EInv, ExprTypeOK
  <2>14. PICK m \in Nat : m = Len(atoms)
    BY <1>4 DEF ValueInv
  <2>15. PICK q : q = [pc |-> p, after |-> origin, atom |-> m]
    OBVIOUS
  <2>16. /\ q \in [pc : Nat, after : Origin, atom : Nat]
         /\ q.pc = p /\ q.after = origin /\ q.atom = m /\ places' = Append(places, q)
    BY <1>4, <2>7, <2>14, <2>15 DEF ValueInv, MarkPlace
  <2>17. p \in Nat /\ p # unset_value /\ p \in Pointer'
    BY <2>9, <2>12 DEF unset_value
  <2>18. origin.org \in Pointer /\ origin.org # unset_value /\ origin.atom <= m
         /\ origin \in Origin
    BY <1>4, <1>6, <2>14 DEF ValueInv
  <2>19. origin.org \in Pointer'
    <3>1. \A e \in 1 .. x : e \in 1 .. l
      BY <2>4, <2>9
    <3> QED BY <2>3, <2>12, <2>18, <3>1 DEF Pointer
  <2>20. MarkOK(q)'
    <3>1. Len(atoms') = m
      BY <2>7, <2>14
    <3> QED BY <2>16, <2>17, <2>18, <2>19, <3>1 DEF MarkOK
  <2>21. PcMeans'
    <3> SUFFICES ASSUME NEW V, NEW D, NEW f,
                        V \in [Nat -> Int], D \in SUBSET Nat, f \in [Nat -> Int],
                        Obeys(V, D, parsed'), Adds(f, V, atoms')
                 PROVE  PcHolds(V, D, f)'
      BY DEF PcMeans
    <3>1. PcHolds(V, D, f)
      BY <2>7, <2>12, <2>13, PcBefore
    <3>2. p \in D => /\ origin.org \in D
                     /\ Wrap(V[p]) = Wrap(V[origin.org] + f[m] - f[origin.atom])
      <4> SUFFICES ASSUME p \in D
                   PROVE  /\ origin.org \in D
                          /\ Wrap(V[p]) = Wrap(V[origin.org] + f[m] - f[origin.atom])
        OBVIOUS
      <4>1. PICK pool : pool = parsed'
        OBVIOUS
      <4>2. /\ Len(pool) \in Nat /\ Len(pool) >= x + Len(PcNodes(s2))
            /\ \A n \in 1 .. Len(PcNodes(s2)) : pool[x + n] = PcNodes(s2)[n]
            /\ Obeys(V, D, pool) /\ PcPointer(s2) \in D
        <5>1. Len(pool) = x + y /\ Len(PcNodes(s2)) = y /\ y \in Nat
          BY <2>4, <2>9, <2>12, <4>1
        <5>2. Len(pool) \in Nat /\ Len(pool) >= x + Len(PcNodes(s2))
          BY ONLY <5>1, x \in Nat
        <5>3. \A n \in 1 .. Len(PcNodes(s2)) : pool[x + n] = PcNodes(s2)[n]
          BY <2>3, <2>5, <2>12, <4>1
        <5> QED BY <2>6, <4>1, <5>2, <5>3
      <4>3. s_pc1 \in D /\ Wrap(V[PcPointer(s2)]) = Wrap(V[s_pc1] + s2)
        BY <2>2, <2>3, <4>2, PcGets
      <4>4. /\ origin.org \in D
            /\ Wrap(V[s_pc1] + s_pc2) = Wrap(V[origin.org] + f[Len(atoms)] - f[origin.atom])
        BY <1>6, <3>1, <4>3 DEF PcHolds
      <4> QED BY <2>1, <2>6, <2>14, <4>3, <4>4
    <3>3. s_pc1' # unset_value /\ s_pc1' \in D =>
           /\ origin'.org \in D
           /\ Wrap(V[s_pc1'] + s_pc2') =
                Wrap(V[origin'.org] + f[Len(atoms')] - f[origin'.atom])
      <4>1. PICK v \in Int : v = V[p]
        BY <2>17
      <4>2. v + 0 = v
        OBVIOUS
      <4>3. V[s_pc1'] + s_pc2' = v
        BY <2>7, <4>1, <4>2
      <4>4. Wrap(V[s_pc1'] + s_pc2') = Wrap(V[p])
        BY ONLY <4>1, <4>3
      <4>5. s_pc1' = p /\ origin' = origin /\ Len(atoms') = m
        BY <2>7, <2>14
      <4> QED BY <3>2, <4>4, <4>5
    <3>4. /\ Len(atoms) <= Len(atoms') /\ Len(atoms') \in Nat
          /\ \A n \in 1 .. Len(atoms) : atoms'[n] = atoms[n]
          /\ \A n \in Len(atoms) + 1 .. Len(atoms') :
               atoms'[n].type = "I8" => Lies(V, D, f, Behind(n)', origin', n)
          /\ origin' = origin
      BY <2>7, <2>14
    <3>5. \E r \in [pc : Nat, after : Origin, atom : Nat] :
              /\ places' = Append(places, r)
              /\ r.after = origin /\ origin' = origin
              /\ r.atom = Len(atoms')
              /\ Lies(V, D, f, r.pc, origin, Len(atoms'))
      <4>1. Len(atoms') = m /\ origin' = origin
        BY <2>7, <2>14
      <4>2. Lies(V, D, f, q.pc, origin, m)
        BY <2>16, <3>2 DEF Lies
      <4> QED BY <2>16, <4>1, <4>2
    <3> QED BY <1>4, <2>12, <3>1, <3>3, <3>4, <3>5, PcGrows
  <2>22. 0 \in Word32
    BY WordAssumption DEF Word32
  <2>23. yyvsp' = Popped(Takes(Item))
    <3>1. Len(yyvsp) = 0 /\ yyvsp \in Seq(Pointer)
      BY <1>2, <1>3, <1>4, AtStatement DEF ValueInv
    <3>2. yyvsp = <<>> /\ SubSeq(<<>>, 1, 0 - 0) = <<>>
      BY <3>1
    <3>3. Popped(0) = <<>>
      BY <3>1, <3>2 DEF Popped
    <3> QED BY <1>3, <2>7, <3>2, <3>3
  <2>24. /\ s_pc1' \in Pointer' \cup {unset_value} /\ s_pc2' \in Word32
         /\ atoms' = atoms
         /\ origin' \in Origin
         /\ origin'.org \in Pointer' \cup {unset_value} /\ origin'.atom <= Len(atoms)
         /\ (origin'.org = unset_value <=> s_pc1' = unset_value)
         /\ "label" \notin {"IF", "ELIF", "if"}
         /\ \E r \in [pc : Nat, after : Origin, atom : Nat] :
              places' = Append(places, r) /\ MarkOK(r)'
    BY <2>7, <2>14, <2>16, <2>17, <2>18, <2>19, <2>20, <2>22
  <2> QED BY ONLY AsmInv, <1>2, <1>3, <2>8, <2>12, <2>21, <2>23, <2>24, StatementHolds
<1> QED BY <1>5, <1>6

LEMMA NewResHolds ==
  ASSUME AsmInv, NewRes
  PROVE  AsmInv'
<1>1. Reduce("res")
  BY DEF NewRes
<1>2. /\ At("res", {"INITIAL"}) /\ buffers' = Consumed
      /\ asm = "parse" /\ Top # <<>> /\ Item \in Items /\ Item.k = "res"
  BY <1>1, AtRule
<1>3. ~IsExpression(Item) /\ Takes(Item) = 2
  BY <1>2 DEF IsExpression, Takes
<1>4. EInv /\ ScanInv /\ ValueInv
  BY DEF AsmInv
<1>5. \A m \in 0 .. 2 - 1 : Arg(m) \in Pointer
  BY <1>2, <1>3, ArgsThere
<1>6. PICK e \in Pointer : e = Arg(1)
  BY <1>5
<1>7. PICK d \in Pointer : d = Arg(0)
  BY <1>5
<1>8. PICK args : args = <<e, d>>
  OBVIOUS
<1>9. PICK a : a = [type |-> "res", args |-> args]
  OBVIOUS
<1>10. e \in Nat /\ d \in Nat
  BY DEF Pointer
<1>11. args \in Seq(Pointer) /\ args \in Seq(Nat) /\ Len(args) = 2 /\ args[1] = e
  BY <1>8, <1>10
<1>12. a \in AtomSet /\ a.type = "res" /\ a.args = args
  <2>1. a \in [type : {"byte", "word", "res"}, args : Seq(Nat)]
    BY <1>9, <1>11
  <2> QED BY <1>9, <2>1 DEF AtomSet
<1>13. \A V : Size(a, V) = V[e]
  BY <1>11, <1>12 DEF Size, OpSize
<1>14. NewAtom(2, a) /\ UNCHANGED places
  BY <1>6, <1>7, <1>8, <1>9 DEF NewRes
<1>15. /\ atoms' = Append(atoms, a) /\ yyvsp' = Popped(2) /\ places' = places
       /\ UNCHANGED <<s_sym_table, origin>> /\ StatementFrame
  BY <1>14 DEF NewAtom
<1>16. /\ asm' = asm /\ calls' = calls /\ named' = named /\ UNCHANGED outVars /\ ScanFrame
       /\ \A n \in DOMAIN named : n \in DOMAIN named' /\ named'[n] = named[n]
       /\ \A n \in DOMAIN named' : n \in DOMAIN named \cup BinaryName
       /\ BinaryOK'
  BY <1>15, StatementFrameIs
<1>17. ASSUME EInv', Grows, Len(parsed') = Len(exprs'),
              s_pc1' \in Pointer' \cup {unset_value}, s_pc2' = s_pc2,
              s_pc1 = unset_value <=> s_pc1' = unset_value,
              \A V, D, f :
                /\ V \in [Nat -> Int] /\ D \in SUBSET Nat /\ f \in [Nat -> Int]
                /\ Obeys(V, D, parsed') /\ PcHolds(V, D, f) /\ f[Len(atoms) + 1] = f[Len(atoms)] + V[e]
                /\ s_pc1' # unset_value /\ s_pc1' \in D
                => /\ origin.org \in D
                   /\ Wrap(V[s_pc1'] + s_pc2) =
                        Wrap(V[origin.org] + f[Len(atoms) + 1] - f[origin.atom])
       PROVE  AsmInv'
  <2>1. Pointer \subseteq Pointer'
    BY <1>17 DEF Grows, Pointer
  <2>2. AtomOK(a)'
    <3>1. args \in Seq(Pointer')
      BY <1>11, <2>1, SeqWiden
    <3> QED BY <1>11, <1>12, <3>1 DEF AtomOK, Expects
  <2>3. PcMeans'
    <3> SUFFICES ASSUME NEW V, NEW D, NEW f,
                        V \in [Nat -> Int], D \in SUBSET Nat, f \in [Nat -> Int],
                        Obeys(V, D, parsed'), Adds(f, V, atoms')
                 PROVE  PcHolds(V, D, f)'
      BY DEF PcMeans
    <3>1. PcHolds(V, D, f)
      BY <1>12, <1>15, <1>17, PcBefore
    <3>2. PICK l \in Nat :
           /\ l = Len(atoms) /\ Len(atoms') = l + 1 /\ atoms'[l + 1] = a
           /\ \A n \in 1 .. l : atoms'[n] = atoms[n]
           /\ f[l + 1] = f[l] + Size(a, V) /\ f[l] \in Int /\ f[l + 1] \in Int
      BY <1>12, <1>15, Appended
    <3>3. s_pc1' # unset_value /\ s_pc1' \in D =>
           /\ origin'.org \in D
           /\ Wrap(V[s_pc1'] + s_pc2') =
                Wrap(V[origin'.org] + f[Len(atoms')] - f[origin'.atom])
      <4>1. f[Len(atoms) + 1] = f[Len(atoms)] + V[e]
        BY <1>13, <3>2
      <4>2. s_pc1' # unset_value /\ s_pc1' \in D =>
              /\ origin.org \in D
              /\ Wrap(V[s_pc1'] + s_pc2) = Wrap(V[origin.org] + f[Len(atoms) + 1] - f[origin.atom])
        BY <1>17, <3>1, <4>1
      <4>3. origin' = origin /\ s_pc2' = s_pc2 /\ Len(atoms') = Len(atoms) + 1
        BY <1>15, <1>17, <3>2
      <4> QED BY <4>2, <4>3
    <3>4. \A n \in Len(atoms) + 1 .. Len(atoms') :
               atoms'[n].type = "I8" => Lies(V, D, f, Behind(n)', origin', n)
      <4>1. ASSUME NEW m \in Len(atoms) + 1 .. Len(atoms') PROVE atoms'[m] = a
        <5>1. m = l + 1
          BY <3>2, <4>1
        <5> QED BY <3>2, <5>1
      <4> QED BY <1>12, <4>1
    <3>5. /\ Len(atoms) <= Len(atoms') /\ Len(atoms') \in Nat
          /\ \A n \in 1 .. Len(atoms) : atoms'[n] = atoms[n]
          /\ origin' = origin /\ places' = places
      BY <1>15, <3>2
    <3> QED BY <1>4, <1>17, <3>1, <3>3, <3>4, <3>5, PcGrows
  <2>4. /\ s_pc2' \in Word32 /\ origin' \in Origin
        /\ origin'.org \in Pointer' \cup {unset_value} /\ origin'.atom <= Len(atoms)
        /\ (origin'.org = unset_value <=> s_pc1' = unset_value)
    BY <1>4, <1>15, <1>17, <2>1 DEF ValueInv
  <2>5. /\ "res" \notin {"IF", "ELIF", "if"} /\ yyvsp' = Popped(Takes(Item))
        /\ \E b \in AtomSet : atoms' = Append(atoms, b) /\ AtomOK(b)'
    BY <1>3, <1>12, <1>15, <2>2
  <2> QED BY ONLY AsmInv, <1>2, <1>3, <1>15, <1>16, <1>17, <2>3, <2>4, <2>5, StatementHolds
<1>18. CASE s_pc1 = unset_value
  <2>1. UNCHANGED <<pcVars, exprs, parsed>>
    BY <1>18 DEF NewRes
  <2>2. EInv' /\ Grows /\ Pointer' = Pointer /\ Len(parsed') = Len(exprs')
    BY <1>15, <1>16, <2>1, PoolSame
  <2>3. s_pc1' = unset_value /\ s_pc2' = s_pc2
    BY <1>18, <2>1 DEF pcVars
  <2> QED BY <1>17, <1>18, <2>2, <2>3
<1>19. CASE s_pc1 # unset_value
  <2>1. PICK c \in Pointer : c = s_pc1
    BY <1>4, <1>19 DEF ValueInv
  <2>2. PICK node : node = Op2("PLUS", e, c)
    OBVIOUS
  <2>3. c \in Nat /\ node \in Expression /\ Arguments(node) = {e, c}
    BY <1>10, <2>2 DEF Op2, Expression, Arguments, UnaryOp, BinaryOp, Pointer
  <2>4. PICK nodes : nodes = <<node>> /\ nodes \in Seq(Expression) /\ Len(nodes) = 1
                     /\ nodes[1] = node
    <3>1. <<node>> \in Seq(Expression) /\ Len(<<node>>) = 1 /\ <<node>>[1] = node
      BY ONLY <2>3
    <3> QED BY ONLY <3>1
  <2>5. Create(nodes) /\ s_pc1' = Fresh(1) /\ s_pc2' = s_pc2
    BY <1>6, <1>19, <2>1, <2>2, <2>4 DEF NewRes
  <2>6. PICK x \in Nat : x = Len(exprs)
    BY <1>4 DEF EInv, ExprTypeOK
  <2>7. PICK z \in Nat : z = x + 1
    OBVIOUS
  <2>8. Pointer = 1 .. x /\ Pointer \subseteq 1 .. z
    BY <2>6, <2>7 DEF Pointer
  <2>9. /\ z = Len(exprs) + Len(nodes) /\ UNCHANGED <<asm, calls>>
        /\ \A n \in 1 .. Len(nodes) : Arguments(nodes[n]) \subseteq 1 .. z
        /\ DOMAIN s_sym_table' \subseteq Name
        /\ \A s \in DOMAIN s_sym_table' : s_sym_table'[s] \in 1 .. z
        /\ \A s \in DOMAIN s_sym_table :
             s \in DOMAIN s_sym_table' /\ s_sym_table'[s] = s_sym_table[s]
        /\ \A n \in DOMAIN named \cap BinaryName : n \in DOMAIN named' /\ named'[n] = named[n]
    <3>1. /\ DOMAIN s_sym_table \subseteq Name
          /\ \A s \in DOMAIN s_sym_table : s_sym_table[s] \in Pointer
      BY <1>4 DEF EInv, ExprTypeOK
    <3>2. \A n \in 1 .. Len(nodes) : Arguments(nodes[n]) \subseteq 1 .. z
      BY <2>3, <2>4, <2>8
    <3> QED BY <1>15, <1>16, <2>4, <2>6, <2>7, <2>8, <3>1, <3>2
  <2>10. /\ EInv' /\ Grows
         /\ Pointer' = 1 .. z /\ Len(parsed') = z /\ Len(parsed) = Len(exprs)
         /\ Len(exprs) \in Nat
         /\ \A n \in 1 .. Len(nodes) : parsed'[Len(exprs) + n] = nodes[n]
    BY ONLY AsmInv, <2>4, <2>5, <2>9, CreateGrows
  <2>11. Len(parsed') = Len(exprs')
    BY <2>10 DEF EInv, ExprTypeOK
  <2>12. s_pc1' = z /\ z \in Pointer' /\ z # unset_value
    BY <2>5, <2>6, <2>7, <2>10 DEF Fresh, unset_value
  <2>13. parsed'[z] = node
    BY <2>4, <2>6, <2>7, <2>10
  <2>14. ASSUME NEW V, NEW D, NEW f,
                V \in [Nat -> Int], D \in SUBSET Nat, f \in [Nat -> Int],
                Obeys(V, D, parsed'), PcHolds(V, D, f),
                f[Len(atoms) + 1] = f[Len(atoms)] + V[e],
                s_pc1' # unset_value, s_pc1' \in D
         PROVE  /\ origin.org \in D
                /\ Wrap(V[s_pc1'] + s_pc2) =
                     Wrap(V[origin.org] + f[Len(atoms) + 1] - f[origin.atom])
    <3>1. e \in D /\ c \in D /\ V[z] = Wrap(V[e] + V[c])
      <4>1. node.expr_op = "PLUS" /\ node.arg1 = e /\ node.arg2 = c
        BY <2>2 DEF Op2
      <4>2. z \in D /\ z \in 1 .. Len(parsed')
        BY <2>7, <2>10, <2>12, <2>14
      <4> QED BY <2>13, <2>14, <4>1, <4>2 DEF Obeys
    <3>2. /\ origin.org \in D
          /\ Wrap(V[c] + s_pc2) = Wrap(V[origin.org] + f[Len(atoms)] - f[origin.atom])
      BY <1>19, <2>1, <2>14, <3>1 DEF PcHolds
    <3>3. PICK v \in Int : v = V[c]
      BY <2>3, <2>14
    <3>4. PICK r \in Int : r = V[e]
      BY <1>10, <2>14
    <3>5. PICK o \in Int : o = V[origin.org]
      BY <2>14, <3>2
    <3>6. PICK h \in Int : h = f[Len(atoms)]
      BY <1>4, <2>14 DEF ValueInv
    <3>7. PICK g \in Int : g = f[origin.atom]
      BY <1>4, <2>14 DEF ValueInv, Origin
    <3>8. PICK s \in Int : s = s_pc2
      BY <1>4, WordAssumption DEF ValueInv, Word32
    <3>9. PICK p \in Int : p = v + s
      OBVIOUS
    <3>10. PICK q \in Int : q = o + h - g
      OBVIOUS
    <3>11. PICK t \in Int : t = r + v
      OBVIOUS
    <3>12. Wrap(p + r) = Wrap(q + r)
      <4>1. Wrap(p) = Wrap(q)
        BY <3>2, <3>3, <3>5, <3>6, <3>7, <3>8, <3>9, <3>10
      <4> QED BY ONLY <4>1, p \in Int, q \in Int, r \in Int, WrapBoth, ZenonT(30)
    <3>13. Wrap(Wrap(t) + s) = Wrap(s + t)
      BY WrapSum
    <3>14. s + t = p + r /\ q + r = o + (h + r) - g
      BY <3>9, <3>10, <3>11
    <3>15. Wrap(Wrap(t) + s) = Wrap(o + (h + r) - g)
      BY <3>12, <3>13, <3>14
    <3>16. V[z] = Wrap(t)
      BY <3>1, <3>3, <3>4, <3>11
    <3> QED BY <2>12, <2>14, <3>2, <3>4, <3>5, <3>6, <3>7, <3>8, <3>15, <3>16
  <2>15. s_pc1' \in Pointer' \cup {unset_value}
    BY <2>12
  <2> QED BY <1>17, <1>19, <2>5, <2>10, <2>11, <2>12, <2>14, <2>15
<1> QED BY <1>18, <1>19

LEMMA NewBranchHolds ==
  ASSUME AsmInv, NewBranch
  PROVE  AsmInv'
<1>1. Reduce("op") /\ Item.type = "I8"
  BY DEF NewBranch
<1>2. /\ At("op", {"INITIAL"}) /\ buffers' = Consumed
      /\ asm = "parse" /\ Top # <<>> /\ Item \in Items /\ Item.k = "op"
  BY <1>1, AtRule
<1>3. ~IsExpression(Item) /\ Takes(Item) = 1 /\ Item.code \in 0 .. 255
  BY <1>1, <1>2, ItemShape DEF IsExpression, Takes
<1>4. EInv /\ ScanInv /\ ValueInv
  BY DEF AsmInv
<1>5. CASE s_pc1 = unset_value
  <2>1. Exit
    BY <1>5 DEF NewBranch
  <2> QED BY <1>2, <2>1, ExitKeeps
<1>6. CASE s_pc1 # unset_value
  <2>1. PICK s \in Int : s = s_pc2
    BY <1>4, WordAssumption DEF ValueInv, Word32
  <2>2. PICK s2 \in Word32 : s2 = Wrap(s + 2)
    BY WrapRange
  <2>3. PICK c \in Pointer : c = s_pc1
    BY <1>4, <1>6 DEF ValueInv
  <2>4. PICK x \in Nat : x = Len(exprs)
    BY <1>4 DEF EInv, ExprTypeOK
  <2>5. PICK y \in {0, 2} :
           /\ PcNodes(s2) \in Seq(Expression) /\ Len(PcNodes(s2)) = y
           /\ PcPointer(s2) \in 1 .. x + y
           /\ \A n \in 1 .. y : Arguments(PcNodes(s2)[n]) \subseteq 1 .. x + y
    BY <2>3, <2>4, PcNodesShape
  <2>6. PICK p \in 1 .. x + y : p = PcPointer(s2)
    BY <2>5
  <2>7. PICK e \in Pointer : e = Arg(0)
    BY <1>2, <1>3, ArgsThere
  <2>8. PICK l \in Nat : l = x + y + 1
    BY <2>5
  <2>9. PICK node : node = Op2("MINUS", e, p)
    OBVIOUS
  <2>10. e \in 1 .. x /\ e \in Nat /\ p \in Nat /\ c \in 1 .. x
    BY <2>3, <2>4, <2>5, <2>7 DEF Pointer
  <2>11. node \in Expression /\ Arguments(node) = {e, p}
    BY <2>9, <2>10 DEF Op2, Expression, Arguments, UnaryOp, BinaryOp
  <2>12. PICK nodes : nodes = Append(PcNodes(s2), node)
    OBVIOUS
  <2>13. /\ nodes \in Seq(Expression) /\ Len(nodes) = y + 1 /\ nodes[y + 1] = node
         /\ \A n \in 1 .. y : nodes[n] = PcNodes(s2)[n]
    <3>1. y \in Nat
      BY <2>5
    <3> QED BY <2>5, <2>11, <2>12, <3>1, AppendIs
  <2>14. PICK a : a = [type |-> "I8", code |-> Item.code, args |-> <<l>>]
    OBVIOUS
  <2>15. /\ Create(nodes) /\ s_pc1' = p /\ s_pc2' = 0
         /\ MarkPlace(p, Len(atoms) + 1) /\ NewAtom(1, a)
    <3>1. OpSize.I8 = 2
      BY DEF OpSize
    <3>2. Fresh(Len(PcNodes(s2)) + 1) = l
      BY <2>4, <2>5, <2>8 DEF Fresh
    <3> QED BY <1>6, <2>1, <2>2, <2>6, <2>7, <2>9, <2>12, <2>14, <3>1, <3>2 DEF NewBranch
  <2>16. /\ atoms' = Append(atoms, a) /\ yyvsp' = Popped(1)
         /\ UNCHANGED <<s_sym_table, origin>> /\ StatementFrame
    BY <2>15 DEF NewAtom
  <2>17. /\ asm' = asm /\ calls' = calls /\ named' = named /\ UNCHANGED outVars /\ ScanFrame
         /\ \A n \in DOMAIN named : n \in DOMAIN named' /\ named'[n] = named[n]
         /\ \A n \in DOMAIN named' : n \in DOMAIN named \cup BinaryName
         /\ BinaryOK'
    BY <2>16, StatementFrameIs
  <2>18. \A n \in 1 .. x : n \in 1 .. l
    BY <2>5, <2>8
  <2>19. \A n \in 1 .. x + y : n \in 1 .. l
    BY <2>5, <2>8
  <2>20. \A n \in 1 .. Len(nodes) : Arguments(nodes[n]) \subseteq 1 .. l
    <3>1. Arguments(node) \subseteq 1 .. l
      BY <2>10, <2>11, <2>18, <2>19
    <3>2. \A n \in 1 .. y : Arguments(nodes[n]) \subseteq 1 .. l
      BY <2>5, <2>13, <2>19
    <3>3. \A n \in 1 .. y + 1 : n = y + 1 \/ n \in 1 .. y
      BY <2>5
    <3> QED BY <2>13, <3>1, <3>2, <3>3
  <2>21. /\ l = Len(exprs) + Len(nodes) /\ UNCHANGED <<asm, calls>>
         /\ DOMAIN s_sym_table' \subseteq Name
         /\ \A n \in DOMAIN s_sym_table' : s_sym_table'[n] \in 1 .. l
         /\ \A n \in DOMAIN s_sym_table :
              n \in DOMAIN s_sym_table' /\ s_sym_table'[n] = s_sym_table[n]
         /\ \A n \in DOMAIN named \cap BinaryName : n \in DOMAIN named' /\ named'[n] = named[n]
    <3>1. /\ DOMAIN s_sym_table \subseteq Name
          /\ \A n \in DOMAIN s_sym_table : s_sym_table[n] \in 1 .. x
      BY <1>4, <2>4 DEF EInv, ExprTypeOK, Pointer
    <3>2. l = Len(exprs) + Len(nodes)
      BY <2>4, <2>5, <2>8, <2>13
    <3> QED BY <2>16, <2>17, <2>18, <3>1, <3>2
  <2>22. /\ EInv' /\ Grows
         /\ Pointer' = 1 .. l /\ Len(parsed') = l /\ Len(parsed) = Len(exprs)
         /\ Len(exprs) \in Nat
         /\ \A n \in 1 .. Len(nodes) : parsed'[Len(exprs) + n] = nodes[n]
    BY ONLY AsmInv, <2>13, <2>15, <2>20, <2>21, CreateGrows
  <2>23. Len(parsed') = Len(exprs')
    BY <2>22 DEF EInv, ExprTypeOK
  <2>24. parsed'[l] = node
    <3>1. y + 1 \in 1 .. Len(nodes) /\ x + (y + 1) = l
      BY <2>5, <2>8, <2>13
    <3>2. parsed'[x + (y + 1)] = nodes[y + 1]
      BY <2>4, <2>22, <3>1
    <3> QED BY <2>13, <3>1, <3>2
  <2>25. node.expr_op = "MINUS" /\ node.arg2 = p
    BY <2>9 DEF Op2
  <2>26. a \in AtomSet /\ a.type = "I8" /\ a.args = <<l>> /\ a.args[1] = l
    <3>1. <<l>> \in Seq(Nat) /\ <<l>>[1] = l
      OBVIOUS
    <3>2. a \in [type : DOMAIN OpSize, code : 0 .. 255, args : Seq(Nat)]
      BY <1>3, <2>14, <3>1 DEF OpSize
    <3> QED BY <2>14, <3>1, <3>2 DEF AtomSet
  <2>27. AtomOK(a)'
    <3>1. l \in Pointer'
      BY <2>8, <2>22
    <3>2. <<l>> \in Seq(Pointer') /\ Len(<<l>>) = 1
      BY <3>1
    <3>3. Len(a.args) = Expects(a)
      BY <2>26, <3>2 DEF Expects
    <3> QED BY <2>24, <2>25, <2>26, <3>2, <3>3 DEF AtomOK, Expects
  <2>28. PICK m \in Nat : m = Len(atoms)
    BY <1>4 DEF ValueInv
  <2>29. Len(atoms') = m + 1 /\ atoms'[m + 1] = a /\ \A n \in 1 .. m : atoms'[n] = atoms[n]
    <3>1. atoms \in Seq(AtomSet)
      BY <1>4 DEF ValueInv
    <3> QED BY <2>16, <2>26, <2>28, <3>1, AppendIs
  <2>30. PICK q : q = [pc |-> p, after |-> origin, atom |-> m + 1]
    OBVIOUS
  <2>31. /\ q \in [pc : Nat, after : Origin, atom : Nat]
         /\ q.pc = p /\ q.after = origin /\ q.atom = m + 1 /\ places' = Append(places, q)
    BY <1>4, <2>10, <2>15, <2>28, <2>30 DEF ValueInv, MarkPlace
  <2>32. p # unset_value /\ p \in Pointer'
    BY <2>19, <2>22 DEF unset_value
  <2>33. origin.org \in Pointer /\ origin.org # unset_value /\ origin.atom <= m
         /\ origin \in Origin
    BY <1>4, <1>6, <2>28 DEF ValueInv
  <2>34. origin.org \in Pointer'
    BY <2>4, <2>18, <2>22, <2>33 DEF Pointer
  <2>35. MarkOK(q)'
    BY <2>28, <2>29, <2>31, <2>32, <2>33, <2>34 DEF MarkOK, Origin
  <2>36. Behind(m + 1)' = p
    BY <2>24, <2>25, <2>26, <2>29 DEF Behind
  <2>37. PcMeans'
    <3> SUFFICES ASSUME NEW V, NEW D, NEW f,
                        V \in [Nat -> Int], D \in SUBSET Nat, f \in [Nat -> Int],
                        Obeys(V, D, parsed'), Adds(f, V, atoms')
                 PROVE  PcHolds(V, D, f)'
      BY DEF PcMeans
    <3>1. PcHolds(V, D, f)
      BY <2>16, <2>22, <2>23, <2>26, PcBefore
    <3>2. f[m + 1] = f[m] + 2
      <4>1. Size(a, V) = 2
        BY <2>26 DEF Size, OpSize
      <4>2. PICK n \in Nat :
              /\ n = Len(atoms) /\ Len(atoms') = n + 1 /\ atoms'[n + 1] = a
              /\ \A i \in 1 .. n : atoms'[i] = atoms[i]
              /\ f[n + 1] = f[n] + Size(a, V) /\ f[n] \in Int /\ f[n + 1] \in Int
        <5>1. a \in AtomSet /\ atoms' = Append(atoms, a)
          BY ONLY <2>16, <2>26
        <5> QED BY ONLY <5>1, AsmInv, f \in [Nat -> Int], Adds(f, V, atoms'), Appended, ZenonT(40)
      <4>3. n = m
        BY <2>28, <4>2
      <4>4. f[n + 1] = f[n] + Size(a, V)
        BY <4>2
      <4> QED BY ONLY <4>1, <4>3, <4>4
    <3>3. p \in D => /\ origin.org \in D
                     /\ Wrap(V[p]) = Wrap(V[origin.org] + f[m + 1] - f[origin.atom])
      <4> SUFFICES ASSUME p \in D
                   PROVE  /\ origin.org \in D
                          /\ Wrap(V[p]) = Wrap(V[origin.org] + f[m + 1] - f[origin.atom])
        OBVIOUS
      <4>1. PICK pool : pool = parsed'
        OBVIOUS
      <4>2. /\ Len(pool) \in Nat /\ Len(pool) >= x + Len(PcNodes(s2))
            /\ \A n \in 1 .. Len(PcNodes(s2)) : pool[x + n] = PcNodes(s2)[n]
            /\ Obeys(V, D, pool) /\ PcPointer(s2) \in D
        <5>1. Len(pool) = l /\ Len(PcNodes(s2)) = y /\ y \in Nat
          BY <2>5, <2>22, <4>1
        <5>2. Len(pool) \in Nat /\ Len(pool) >= x + Len(PcNodes(s2))
          BY ONLY <2>8, <5>1, x \in Nat, l \in Nat
        <5>3. \A n \in 1 .. y : n \in 1 .. Len(nodes)
          BY <2>13, <5>1
        <5>4. \A n \in 1 .. y : pool[x + n] = PcNodes(s2)[n]
          BY <2>4, <2>13, <2>22, <4>1, <5>3
        <5> QED BY <2>6, <4>1, <5>1, <5>2, <5>4
      <4>3. s_pc1 \in D /\ Wrap(V[PcPointer(s2)]) = Wrap(V[s_pc1] + s2)
        BY <2>3, <2>4, <4>2, PcGets
      <4>4. /\ origin.org \in D
            /\ Wrap(V[s_pc1] + s_pc2) = Wrap(V[origin.org] + f[Len(atoms)] - f[origin.atom])
        BY <1>6, <3>1, <4>3 DEF PcHolds
      <4>5. PICK v \in Int : v = V[c]
        BY <2>10
      <4>6. PICK o \in Int : o = V[origin.org]
        BY <4>4
      <4>7. PICK h \in Int : h = f[m] /\ f[m + 1] = h + 2
        BY <3>2
      <4>8. PICK g \in Int : g = f[origin.atom]
        BY <2>33 DEF Origin
      <4>9. PICK r \in Int : r = v + s
        OBVIOUS
      <4>10. PICK t \in Int : t = o + h - g
        OBVIOUS
      <4>11. PICK u \in Int : u = s + 2
        OBVIOUS
      <4>12. Wrap(r) = Wrap(t)
        BY <2>1, <2>3, <2>28, <4>4, <4>5, <4>6, <4>7, <4>8, <4>9, <4>10
      <4>13. Wrap(r + 2) = Wrap(t + 2)
        BY <4>12, WrapBoth
      <4>14. Wrap(v + Wrap(u)) = Wrap(v + u)
        BY WrapSum
      <4>15. v + u = r + 2 /\ t + 2 = o + (h + 2) - g
        BY <4>9, <4>10, <4>11
      <4>16. Wrap(v + s2) = Wrap(o + (h + 2) - g)
        BY <2>2, <4>11, <4>13, <4>14, <4>15
      <4> QED BY <2>3, <2>6, <4>3, <4>4, <4>5, <4>6, <4>7, <4>8, <4>16
    <3>4. s_pc1' # unset_value /\ s_pc1' \in D =>
           /\ origin'.org \in D
           /\ Wrap(V[s_pc1'] + s_pc2') =
                Wrap(V[origin'.org] + f[Len(atoms')] - f[origin'.atom])
      <4>1. PICK v \in Int : v = V[p]
        BY <2>10
      <4>2. v + 0 = v
        OBVIOUS
      <4>3. V[s_pc1'] + s_pc2' = v
        BY <2>15, <4>1, <4>2
      <4>4. Wrap(V[s_pc1'] + s_pc2') = Wrap(V[p])
        BY ONLY <4>1, <4>3
      <4>5. s_pc1' = p /\ origin' = origin /\ Len(atoms') = m + 1
        BY <2>15, <2>16, <2>29
      <4> QED BY <3>3, <4>4, <4>5
    <3>5. Lies(V, D, f, p, origin, m + 1) /\ origin' = origin
      BY <2>16, <3>3 DEF Lies
    <3>6. \A n \in Len(atoms) + 1 .. Len(atoms') :
               atoms'[n].type = "I8" => Lies(V, D, f, Behind(n)', origin', n)
      <4> SUFFICES ASSUME NEW n \in Len(atoms) + 1 .. Len(atoms')
                   PROVE  Lies(V, D, f, Behind(n)', origin', n)
        OBVIOUS
      <4>1. n = m + 1
        BY <2>28, <2>29
      <4>2. Behind(n)' = p
        BY <2>36, <4>1 DEF Behind
      <4> QED BY <3>5, <4>1, <4>2
    <3>7. /\ Len(atoms) <= Len(atoms') /\ Len(atoms') \in Nat
          /\ \A n \in 1 .. Len(atoms) : atoms'[n] = atoms[n]
          /\ origin' = origin
      BY <2>16, <2>28, <2>29
    <3>8. \E r \in [pc : Nat, after : Origin, atom : Nat] :
              /\ places' = Append(places, r)
              /\ r.after = origin /\ origin' = origin
              /\ r.atom = Len(atoms')
              /\ Lies(V, D, f, r.pc, origin, Len(atoms'))
      BY <2>29, <2>31, <3>5
    <3> QED BY <1>4, <2>22, <3>1, <3>4, <3>6, <3>7, <3>8, PcGrows
  <2>38. 0 \in Word32
    BY WordAssumption DEF Word32
  <2>39. /\ s_pc1' \in Pointer' \cup {unset_value} /\ s_pc2' \in Word32
         /\ origin' \in Origin
         /\ origin'.org \in Pointer' \cup {unset_value} /\ origin'.atom <= Len(atoms)
         /\ (origin'.org = unset_value <=> s_pc1' = unset_value)
    BY <2>15, <2>16, <2>28, <2>32, <2>33, <2>34, <2>38
  <2>40. /\ "op" \notin {"IF", "ELIF", "if"} /\ yyvsp' = Popped(Takes(Item))
         /\ \E r \in [pc : Nat, after : Origin, atom : Nat] :
              places' = Append(places, r) /\ MarkOK(r)'
         /\ \E b \in AtomSet : atoms' = Append(atoms, b) /\ AtomOK(b)'
    BY <1>3, <2>16, <2>26, <2>27, <2>31, <2>35
  <2> QED BY ONLY AsmInv, <1>2, <1>3, <2>17, <2>22, <2>37, <2>39, <2>40, StatementHolds
<1> QED BY <1>5, <1>6

-----------------------------------------------------------------------------
(***************************************************************************)
(* The steps of the scanner.                                               *)
(***************************************************************************)
\* A directive changes nothing but the state of the scanner.
LEMMA DirectiveKeeps ==
  ASSUME AsmInv, NEW k, NEW conditions, At(k, conditions), ScannerOnly,
         asm' \in {asm, "failed"}, ScanInv'
  PROVE  AsmInv'
<1>1. asm = "parse"
  BY DEF At, Scanning
<1>2. /\ UNCHANGED <<exprs, s_sym_table, parsed, pcVars, atoms, origin, places, outVars>>
      /\ calls' = calls /\ named' = named /\ yyvsp' = yyvsp
  BY DEF ScannerOnly, parseVars
<1> QED BY <1>1, <1>2, ScannerHolds

LEMMA DirectivesKeep ==
  ASSUME AsmInv, ScanIf \/ ScanElif \/ ScanElse \/ ScanEndif \/ SkipItem
  PROVE  AsmInv'
<1>1. ScanInv
  BY DEF AsmInv
<1>2. CASE ScanIf
  <2>1. \E conditions : At("IF", conditions)
    BY <1>2 DEF ScanIf, Scan
  <2>2. ScannerOnly /\ asm' \in {asm, "failed"} /\ ScanInv'
    BY <1>1, <1>2, ScanIfHolds DEF ScanIf
  <2> QED BY <2>1, <2>2, DirectiveKeeps
<1>3. CASE ScanElif
  <2>1. \E conditions : At("ELIF", conditions)
    BY <1>3 DEF ScanElif, Scan
  <2>2. ScannerOnly /\ asm' \in {asm, "failed"} /\ ScanInv'
    BY <1>1, <1>3, ScanElifHolds DEF ScanElif, Pop
  <2> QED BY <2>1, <2>2, DirectiveKeeps
<1>4. CASE ScanElse
  <2>1. \E conditions : At("ELSE", conditions)
    BY <1>4 DEF ScanElse, Scan
  <2>2. ScannerOnly /\ asm' \in {asm, "failed"} /\ ScanInv'
    BY <1>1, <1>4, ScanElseHolds DEF ScanElse
  <2> QED BY <2>1, <2>2, DirectiveKeeps
<1>5. CASE ScanEndif
  <2>1. \E conditions : At("ENDIF", conditions)
    BY <1>5 DEF ScanEndif, Scan
  <2>2. ScannerOnly /\ asm' \in {asm, "failed"} /\ ScanInv'
    BY <1>1, <1>5, ScanEndifHolds DEF ScanEndif, Pop
  <2> QED BY <2>1, <2>2, DirectiveKeeps
<1>6. CASE SkipItem
  <2>1. \E conditions : At(Item.k, conditions)
    BY <1>6 DEF SkipItem, ScanOther, Scan
  <2>2. ScannerOnly /\ asm' \in {asm, "failed"} /\ ScanInv'
    BY <1>1, <1>6, SkipItemHolds DEF SkipItem
  <2> QED BY <2>1, <2>2, DirectiveKeeps
<1> QED BY <1>2, <1>3, <1>4, <1>5, <1>6

LEMMA EndMacroKeeps ==
  ASSUME AsmInv, EndMacro
  PROVE  AsmInv'
<1>1. \E conditions : At("endmacro", conditions)
  BY DEF EndMacro, Scan
<1>2. ScannerOnly /\ asm' \in {asm, "failed"} /\ ScanInv'
  BY EndMacroHolds DEF EndMacro, Pop, AsmInv
<1> QED BY <1>1, <1>2, DirectiveKeeps

LEMMA PushStateKeeps ==
  ASSUME AsmInv, PushState
  PROVE  AsmInv'
<1>1. ScanInv' /\ asm = "parse"
  BY ScanPushState DEF PushState, Scanning, AsmInv
<1>2. /\ UNCHANGED <<exprs, s_sym_table, parsed, pcVars, atoms, origin, places, outVars>>
      /\ asm' = asm /\ calls' = calls /\ named' = named /\ yyvsp' = yyvsp
  BY DEF PushState, exprVars, parseVars
<1> QED BY <1>1, <1>2, ScannerHolds

LEMMA EndOfBufferKeeps ==
  ASSUME AsmInv, EndOfBuffer
  PROVE  AsmInv'
<1>1. ScanInv' /\ asm = "parse"
  BY EndOfBufferHolds DEF EndOfBuffer, Scanning, AsmInv
<1>2. /\ UNCHANGED <<exprs, s_sym_table, parsed, pcVars, atoms, origin, places, outVars>>
      /\ asm' \in {asm, "output"} /\ calls' = calls /\ named' = named /\ yyvsp' = yyvsp
  BY DEF EndOfBuffer, parseVars
<1> QED BY <1>1, <1>2, ScannerHolds

LEMMA PushMacroStateKeeps ==
  ASSUME AsmInv, PushMacroState
  PROVE  AsmInv'
<1>1. Reduce("macro")
  BY DEF PushMacroState
<1>2. /\ At("macro", {"INITIAL"}) /\ buffers' = Consumed
      /\ asm = "parse" /\ Top # <<>> /\ Item \in Items /\ Item.k = "macro"
  BY <1>1, AtRule
<1>3. Item.name \notin BinaryName
  BY <1>2, ItemShape
<1>4. ScanInv'
  BY PushMacroStateHolds DEF AsmInv
<1>5. CASE Item.name \in DOMAIN named
  BY <1>2, <1>5, ExitKeeps DEF PushMacroState
<1>6. CASE Item.name \notin DOMAIN named
  <2>1. /\ named' = Store(Item.name, <<>>)
        /\ UNCHANGED <<exprVars, start, start_stack, chains, parseVars, outVars>>
    BY <1>6 DEF PushMacroState
  <2>2. \A n \in DOMAIN named \cap BinaryName : n \in DOMAIN named' /\ named'[n] = named[n]
    BY <1>3, <2>1, StoreIs
  <2>3. /\ UNCHANGED <<exprs, s_sym_table, parsed, pcVars, atoms, origin, places, outVars>>
        /\ asm' = asm /\ calls' = calls /\ yyvsp' = yyvsp
    BY <2>1 DEF exprVars, parseVars
  <2> QED BY <1>2, <1>4, <2>2, <2>3, ScannerHolds
<1> QED BY <1>5, <1>6

LEMMA IncludeKeeps ==
  ASSUME AsmInv, Include
  PROVE  AsmInv'
<1>1. At("include", {"INITIAL"}) /\ ScanInv
  BY DEF Include, AsmInv
<1>2. asm = "parse" /\ Top # <<>> /\ Item \in Items /\ Item.k = "include"
  BY <1>1, AtItem
<1>3. Item.name \notin BinaryName
  BY <1>2, ItemShape
<1>4. ScanInv'
  BY IncludeHolds DEF AsmInv
<1>5. CASE Exit /\ buffers' = Consumed
  BY <1>2, <1>5, ExitKeeps
<1>6. CASE ~(Exit /\ buffers' = Consumed)
  <2>1. /\ GetNamedBuffer(Item.name)
        /\ UNCHANGED <<exprVars, condVars, s_macro_name, parseVars, outVars>>
    BY <1>6 DEF Include
  <2>2. \A n \in DOMAIN named \cap BinaryName : n \in DOMAIN named' /\ named'[n] = named[n]
    BY <1>3, <2>1, StoreIs DEF GetNamedBuffer
  <2>3. /\ UNCHANGED <<exprs, s_sym_table, parsed, pcVars, atoms, origin, places, outVars>>
        /\ asm' = asm /\ calls' = calls /\ yyvsp' = yyvsp
    BY <2>1 DEF exprVars, parseVars
  <2> QED BY <1>2, <1>4, <2>2, <2>3, ScannerHolds
<1> QED BY <1>5, <1>6

LEMMA MacroAppendKeeps ==
  ASSUME AsmInv, MacroAppend
  PROVE  AsmInv'
<1>1. At(Item.k, {"MACROO"}) /\ ScanInv
  BY DEF MacroAppend, ScanOther, Scan, AsmInv
<1>2. asm = "parse" /\ start = "MACROO"
  BY <1>1 DEF At, Scanning
<1>3. s_macro_name \notin BinaryName
  BY <1>1, <1>2 DEF ScanInv, Modes, InMacro
<1>4. ScanInv'
  BY MacroAppendHolds DEF AsmInv
<1>5. /\ named' = [named EXCEPT ![s_macro_name] = Append(@, Item)]
      /\ UNCHANGED <<exprVars, condVars, s_macro_name, parseVars, outVars>>
  BY DEF MacroAppend
<1>6. \A n \in DOMAIN named \cap BinaryName : n \in DOMAIN named' /\ named'[n] = named[n]
  BY <1>3, <1>5
<1>7. /\ UNCHANGED <<exprs, s_sym_table, parsed, pcVars, atoms, origin, places, outVars>>
      /\ asm' = asm /\ calls' = calls /\ yyvsp' = yyvsp
  BY <1>5 DEF exprVars, parseVars
<1> QED BY <1>2, <1>4, <1>6, <1>7, ScannerHolds

LEMMA AsmErrorKeeps ==
  ASSUME AsmInv, AsmError
  PROVE  AsmInv'
<1>1. Reduce("error") /\ Exit
  BY DEF AsmError
<1>2. asm = "parse" /\ Top # <<>> /\ buffers' = Consumed
  BY <1>1, AtRule
<1> QED BY <1>1, <1>2, ExitKeeps

\* All steps while the source is read.
LEMMA ParserStep ==
  ASSUME AsmInv, NextParser
  PROVE  AsmInv'
BY PushStateKeeps, DirectivesKeep, EndOfBufferKeeps, PushMacroStateKeeps, MacroAppendKeeps,
   EndMacroKeeps, IncludeKeeps, AsmErrorKeeps, NewExprNumberHolds, NewExprSymrefHolds,
   NewExprOp1Holds, NewExprOp2Holds, NewIsDefinedHolds, ResolveForParserHolds,
   PushIfStateKeeps, NewExprIncwordHolds, SetOrgHolds, NewSymbolExprHolds, NewLabelHolds,
   NewOpHolds, NewBranchHolds, NewExprsHolds, NewResHolds, NewIncbinHolds DEF NextParser

-----------------------------------------------------------------------------
(***************************************************************************)
(* output_atoms: an atom has as many bytes as were counted for it.         *)
(***************************************************************************)
LEMMA ListIs ==
  ASSUME NEW n \in Nat, NEW S, NEW f \in [1 .. n -> S]
  PROVE  f \in Seq(S) /\ Len(f) = n
<1>1. f \in Seq(S)
  BY SeqDef
<1> QED BY <1>1

LEMMA LowByteRange ==
  ASSUME NEW v \in Int
  PROVE  LowByte(v) \in 0 .. 255
BY DEF LowByte

LEMMA WordBytesIs ==
  ASSUME NEW v \in Int
  PROVE  /\ WordBytes(v) \in Seq(0 .. 255) /\ Len(WordBytes(v)) = 2
         /\ WordBytes(v)[1] \in 0 .. 255 /\ WordBytes(v)[2] \in 0 .. 255
<1>1. PICK m \in Nat : m = Magnitude(v)
  BY DEF Magnitude
<1>2. Magnitude(256) = 256
  BY DEF Magnitude
<1>3. m \div 256 \in Nat
  BY Divided
<1>4. PICK q \in Int : q = Quotient(v, 256)
  BY <1>1, <1>2, <1>3 DEF Quotient
<1>5. PICK r \in Int : r = Remainder(v, 256)
  BY <1>4 DEF Remainder
<1>6. PICK a \in 0 .. 255 : a = LowByte(r)
  BY LowByteRange
<1>7. PICK b \in 0 .. 255 : b = LowByte(q)
  BY LowByteRange
<1>8. WordBytes(v) = <<a, b>>
  BY <1>4, <1>5, <1>6, <1>7 DEF WordBytes
<1> QED BY <1>8

\* Every second byte starts a word.
LEMMA HalfIs ==
  ASSUME NEW l \in Nat, NEW n \in 1 .. 2 * l
  PROVE  (n + 1) \div 2 \in 1 .. l /\ ((n + 1) % 2) + 1 \in {1, 2}
<1>1. PICK q \in Int : q = (n + 1) \div 2
  OBVIOUS
<1>2. PICK r \in 0 .. 1 : r = (n + 1) % 2 /\ n + 1 = 2 * q + r
  BY <1>1
<1>3. 1 <= q /\ q <= l
  BY <1>2
<1> QED BY <1>1, <1>2, <1>3

LEMMA WordLimit ==
  ASSUME NEW x \in Limits.U16
  PROVE  x \in Nat
BY DEF Limits

\* The bytes of an atom that is put out.
LEMMA BytesIs ==
  ASSUME AsmInv, OutputAtom, NEW a, a = Atom
  PROVE  /\ Bytes \in Seq(0 .. 255)
         /\ Len(Bytes) = Size(a, Values)
         /\ a.type = "I8" =>
              /\ Len(Bytes) = 2
              /\ Value(a.args[1]) \in -128 .. 127
              /\ Bytes[2] = LowByte(Value(a.args[1]))
<1>1. AtAtom /\ BufferFits
      /\ \A n \in 1 .. Len(a.args) : Resolved(a.args[n]) /\ ~Invalid(n)
  BY DEF OutputAtom
<1>2. ScanInv /\ ValueInv /\ EInv
  BY DEF AsmInv
<1>3. PICK i \in 1 .. Len(atoms) : a = atoms[i]
  BY <1>1, AtomIs
<1>4. /\ a \in AtomSet /\ AtomOK(a) /\ a.args \in Seq(Pointer) /\ Len(a.args) = Expects(a)
      /\ \A n \in 1 .. Len(a.args) : a.args[n] \in Pointer
  BY <1>2, <1>3, AtomArgs
<1> DEFINE v(n) == Value(a.args[n])
<1>5. \A n \in 1 .. Len(a.args) : v(n) \in Int
  <2> SUFFICES ASSUME NEW n \in 1 .. Len(a.args) PROVE v(n) \in Int
    OBVIOUS
  <2>1. PICK e \in Pointer : e = a.args[n] /\ Resolved(e)
    BY <1>1, <1>4
  <2>2. Value(e) \in Word32
    BY <1>2, <2>1, ValueRange
  <2> QED BY <2>1, <2>2, WordAssumption DEF Word32
<1> HIDE DEF v
<1>6. a.type \in {"NONE", "U8", "U16", "UI8", "I8", "byte", "word", "res", "incbin"}
  BY <1>4 DEF AtomSet, OpSize
<1>7. a.type \in DOMAIN OpSize => a.code \in 0 .. 255
  BY <1>4 DEF AtomSet, OpSize
<1>8. CASE a.type = "NONE"
  <2>1. Bytes = <<a.code>>
    BY <1>8 DEF Bytes
  <2>2. Size(a, Values) = 1 /\ a.code \in 0 .. 255
    BY <1>7, <1>8 DEF Size, OpSize
  <2> QED BY <1>8, <2>1, <2>2
<1>9. CASE a.type \in {"U8", "I8", "UI8"}
  <2>1. Len(a.args) = 1
    BY <1>4, <1>9 DEF Expects
  <2>2. PICK x \in Int : x = Value(a.args[1])
    BY <1>5, <2>1 DEF v
  <2>3. PICK b \in 0 .. 255 : b = LowByte(x)
    BY LowByteRange
  <2>4. PICK c \in 0 .. 255 : c = a.code
    BY <1>7, <1>9 DEF OpSize
  <2>5. Bytes = <<c, b>>
    BY <1>9, <2>2, <2>3, <2>4 DEF Bytes
  <2>6. Size(a, Values) = 2
    BY <1>9 DEF Size, OpSize
  <2>7. a.type = "I8" => x \in -128 .. 127
    <3> SUFFICES ASSUME a.type = "I8" PROVE x \in -128 .. 127
      OBVIOUS
    <3>1. ~Invalid(1)
      BY <1>1, <2>1
    <3>2. Atom.type = "I8" /\ Value(Atom.args[1]) = x
      BY <2>2
    <3> QED BY <3>1, <3>2 DEF Invalid, Limits
  <2>8. Bytes \in Seq(0 .. 255) /\ Len(Bytes) = 2 /\ Bytes[2] = b
    BY ONLY <2>5, b \in 0 .. 255, c \in 0 .. 255
  <2> QED BY <2>2, <2>3, <2>6, <2>7, <2>8
<1>10. CASE a.type = "U16"
  <2>1. Len(a.args) = 1
    BY <1>4, <1>10 DEF Expects
  <2>2. v(1) \in Int
    BY <1>5, <2>1
  <2>3. PICK w \in Seq(0 .. 255) : w = WordBytes(v(1)) /\ Len(w) = 2
    BY <2>2, WordBytesIs
  <2>4. Bytes = <<a.code>> \o w
    BY <1>10, <2>3 DEF Bytes, v
  <2>5. Size(a, Values) = 3 /\ a.code \in 0 .. 255
    BY <1>7, <1>10 DEF Size, OpSize
  <2>6. <<a.code>> \in Seq(0 .. 255) /\ Len(<<a.code>>) = 1
    BY <2>5
  <2>7. Bytes \in Seq(0 .. 255) /\ Len(Bytes) = 3
    BY <2>3, <2>4, <2>6
  <2> QED BY <1>10, <2>5, <2>7
<1>11. CASE a.type = "res"
  <2>1. Len(a.args) = 2
    BY <1>4, <1>11 DEF Expects
  <2>2. PICK x \in Int : x = Value(a.args[1])
    BY <1>5, <2>1 DEF v
  <2>3. PICK y \in Int : y = Value(a.args[2])
    BY <1>5, <2>1 DEF v
  <2>5. x \in Nat
    <3>1. ~Invalid(1)
      BY <1>1, <2>1
    <3>2. Atom.type = "res" /\ Value(Atom.args[1]) = x
      BY <1>11, <2>2
    <3>3. x \notin Limits.U16 => Invalid(1)
      BY <3>2, Zenon DEF Invalid
    <3>4. x \in Limits.U16
      BY ONLY <3>1, <3>3
    <3> QED BY ONLY <3>4, WordLimit
  <2>6. PICK b \in 0 .. 255 : b = LowByte(y)
    BY LowByteRange
  <2>7. Bytes = [n \in 1 .. x |-> b]
    BY <1>11, <2>2, <2>3, <2>6 DEF Bytes
  <2>8. Bytes \in [1 .. x -> 0 .. 255]
    BY <2>7
  <2>9. Bytes \in Seq(0 .. 255) /\ Len(Bytes) = x
    BY ONLY <2>5, <2>8, ListIs
  <2>10. Size(a, Values) = Values[a.args[1]]
    BY <1>11 DEF Size, OpSize
  <2>11. PICK e \in Pointer : e = a.args[1] /\ Resolved(e)
    BY <1>1, <1>4, <2>1
  <2>12. Values[e] = Value(e)
    BY <2>11 DEF Values, Valued, Pointer
  <2> QED BY <1>11, <2>2, <2>9, <2>10, <2>11, <2>12
<1>12. CASE a.type = "byte"
  <2>1. PICK l \in Nat : l = Len(a.args)
    BY <1>4
  <2>2. Bytes = [n \in 1 .. l |-> LowByte(v(n))]
    BY <1>12, <2>1 DEF Bytes, v
  <2>3. \A n \in 1 .. l : LowByte(v(n)) \in 0 .. 255
    BY <1>5, <2>1, LowByteRange
  <2>4. Bytes \in [1 .. l -> 0 .. 255]
    BY <2>2, <2>3
  <2>5. Bytes \in Seq(0 .. 255) /\ Len(Bytes) = l
    BY <2>4, ListIs
  <2>6. Size(a, Values) = l
    BY <1>12, <2>1 DEF Size, OpSize
  <2> QED BY <1>12, <2>5, <2>6
<1>13. CASE a.type = "word"
  <2>1. PICK l \in Nat : l = Len(a.args)
    BY <1>4
  <2>2. Bytes = [n \in 1 .. 2 * l |-> WordBytes(v((n + 1) \div 2))[((n + 1) % 2) + 1]]
    BY <1>13, <2>1 DEF Bytes, v
  <2>3. ASSUME NEW n \in 1 .. 2 * l
        PROVE  WordBytes(v((n + 1) \div 2))[((n + 1) % 2) + 1] \in 0 .. 255
    <3>1. PICK q \in 1 .. l : q = (n + 1) \div 2
      BY HalfIs
    <3>2. PICK r \in {1, 2} : r = ((n + 1) % 2) + 1
      BY HalfIs
    <3>3. v(q) \in Int
      BY <1>5, <2>1
    <3>4. WordBytes(v(q))[r] \in 0 .. 255
      BY <3>3, WordBytesIs
    <3> QED BY ONLY <3>1, <3>2, <3>4
  <2>4. PICK k \in Nat : k = 2 * l
    BY <2>1
  <2>5. Bytes \in [1 .. k -> 0 .. 255]
    BY <2>2, <2>3, <2>4
  <2>6. Bytes \in Seq(0 .. 255) /\ Len(Bytes) = k
    BY <2>5, ListIs
  <2>7. Size(a, Values) = k
    BY <1>13, <2>1, <2>4 DEF Size, OpSize
  <2> QED BY <1>13, <2>6, <2>7
<1>14. CASE a.type = "incbin"
  <2>1. a.name \in BinaryName /\ a.skip \in Nat /\ a.length \in Nat
    BY <1>4, <1>14 DEF AtomSet, OpSize
  <2>2. a.name \in DOMAIN named /\ a.skip + a.length <= Len(named[a.name])
    BY <1>4, <1>14 DEF AtomOK
  <2>3. PICK file \in Seq(0 .. 255) : file = named[a.name]
    BY <1>2, <2>1, <2>2 DEF ScanInv, BinaryOK
  <2>4. PICK s \in Nat : s = a.skip
    BY <2>1
  <2>5. PICK n \in Nat : n = a.length
    BY <2>1
  <2>6. s + n <= Len(file)
    BY <2>2, <2>3, <2>4, <2>5
  <2>7. Bytes = SubSeq(file, s + 1, s + n)
    BY <1>14, <2>3, <2>4, <2>5 DEF Bytes
  <2>8. Bytes \in Seq(0 .. 255) /\ Len(Bytes) = n
    <3>1. s + n \in Nat /\ s + n <= Len(file) /\ Len(file) \in Nat
      BY <2>3, <2>6
    <3>2. PICK t \in Nat : t = s + n
      BY <3>1
    <3>3. SubSeq(file, s + 1, t) \in Seq(0 .. 255) /\ Len(SubSeq(file, s + 1, t)) = n
      <4>1. CASE s + 1 <= t + 1
        <5>1. PICK m \in Nat : m = s + 1
          OBVIOUS
        <5>2. ASSUME NEW o \in m .. t PROVE file[o] \in 0 .. 255
          <6>1. PICK l \in Nat : l = Len(file) /\ t <= l
            BY <3>1, <3>2
          <6>2. o \in 1 .. l
            BY ONLY <5>1, <6>1, m \in Nat, s \in Nat, t \in Nat, o \in m .. t
          <6> QED BY ONLY <6>1, <6>2, file \in Seq(0 .. 255)
        <5>3. /\ SubSeq(file, m, t) \in Seq(0 .. 255)
              /\ Len(SubSeq(file, m, t)) = IF m <= t THEN t - m + 1 ELSE 0
          BY ONLY <5>2, m \in Int, t \in Int, SubSeqProperties
        <5> QED BY <3>2, <5>1, <5>3
      <4> QED BY <3>2, <4>1
    <3> QED BY <2>7, <3>2, <3>3
  <2>9. Size(a, Values) = n
    BY <1>14, <2>5 DEF Size, OpSize
  <2> QED BY <1>14, <2>8, <2>9
<1> QED BY <1>6, <1>8, <1>9, <1>10, <1>11, <1>12, <1>13, <1>14

\* Nothing but the output goes on.
LEMMA OutputKeeps ==
  ASSUME AsmInv, asm' \in {asm, "failed", "done"}, asm # "parse",
         UNCHANGED <<exprs, s_sym_table, calls, parsed, scanVars, parseVars>>
  PROVE  /\ EInv' /\ ScanInv' /\ ValueInv' /\ PcMeans'
         /\ Values' = Values
         /\ \A e \in Pointer : Resolved(e)' = Resolved(e) /\ Value(e)' = Value(e)
<1>1. EInv /\ ScanInv /\ ValueInv /\ PcMeans
  BY DEF AsmInv
<1>2. calls \in Seq(Pointer) /\ Len(calls) <= MAX_DEPTH /\ Len(exprs) \in Nat
      /\ Len(parsed) = Len(exprs)
  BY <1>1 DEF EInv, ExprTypeOK
<1>3. EInv'
  <2>1. asm' \in {"parse", "output", "done", "failed", "crashed"}
    BY <1>1 DEF EInv, ExprTypeOK
  <2>2. calls' = calls
    OBVIOUS
  <2> QED BY <1>1, <1>2, <2>1, <2>2, PoolStays
<1>5. UNCHANGED <<scanVars, yyvsp>> /\ UNCHANGED <<yyvsp, s_pc1, s_pc2, atoms, origin, places>>
      /\ named' = named /\ UNCHANGED pcVars
  BY DEF parseVars, scanVars, pcVars
<1>6. ScanInv'
  BY <1>1, <1>5, ScanStays
<1>8. Grows
  BY <1>2, <1>5 DEF Grows
<1>9. PcMeans'
  BY <1>1, <1>2, <1>5, <1>8, PcStays
<1>10. ValueInv'
  BY <1>1, <1>5 DEF ValueInv, AtomOK, MarkOK, Pointer, Expects
<1>11. Values' = Values
  BY DEF Values, Valued, Resolved, Value, Pointer
<1>12. \A e \in Pointer : Resolved(e)' = Resolved(e) /\ Value(e)' = Value(e)
  BY DEF Resolved, Value
<1> QED BY <1>3, <1>6, <1>9, <1>10, <1>11, <1>12

LEMMA OutputEnds ==
  ASSUME AsmInv, OutputFails \/ OutputDone
  PROVE  AsmInv'
<1>1. asm = "output" /\ asm' \in {"failed", "done"}
      /\ UNCHANGED <<exprs, s_sym_table, calls, parsed, scanVars, parseVars, outVars>>
  BY DEF OutputFails, OutputDone, AtAtom
<1>2. asm' = "done" => Len(ends) = Len(atoms)
  BY DEF OutputFails, OutputDone
<1>3. /\ EInv' /\ ScanInv' /\ ValueInv' /\ PcMeans' /\ Values' = Values
  BY <1>1, OutputKeeps
<1>4. OutInv
  BY DEF AsmInv
<1>5. out' = out /\ ends' = ends /\ atoms' = atoms
  BY <1>1, Zenon DEF parseVars, outVars
<1>6. OutInv'
  BY <1>1, <1>2, <1>3, <1>4, <1>5 DEF OutInv, PutOut, End, Resolved, Value
<1> QED BY <1>3, <1>6 DEF AsmInv

\* The list s with t behind it.
LEMMA Joined ==
  ASSUME NEW S, NEW s \in Seq(S), NEW t \in Seq(S)
  PROVE  /\ s \o t \in Seq(S) /\ Len(s \o t) = Len(s) + Len(t)
         /\ \A n \in 1 .. Len(s) : (s \o t)[n] = s[n]
         /\ \A n \in 1 .. Len(t) : (s \o t)[Len(s) + n] = t[n]
OBVIOUS

LEMMA OutputAtomHolds ==
  ASSUME AsmInv, OutputAtom
  PROVE  AsmInv'
<1>1. AtAtom /\ \A n \in 1 .. Len(Atom.args) : Resolved(Atom.args[n])
  BY DEF OutputAtom
<1>2. out' = out \o Bytes /\ ends' = Append(ends, Len(out'))
      /\ UNCHANGED <<exprVars, scanVars, parseVars>>
  BY DEF OutputAtom
<1>3. UNCHANGED <<asm, exprs, s_sym_table, calls, parsed, scanVars, parseVars>>
  BY <1>2 DEF exprVars
<1>4. asm = "output"
  BY <1>1 DEF AtAtom
<1>5. /\ EInv' /\ ScanInv' /\ ValueInv' /\ PcMeans' /\ Values' = Values
      /\ \A e \in Pointer : Resolved(e)' = Resolved(e) /\ Value(e)' = Value(e)
  BY <1>3, <1>4, OutputKeeps
<1>6. OutInv /\ ValueInv
  BY DEF AsmInv
<1>7. PICK k \in Nat : k = Len(ends)
  BY <1>6 DEF OutInv
<1>8. PICK a : a = Atom /\ a = atoms[k + 1]
  BY <1>7 DEF Atom
<1>9. k + 1 \in 1 .. Len(atoms) /\ \A m \in 1 .. Len(a.args) : a.args[m] \in Pointer
  BY <1>1, <1>7, <1>8, AtomIs
<1>10. /\ a \in AtomSet /\ a.args \in Seq(Pointer) /\ Len(a.args) = Expects(a)
  BY <1>6, <1>8, <1>9, AtomArgs
<1>11. PICK b \in Seq(0 .. 255) :
         /\ b = Bytes /\ Len(b) = Size(a, Values)
         /\ a.type = "I8" => /\ Len(b) = 2 /\ Value(a.args[1]) \in -128 .. 127
                             /\ b[2] = LowByte(Value(a.args[1]))
  BY <1>8, BytesIs
<1>12. PICK o \in Seq(0 .. 255) : o = out
  BY <1>6 DEF OutInv
<1>13. /\ out' \in Seq(0 .. 255) /\ Len(out') = Len(o) + Len(b)
       /\ \A n \in 1 .. Len(o) : out'[n] = o[n]
       /\ \A n \in 1 .. Len(b) : out'[Len(o) + n] = b[n]
  <2>1. PICK more : more = o \o b
    OBVIOUS
  <2>2. /\ more \in Seq(0 .. 255) /\ Len(more) = Len(o) + Len(b)
        /\ \A n \in 1 .. Len(o) : more[n] = o[n]
        /\ \A n \in 1 .. Len(b) : more[Len(o) + n] = b[n]
    BY ONLY <2>1, o \in Seq(0 .. 255), b \in Seq(0 .. 255), Joined
  <2>3. out' = more
    BY <1>2, <1>11, <1>12, <2>1
  <2> QED BY <2>2, <2>3
<1>14. PICK l \in Nat : l = Len(o)
  BY <1>12
<1>15. PICK z \in Nat : z = Len(b)
  BY <1>11
<1>16. Len(out') = l + z /\ l + z \in Nat
  BY <1>13, <1>14, <1>15
<1>17. ends \in Seq(Nat)
  BY <1>6 DEF OutInv
<1>18. /\ ends' \in Seq(Nat) /\ Len(ends') = k + 1 /\ ends'[k + 1] = l + z
       /\ \A n \in 1 .. k : ends'[n] = ends[n]
  <2>1. PICK e \in Nat : e = l + z
    BY <1>16
  <2>2. ends' = Append(ends, e)
    BY <1>2, <1>16, <2>1
  <2> QED BY ONLY <1>7, <1>17, <2>1, <2>2
<1>19. atoms' = atoms
  BY <1>2 DEF parseVars
<1>20. End(k) = l
  BY <1>6, <1>7, <1>12, <1>14 DEF OutInv
<1>21. End(k)' = l
  <2>1. CASE k = 0
    BY <1>20, <2>1 DEF End
  <2>2. CASE k # 0
    <3>1. k \in 1 .. k
      BY <1>7, <2>2
    <3>2. ends'[k] = ends[k]
      BY <1>18, <3>1
    <3> QED BY <1>20, <2>2, <3>2 DEF End
  <2> QED BY <2>1, <2>2
<1>22. ASSUME NEW n \in 1 .. k PROVE PutOut(n)'
  <2>1. PutOut(n)
    BY <1>6, <1>7 DEF OutInv
  <2>2. n \in 1 .. Len(atoms)
    <3>1. PICK y \in Nat : y = Len(atoms)
      BY <1>6 DEF ValueInv
    <3>2. k + 1 <= y
      BY <1>9, <3>1
    <3> QED BY <1>7, <3>1, <3>2
  <2>3. PICK c \in AtomSet : c = atoms[n]
    BY <1>6, <2>2, AtomArgs
  <2>4. Len(c.args) = Expects(c) /\ \A m \in 1 .. Len(c.args) : c.args[m] \in Pointer
    BY <1>6, <2>2, <2>3, AtomArgs
  <2>5. \A m \in 1 .. Len(c.args) : Resolved(c.args[m])'
    BY <1>5, <2>1, <2>3, <2>4 DEF PutOut
  <2>6. PICK x \in Nat : x = ends[n]
    BY <1>7, <1>17
  <2>7. End(n - 1)' = End(n - 1)
    <3>1. n # 1 => n - 1 \in 1 .. k
      BY <1>7
    <3>2. n # 1 => ends'[n - 1] = ends[n - 1]
      BY <1>18, <3>1
    <3>3. n = 1 <=> n - 1 = 0
      BY <1>7
    <3> QED BY <3>2, <3>3 DEF End
  <2>8. /\ x = End(n - 1) + Size(c, Values) /\ x <= l
        /\ c.type = "I8" =>
             /\ Value(c.args[1]) \in -128 .. 127 /\ x > 0 /\ out[x] = LowByte(Value(c.args[1]))
    BY <2>1, <2>3, <2>6, <1>12, <1>14 DEF PutOut
  <2>9. x <= l + z
    BY <2>8
  <2>10. c.type = "I8" => out'[x] = out[x]
    BY <1>12, <1>13, <1>14, <2>8
  <2>11. c.type = "I8" => Value(c.args[1])' = Value(c.args[1])
    <3>1. Len(c.args) = Expects(c)
      BY <2>4
    <3>2. ASSUME c.type = "I8" PROVE 1 \in 1 .. Len(c.args)
      <4>1. Expects(c) = 1
        BY <3>2 DEF Expects
      <4> QED BY <3>1, <4>1
    <3> QED BY <1>5, <2>4, <3>2
  <2>12. c.type = "I8" =>
           /\ Value(c.args[1])' \in -128 .. 127
           /\ x > 0 /\ out'[x] = LowByte(Value(c.args[1])')
    BY <2>8, <2>10, <2>11
  <2>13. ends'[n] = x /\ atoms'[n] = c
    BY <1>18, <1>19, <2>3, <2>6
  <2> QED BY <1>5, <1>16, <2>5, <2>7, <2>8, <2>9, <2>12, <2>13 DEF PutOut
<1>23. PutOut(k + 1)'
  <2>1. \A m \in 1 .. Len(a.args) : Resolved(a.args[m])'
    BY <1>1, <1>5, <1>8, <1>9
  <2>2. (k + 1) - 1 = k
    OBVIOUS
  <2>3. End((k + 1) - 1)' = l
    BY <1>21, <2>2
  <2>4. Size(a, Values') = z
    BY <1>5, <1>11, <1>15
  <2>5. a.type = "I8" => Value(a.args[1])' = Value(a.args[1])
    <3>1. Len(a.args) = Expects(a)
      BY <1>10
    <3>2. ASSUME a.type = "I8" PROVE 1 \in 1 .. Len(a.args)
      <4>1. Expects(a) = 1
        BY <3>2 DEF Expects
      <4> QED BY <3>1, <4>1
    <3> QED BY <1>5, <1>9, <3>2
  <2>6. a.type = "I8" =>
          /\ Value(a.args[1])' \in -128 .. 127
          /\ l + z > 0 /\ out'[l + z] = LowByte(Value(a.args[1])')
    BY <1>11, <1>13, <1>14, <1>15, <2>5
  <2>7. ends'[k + 1] = l + z /\ atoms'[k + 1] = a
    BY <1>8, <1>18, <1>19
  <2> QED BY <1>16, <2>1, <2>3, <2>4, <2>6, <2>7 DEF PutOut
<1>24. OutInv'
  <2>1. End(Len(ends))' = l + z
    BY <1>18 DEF End
  <2>2. Len(ends') <= Len(atoms')
    BY <1>9, <1>18, <1>19
  <2>3. asm' = "output"
    BY <1>3, <1>4
  <2>4. \A n \in 1 .. k + 1 : n \in 1 .. k \/ n = k + 1
    OBVIOUS
  <2>5. (\A n \in 1 .. Len(ends) : PutOut(n))'
    BY <1>18, <1>22, <1>23, <2>4
  <2> QED BY <1>13, <1>16, <1>18, <2>1, <2>2, <2>3, <2>5 DEF OutInv
<1> QED BY <1>5, <1>24 DEF AsmInv

-----------------------------------------------------------------------------
(***************************************************************************)
(* When all is put out, the values of the program are values that add up,  *)
(* and the ends of the atoms count their bytes.                            *)
(***************************************************************************)
LEMMA ValuesAre ==
  ASSUME EInv
  PROVE  /\ Values \in [Nat -> Int] /\ Valued \in SUBSET Nat
         /\ \A e \in Valued : Values[e] = Value(e) /\ Value(e) \in Word32 /\ Value(e) \in Int
<1>1. \A e \in Valued : Value(e) \in Word32
  BY ValueRange DEF Valued
<1>2. Word32 \subseteq Int
  BY WordAssumption DEF Word32
<1>3. Valued \subseteq Nat
  BY DEF Valued, Pointer
<1>4. ASSUME NEW e \in Nat PROVE (IF e \in Valued THEN Value(e) ELSE 0) \in Int
  <2>1. e \in Valued => Value(e) \in Int
    BY <1>1, <1>2, Zenon
  <2> QED BY <2>1
<1>5. Values \in [Nat -> Int]
  BY <1>4 DEF Values
<1>6. \A e \in Valued : Values[e] = Value(e)
  BY <1>3 DEF Values
<1> QED BY <1>1, <1>2, <1>3, <1>5, <1>6

\* A difference that has a value is that of two values, as is a sum.
LEMMA SumValue ==
  ASSUME EInv, NEW e \in Valued, NEW op \in {"PLUS", "MINUS"}, parsed[e].expr_op = op
  PROVE  /\ parsed[e].arg1 \in Valued /\ parsed[e].arg2 \in Valued
         /\ Value(e) = Binary(op, Value(parsed[e].arg1), Value(parsed[e].arg2))
<1>1. e \in Pointer /\ Resolved(e)
  BY DEF Valued
<1>2. Explained(parsed[e], Value(e))
  BY <1>1 DEF EInv, AllExplained
<1>3. PICK n \in Expression : n = parsed[e] /\ Arguments(n) \subseteq Pointer
  BY <1>1 DEF EInv, ExprTypeOK, Pointer
<1>4. n.expr_op = op /\ op \in BinaryOp
  BY <1>3 DEF BinaryOp
<1>5. n.arg1 \in Pointer /\ n.arg2 \in Pointer
  BY <1>3, <1>4, NodeShape
<1>6. \A a : ~Decides(op, a)
  BY DEF Decides
<1>7. Resolved(n.arg1) /\ Resolved(n.arg2) /\ Value(e) = Binary(op, Value(n.arg1), Value(n.arg2))
  BY <1>2, <1>3, <1>4, <1>6 DEF Explained, UnaryOp, BinaryOp
<1> QED BY <1>3, <1>5, <1>7 DEF Valued

LEMMA ValuesObey ==
  ASSUME EInv
  PROVE  Obeys(Values, Valued, parsed)
<1> SUFFICES ASSUME NEW e \in Valued, NEW n, n = parsed[e]
             PROVE  /\ n.expr_op = "NUMBER" => Values[e] = n.number
                    /\ n.expr_op = "PLUS" =>
                         n.arg1 \in Valued /\ n.arg2 \in Valued
                         /\ Values[e] = Wrap(Values[n.arg1] + Values[n.arg2])
                    /\ n.expr_op = "MINUS" =>
                         n.arg1 \in Valued /\ n.arg2 \in Valued
                         /\ Values[e] = Wrap(Values[n.arg1] - Values[n.arg2])
  BY DEF Obeys
<1>1. \A x \in Valued : Values[x] = Value(x)
  BY ValuesAre
<1>2. e \in Pointer /\ Resolved(e)
  BY DEF Valued
<1>3. n.expr_op = "NUMBER" => Value(e) = n.number
  BY <1>2 DEF EInv, AllExplained, Explained, UnaryOp, BinaryOp
<1>4. n.expr_op = "PLUS" =>
        n.arg1 \in Valued /\ n.arg2 \in Valued
        /\ Value(e) = Wrap(Value(n.arg1) + Value(n.arg2))
  BY SumValue DEF Binary
<1>5. n.expr_op = "MINUS" =>
        n.arg1 \in Valued /\ n.arg2 \in Valued
        /\ Value(e) = Wrap(Value(n.arg1) - Value(n.arg2))
  BY SumValue DEF Binary
<1> QED BY <1>1, <1>3, <1>4, <1>5

EndsOf == [n \in Nat |-> IF n <= Len(ends) THEN End(n) ELSE 0]

LEMMA AllPutOut ==
  ASSUME AsmInv, asm = "done"
  PROVE  /\ PcHolds(Values, Valued, EndsOf)
         /\ \A n \in 0 .. Len(atoms) : EndsOf[n] = End(n) /\ End(n) \in Int
         /\ \A n \in 1 .. Len(atoms) : PutOut(n)
<1>1. EInv /\ ValueInv /\ PcMeans /\ OutInv
  BY DEF AsmInv
<1>2. PICK l \in Nat : l = Len(ends) /\ l = Len(atoms)
  BY <1>1 DEF OutInv
<1>3. \A n \in 1 .. l : PutOut(n)
  BY <1>1, <1>2 DEF OutInv
<1>4. \A n \in 0 .. l : End(n) \in Int
  <2>1. ends \in Seq(Nat)
    BY <1>1 DEF OutInv
  <2>2. PICK s \in Seq(Nat) : s = ends
    BY <2>1
  <2>3. \A n \in 1 .. Len(s) : s[n] \in Nat
    OBVIOUS
  <2>4. \A n \in 1 .. l : ends[n] \in Nat
    BY <1>2, <2>2, <2>3, Zenon
  <2>5. \A n \in 0 .. l : n # 0 => n \in 1 .. l
    OBVIOUS
  <2> QED BY <2>4, <2>5 DEF End
<1>5. \A n \in Nat : EndsOf[n] = IF n <= l THEN End(n) ELSE 0
  BY <1>2 DEF EndsOf
<1>6. EndsOf \in [Nat -> Int]
  <2>1. \A n \in Nat : (IF n <= Len(ends) THEN End(n) ELSE 0) \in Int
    BY <1>2, <1>4
  <2> QED BY <2>1 DEF EndsOf
<1>7. \A n \in 0 .. l : EndsOf[n] = End(n)
  BY <1>5
<1>8. Adds(EndsOf, Values, atoms)
  <2>1. EndsOf[0] = 0
    BY <1>7 DEF End
  <2>2. ASSUME NEW n \in 1 .. l PROVE EndsOf[n] = EndsOf[n - 1] + Size(atoms[n], Values)
    <3>1. ends[n] = End(n - 1) + Size(atoms[n], Values)
      BY <1>3 DEF PutOut
    <3>2. End(n) = ends[n]
      BY DEF End
    <3>3. EndsOf[n] = End(n) /\ EndsOf[n - 1] = End(n - 1)
      BY <1>7
    <3> QED BY <3>1, <3>2, <3>3
  <2> QED BY <1>2, <2>1, <2>2 DEF Adds
<1>9. Values \in [Nat -> Int] /\ Valued \in SUBSET Nat /\ Obeys(Values, Valued, parsed)
  BY <1>1, ValuesAre, ValuesObey
<1>10. PICK V \in [Nat -> Int], D \in SUBSET Nat, f \in [Nat -> Int] :
         V = Values /\ D = Valued /\ f = EndsOf
  BY <1>6, <1>9
<1>11. Obeys(V, D, parsed) /\ Adds(f, V, atoms)
  BY <1>8, <1>9, <1>10
<1>12. PcHolds(V, D, f)
  BY <1>1, <1>11 DEF PcMeans
<1> QED BY <1>2, <1>3, <1>4, <1>7, <1>10, <1>12

\* The n-th place, and the address it has.
LEMMA PlaceIs ==
  ASSUME AsmInv, asm = "done", NEW n \in 1 .. Len(places), NEW p, p = places[n]
  PROVE  /\ p.pc \in Pointer /\ p.atom \in 0 .. Len(atoms) /\ p.after.atom \in 0 .. Len(atoms)
         /\ p.after.atom \in Nat /\ p.atom \in Nat
         /\ \A e \in Pointer :
              Lies(Values, Valued, EndsOf, e, p.after, p.atom) /\ Resolved(e) =>
                Value(e) = Address(p)
<1>1. EInv /\ ValueInv
  BY DEF AsmInv
<1>2. p \in [pc : Nat, after : Origin, atom : Nat] /\ MarkOK(p)
  <2>1. PICK S : S = [pc : Nat, after : Origin, atom : Nat]
    OBVIOUS
  <2>2. PICK s \in Seq(S) : s = places
    BY <1>1, <2>1 DEF ValueInv
  <2>3. s[n] \in S
    BY ONLY <2>2, n \in 1 .. Len(places), s \in Seq(S)
  <2>4. MarkOK(places[n])
    BY <1>1 DEF ValueInv
  <2> QED BY <2>1, <2>2, <2>3, <2>4
<1>3. PICK l \in Nat : l = Len(atoms)
  BY <1>1 DEF ValueInv
<1>4. PICK a \in Nat : a = p.atom
  BY <1>2
<1>5. PICK b \in Nat : b = p.after.atom
  BY <1>2 DEF Origin
<1>6. b <= a /\ a <= l
  BY <1>2, <1>3, <1>4, <1>5 DEF MarkOK
<1>7. p.pc \in Pointer
  BY <1>2 DEF MarkOK
<1>8. EndsOf[a] = End(a) /\ EndsOf[b] = End(b)
  BY <1>3, <1>6, AllPutOut
<1>9. ASSUME NEW e \in Pointer, Lies(Values, Valued, EndsOf, e, p.after, p.atom), Resolved(e)
      PROVE  Value(e) = Address(p)
  <2>1. e \in Valued
    BY <1>9 DEF Valued
  <2>2. p.after.org \in Valued
        /\ Wrap(Values[e]) = Wrap(Values[p.after.org] + EndsOf[a] - EndsOf[b])
    BY <1>4, <1>5, <1>9, <2>1 DEF Lies
  <2>3. Values[e] = Value(e) /\ Value(e) \in Word32
        /\ Values[p.after.org] = Value(p.after.org)
    BY <1>1, <2>1, <2>2, ValuesAre
  <2>4. PICK v \in Word32 : v = Value(e)
    BY <2>3
  <2>5. Wrap(v) = v
    BY WrapWord
  <2>6. Value(e) = Wrap(Value(p.after.org) + End(a) - End(b))
    BY <1>8, <2>2, <2>3, <2>4, <2>5
  <2> QED BY <1>4, <1>5, <2>6 DEF Address
<1> QED BY <1>3, <1>4, <1>5, <1>6, <1>7, <1>9

LEMMA PlacesAre ==
  ASSUME AsmInv
  PROVE  PcIsPosition
<1> SUFFICES ASSUME asm = "done", NEW n \in 1 .. Len(places), NEW p, p = places[n],
                    Resolved(p.pc)
             PROVE  Value(p.pc) = Address(p)
  BY DEF PcIsPosition
<1>1. PcHolds(Values, Valued, EndsOf)
  BY AllPutOut
<1>2. Lies(Values, Valued, EndsOf, p.pc, p.after, p.atom)
  BY <1>1 DEF PcHolds
<1> QED BY <1>2, PlaceIs

\* The byte of a distance is read as a signed one.
LEMMA SignedByte ==
  ASSUME NEW v \in -128 .. 127
  PROVE  Signed(LowByte(v)) = v
<1>1. CASE v < 0
  <2>1. v % 256 = v + 256
    BY <1>1
  <2> QED BY <1>1, <2>1 DEF Signed, LowByte
<1>2. CASE v >= 0
  <2>1. v % 256 = v
    BY <1>2
  <2> QED BY <1>2, <2>1 DEF Signed, LowByte
<1> QED BY <1>1, <1>2

LEMMA BranchesAre ==
  ASSUME AsmInv
  PROVE  BranchesLand
<1> SUFFICES ASSUME asm = "done", NEW n \in 1 .. Len(places), NEW p, p = places[n],
                    NEW k, k = p.atom, k > p.after.atom, atoms[k].type = "I8"
             PROVE  Wrap(Address(p) + Signed(out[ends[k]])) =
                      Value(parsed[atoms[k].args[1]].arg1)
  BY DEF BranchesLand
<1>1. EInv /\ ValueInv
  BY DEF AsmInv
<1>2. k \in 1 .. Len(atoms)
  <2>1. k \in 0 .. Len(atoms) /\ p.after.atom \in Nat
    BY PlaceIs
  <2>2. PICK l \in Nat : l = Len(atoms)
    <3>1. atoms \in Seq(AtomSet)
      BY <1>1 DEF ValueInv
    <3> QED BY <3>1
  <2>3. PICK b \in Nat : b = p.after.atom
    BY <2>1
  <2> QED BY <2>1, <2>2, <2>3
<1>3. PICK a : a = atoms[k]
  OBVIOUS
<1>4. AtomOK(a) /\ Len(a.args) = Expects(a) /\ \A m \in 1 .. Len(a.args) : a.args[m] \in Pointer
  BY <1>1, <1>2, <1>3, AtomArgs
<1>5. 1 \in 1 .. Len(a.args)
  <2>1. Expects(a) = 1
    BY <1>3 DEF Expects
  <2> QED BY <1>4, <2>1
<1>6. PICK e \in Pointer : e = a.args[1]
  BY <1>4, <1>5
<1>7. PutOut(k)
  BY <1>2, AllPutOut, Zenon
<1>8. Resolved(e) /\ Value(e) \in -128 .. 127 /\ out[ends[k]] = LowByte(Value(e))
  BY <1>3, <1>5, <1>6, <1>7 DEF PutOut
<1>9. parsed[e].expr_op = "MINUS"
  BY <1>3, <1>4, <1>6 DEF AtomOK
<1>10. e \in Valued
  BY <1>8 DEF Valued
<1>11. /\ parsed[e].arg1 \in Valued /\ parsed[e].arg2 \in Valued
       /\ Value(e) = Wrap(Value(parsed[e].arg1) - Value(parsed[e].arg2))
  BY <1>1, <1>9, <1>10, SumValue DEF Binary
<1>12. PICK x \in Word32 : x = Value(parsed[e].arg1) /\ x \in Int
  BY <1>1, <1>11, ValuesAre
<1>13. PICK y \in Int : y = Value(parsed[e].arg2)
  BY <1>1, <1>11, ValuesAre
<1>14. PICK v \in -128 .. 127 : v = Value(e)
  BY <1>8
<1>15. Behind(k) = parsed[e].arg2
  BY <1>3, <1>6 DEF Behind
<1>16. y = Address(p)
  <2>1. PcHolds(Values, Valued, EndsOf)
    BY AllPutOut
  <2>2. Lies(Values, Valued, EndsOf, Behind(k), p.after, p.atom)
    BY <2>1 DEF PcHolds
  <2>3. PICK b \in Pointer : b = Behind(k) /\ Resolved(b)
    BY <1>11, <1>15 DEF Valued
  <2>4. Value(b) = Address(p)
    BY <2>2, <2>3, PlaceIs
  <2> QED BY <1>13, <1>15, <2>3, <2>4
<1>17. v = Wrap(x - y)
  BY <1>11, <1>12, <1>13, <1>14
<1>18. Wrap(y + v) = x
  <2>1. PICK d \in Int : d = x - y
    BY <1>12
  <2>2. Wrap(y + Wrap(d)) = Wrap(y + d)
    BY WrapSum
  <2>3. y + d = x
    BY <1>12, <2>1
  <2>4. Wrap(x) = x
    BY WrapWord
  <2> QED BY <1>17, <2>1, <2>2, <2>3, <2>4
<1>19. Signed(out[ends[k]]) = v
  BY <1>8, <1>14, SignedByte
<1> QED BY <1>3, <1>6, <1>12, <1>16, <1>18, <1>19

-----------------------------------------------------------------------------
(***************************************************************************)
(* The invariant of the assembler, from its start on.                      *)
(***************************************************************************)
LEMMA EmptyPool ==
  ASSUME InitAsm
  PROVE  EInv
<1>1. /\ asm = "parse" /\ exprs = <<>> /\ parsed = <<>> /\ calls = <<>>
      /\ DOMAIN s_sym_table = {}
  BY DEF InitAsm
<1>2. Pointer = {}
  BY <1>1 DEF Pointer
<1>3. Len(calls) <= MAX_DEPTH /\ calls \in Seq(Pointer)
  BY <1>1, DepthAssumption
<1>4. ExprTypeOK
  BY <1>1, <1>2, <1>3 DEF ExprTypeOK
<1>5. AllExplained
  BY <1>2 DEF AllExplained
<1> QED BY <1>4, <1>5 DEF EInv

LEMMA ScanInit ==
  ASSUME InitAsm, NEW source, buffers = <<source>>, Path(source, Between, Between)
  PROVE  ScanInv
<1>1. buffers = <<source>>
  OBVIOUS
<1>2. Path(source, Between, Between) /\ source \in Seq(Items)
  BY DEF Path
<1>3. /\ start = "INITIAL" /\ start_stack = <<>> /\ push_state = "none" /\ chains = <<>>
      /\ DOMAIN named = {} /\ yyvsp = <<>>
  BY DEF InitAsm
<1>4. Len(buffers) = 1 /\ Top = source /\ Len(start_stack) = 0 /\ Len(chains) = 0
      /\ Len(yyvsp) = 0
  BY <1>1, <1>3 DEF Top
<1>5. ScanTypes
  <2>1. buffers \in Seq(Seq(Items))
    BY <1>1, <1>2
  <2>2. Len(buffers) \in 1 .. MAX_SRC_BUFFER_DEPTH
    BY <1>4, BufferAssumption
  <2> QED BY <1>3, <2>1, <2>2 DEF ScanTypes, Conditions
<1>6. Modes
  BY <1>3, <1>4 DEF Modes, InMacro
<1>7. Position
  <2>1. Here = Between
    <3>1. (Len(chains) > Len(start_stack)) = FALSE
      BY <1>4
    <3> QED BY <1>4, <3>1, Zenon DEF Here, Between
  <2>2. Between \in Place
    BY DEF Between, Place
  <2>3. GoesOn(Between)
    BY <1>2, <1>3, <1>4, <2>1 DEF GoesOn, InMacro
  <2> QED BY <2>2, <2>3 DEF Position
<1>8. Nested /\ MacrosOK /\ Levels /\ BinaryOK /\ OneBranchPerIf
  BY <1>3, <1>4 DEF Nested, MacrosOK, Levels, BinaryOK, OneBranchPerIf
<1> QED BY <1>5, <1>6, <1>7, <1>8 DEF ScanInv

LEMMA AsmInit ==
  ASSUME InitAsm, NEW source, buffers = <<source>>, Path(source, Between, Between)
  PROVE  AsmInv
<1>1. InitAsm
  OBVIOUS
<1>2. /\ yyvsp = <<>> /\ s_pc1 = unset_value /\ s_pc2 = 0 /\ atoms = <<>> /\ out = <<>>
      /\ ends = <<>> /\ origin = [org |-> unset_value, atom |-> 0] /\ places = <<>>
      /\ asm = "parse"
  BY <1>1 DEF InitAsm
<1>3. Len(atoms) = 0 /\ Len(places) = 0 /\ Len(ends) = 0 /\ Len(out) = 0
  BY <1>2
<1>4. ValueInv
  <2>1. 0 \in Word32
    BY WordAssumption DEF Word32
  <2>2. origin \in Origin /\ origin.org = unset_value /\ origin.atom = 0
    BY <1>2 DEF Origin, unset_value
  <2> QED BY <1>2, <1>3, <2>1, <2>2 DEF ValueInv
<1>5. PcMeans
  BY <1>2, <1>3 DEF PcMeans, PcHolds
<1>6. OutInv
  BY <1>2, <1>3 DEF OutInv, End
<1> QED BY <1>1, <1>4, <1>5, <1>6, EmptyPool, ScanInit DEF AsmInv

LEMMA AsmStutters ==
  ASSUME AsmInv, UNCHANGED avars
  PROVE  AsmInv'
<1>1. UNCHANGED <<asm, exprs, s_sym_table, calls, parsed, scanVars, parseVars, outVars>>
  BY DEF avars, exprVars
<1>2. EInv /\ ScanInv /\ ValueInv /\ PcMeans /\ OutInv
  BY DEF AsmInv
<1>3. EInv'
  BY <1>1, <1>2 DEF EInv, ExprTypeOK, AllExplained, Explained, Pointer, Resolved, Value, IsDefined
<1>4. UNCHANGED <<scanVars, yyvsp>> /\ UNCHANGED <<yyvsp, s_pc1, s_pc2, atoms, origin, places>>
      /\ named' = named /\ out' = out /\ ends' = ends /\ UNCHANGED pcVars
  BY <1>1 DEF parseVars, scanVars, pcVars, outVars
<1>5. ScanInv'
  BY <1>1, <1>2, <1>4, ScanStays
<1>6. ValueInv'
  BY <1>1, <1>2, <1>4 DEF ValueInv, AtomOK, MarkOK, Pointer, Expects
<1>7. PcMeans'
  <2>1. Len(exprs) \in Nat /\ Len(parsed) = Len(exprs)
    BY <1>2 DEF EInv, ExprTypeOK
  <2>2. Grows
    BY <1>1, <1>4, <2>1, SMTT(30) DEF Grows
  <2> QED BY <1>1, <1>2, <1>4, <2>1, <2>2, PcStays
<1>8. OutInv'
  BY <1>1, <1>2, <1>4 DEF OutInv, PutOut, End, Values, Valued, Resolved, Value, Pointer
<1> QED BY <1>3, <1>5, <1>6, <1>7, <1>8 DEF AsmInv

LEMMA AsmStep ==
  AsmInv /\ [NextAssembler \/ (Ended /\ UNCHANGED avars)]_avars => AsmInv'
<1> SUFFICES ASSUME AsmInv, [NextAssembler \/ (Ended /\ UNCHANGED avars)]_avars
             PROVE  AsmInv'
  OBVIOUS
<1>1. CASE NextAssembler
  BY <1>1, ParserStep, ResolveStepHolds, ResolveForOutputHolds, OutputEnds, OutputAtomHolds
     DEF NextAssembler
<1>2. CASE UNCHANGED avars
  BY <1>2, AsmStutters
<1> QED BY <1>1, <1>2

\* The inductive invariant: what the pool holds, where the scanner and the
\* grammar are, what the parser keeps, what the program counter means, and
\* what was put out.
THEOREM AsmAlways == SpecAssembler => []AsmInv
<1>1. InitAssembler => AsmInv
  BY AsmInit, SourceAssumption, TextPath DEF InitAssembler
<1> QED BY <1>1, AsmStep, PTL DEF SpecAssembler

\* Whatever the sources are, the variables of the assembler have their types,
\* and there are never more sources open than there are buffers.
THEOREM AsmTypeCorrect == SpecAssembler => []AsmTypeOK
<1>1. AsmInv => AsmTypeOK
  <2> SUFFICES ASSUME AsmInv PROVE AsmTypeOK
    OBVIOUS
  <2>1. EInv /\ ScanTypes /\ ValueInv /\ OutInv
    BY DEF AsmInv, ScanInv
  <2>2. \A n \in 1 .. Len(atoms) : atoms[n].args \in Seq(Pointer)
    BY <2>1, AtomArgs
  <2>3. ExprTypeOK
    BY <2>1 DEF EInv
  <2>4. /\ Len(buffers) \in 1 .. MAX_SRC_BUFFER_DEPTH
        /\ start \in {"INITIAL", "SKIP", "SKIP_ALL", "MACROO"}
        /\ start_stack \in Seq({"INITIAL", "SKIP", "SKIP_ALL"})
        /\ push_state \in {"none", "INITIAL", "SKIP", "MACROO"}
    BY <2>1 DEF ScanTypes, Conditions
  <2>5. yyvsp \in Seq(Pointer) /\ s_pc1 \in Pointer \cup {unset_value} /\ s_pc2 \in Word32
    BY <2>1 DEF ValueInv
  <2>6. out \in Seq(0 .. 255) /\ Len(ends) <= Len(atoms)
    BY <2>1 DEF OutInv
  <2> QED BY <2>2, <2>3, <2>4, <2>5, <2>6 DEF AsmTypeOK
<1> QED BY <1>1, AsmAlways, PTL

\* At most one branch of an .IF is assembled, exactly one if .ELSE has come,
\* and none where the .IF is skipped, for whatever text the sources, the
\* macros and the files that are included have.
THEOREM OneBranchCorrect == SpecAssembler => []OneBranchPerIf
<1>1. AsmInv => OneBranchPerIf
  BY DEF AsmInv, ScanInv
<1> QED BY <1>1, AsmAlways, PTL

\* When all is put out, a label and the program counter of a branch are the
\* address of the byte behind them: for any source, for lengths that are
\* known only when the source has been read, and modulo the width of a word.
THEOREM PlacesCorrect == SpecAssembler => []PcIsPosition
<1>1. AsmInv => PcIsPosition
  BY PlacesAre
<1> QED BY <1>1, AsmAlways, PTL

\* A branch that was put out jumps to the value of the expression it was
\* written with.
THEOREM BranchesCorrect == SpecAssembler => []BranchesLand
<1>1. AsmInv => BranchesLand
  BY BranchesAre
<1> QED BY <1>1, AsmAlways, PTL

-----------------------------------------------------------------------------
(***************************************************************************)
(* A text that closes its conditionals leaves the scanner as it was.  What *)
(* is left of each open source closes the conditionals that were open when *)
(* the next one was included, up to those from before it was included.     *)
(***************************************************************************)
Nest(text, a, b) == \E h : Nests(text, h, a, b)

LEMMA ClosedNest ==
  ASSUME NEW text, SelfContained(text)
  PROVE  Nest(text, 0, 0)
BY DEF SelfContained, Nest

LEMMA NestEnd ==
  ASSUME NEW a, NEW b, Nest(<<>>, a, b)
  PROVE  a = b
BY DEF Nest, Nests

LEMMA NestHead ==
  ASSUME NEW text \in Seq(Items), NEW a, NEW b, Nest(text, a, b), text # <<>>
  PROVE  /\ Head(text).k # "macro"
         /\ Head(text).k \in {"ELIF", "ELSE", "ENDIF"} => a > 0
         /\ Nest(Tail(text), Opened(Head(text), a), b)
<1>1. PICK h : Nests(text, h, a, b)
  BY DEF Nest
<1>2. PICK l \in Nat : l = Len(text) /\ l >= 1
  OBVIOUS
<1>3. Head(text) = text[1] /\ Len(Tail(text)) = l - 1
      /\ \A n \in 1 .. l - 1 : Tail(text)[n] = text[n + 1]
  BY <1>2
<1>4. h[0] = a /\ h[l] = b
  BY <1>1, <1>2 DEF Nests
<1>5. \A n \in 1 .. l :
        /\ text[n].k # "macro"
        /\ text[n].k \in {"ELIF", "ELSE", "ENDIF"} => h[n - 1] > 0
        /\ h[n - 1] \in Nat
        /\ h[n] = Opened(text[n], h[n - 1])
  BY <1>1, <1>2 DEF Nests
<1>6. /\ text[1].k # "macro"
      /\ text[1].k \in {"ELIF", "ELSE", "ENDIF"} => a > 0
      /\ h[1] = Opened(text[1], a)
  <2>1. 1 \in 1 .. l /\ 1 - 1 = 0
    BY <1>2
  <2> QED BY <1>4, <1>5, <2>1
<1> DEFINE g == [n \in 0 .. l - 1 |-> h[n + 1]]
<1>7. g[0] = h[1] /\ g[l - 1] = h[l]
  BY <1>2
<1>8. ASSUME NEW n \in 1 .. l - 1
      PROVE  /\ Tail(text)[n].k # "macro"
             /\ Tail(text)[n].k \in {"ELIF", "ELSE", "ENDIF"} => g[n - 1] > 0
             /\ g[n - 1] \in Nat
             /\ g[n] = Opened(Tail(text)[n], g[n - 1])
  <2>1. n + 1 \in 1 .. l /\ (n + 1) - 1 = n /\ n - 1 \in 0 .. l - 1 /\ n \in 0 .. l - 1
        /\ (n - 1) + 1 = n
    BY <1>2, <1>8
  <2>2. g[n - 1] = h[n] /\ g[n] = h[n + 1] /\ Tail(text)[n] = text[n + 1]
    BY <1>3, <1>8, <2>1
  <2> QED BY <1>5, <2>1, <2>2
<1> HIDE DEF g
<1>9. Nests(Tail(text), g, Opened(Head(text), a), b)
  BY <1>3, <1>4, <1>6, <1>7, <1>8 DEF Nests
<1> QED BY <1>3, <1>6, <1>9 DEF Nest

\* Text that is included where d conditionals are open closes its own.
LEMMA NestShift ==
  ASSUME NEW text \in Seq(Items), NEW d \in Nat, Nest(text, 0, 0)
  PROVE  Nest(text, d, d)
<1>1. PICK h : Nests(text, h, 0, 0)
  BY DEF Nest
<1>2. PICK l \in Nat : l = Len(text)
  OBVIOUS
<1> DEFINE g == [n \in 0 .. l |-> h[n] + d]
<1>3. g[0] = d /\ g[l] = d
  BY <1>1, <1>2 DEF Nests
<1>4. ASSUME NEW n \in 1 .. l
      PROVE  /\ text[n].k # "macro"
             /\ text[n].k \in {"ELIF", "ELSE", "ENDIF"} => g[n - 1] > 0
             /\ g[n - 1] \in Nat
             /\ g[n] = Opened(text[n], g[n - 1])
  <2>1. g[n - 1] = h[n - 1] + d /\ g[n] = h[n] + d
    BY <1>2, <1>4
  <2>2. /\ text[n].k # "macro"
        /\ text[n].k \in {"ELIF", "ELSE", "ENDIF"} => h[n - 1] > 0
        /\ h[n - 1] \in Nat
        /\ h[n] = Opened(text[n], h[n - 1])
    BY <1>1, <1>2, <1>4 DEF Nests
  <2>3. h[n - 1] + d \in Nat
    BY <2>2
  <2>4. Opened(text[n], h[n - 1] + d) = Opened(text[n], h[n - 1]) + d
    BY <2>2 DEF Opened
  <2> HIDE DEF g
  <2>5. g[n] = Opened(text[n], g[n - 1])
    BY <2>1, <2>2, <2>4
  <2> QED BY <2>1, <2>2, <2>3, <2>5
<1> HIDE DEF g
<1>5. Nests(text, g, d, d)
  BY <1>2, <1>3, <1>4 DEF Nests
<1> QED BY <1>5 DEF Nest

\* The start condition in which the source began.
Bottom == IF start_stack = <<>> THEN start ELSE start_stack[1]

\* The n-th source had d[n] conditionals open when it included the next.
Openings(d) ==
  /\ d \in [0 .. Len(buffers) -> Nat]
  /\ d[0] = 0
  /\ d[Len(buffers)] = Len(chains)
  /\ \A n \in 1 .. Len(buffers) : Nest(buffers[n], d[n], d[n - 1])

NamedClosed == \A n \in DOMAIN named \ BinaryName : Nest(named[n], 0, 0)

Resting == start = "INITIAL" /\ start_stack = <<>> /\ push_state = "none"

RestInv ==
  /\ asm = "parse" =>
       /\ ~InMacro
       /\ Bottom = "INITIAL"
       /\ NamedClosed
       /\ \E d : Openings(d)
  /\ asm \in {"output", "done"} => Resting

\* No file has a macro, and each closes the conditionals it opens.
FilesClosed == \A name \in DOMAIN Files \ BinaryName : SelfContained(Files[name])

-----------------------------------------------------------------------------
\* The next item keeps to the conditionals that are open.
LEMMA ItemNests ==
  ASSUME ScanTypes, Top # <<>>, NEW d, Openings(d)
  PROVE  /\ Item.k # "macro"
         /\ Item.k \in {"ELIF", "ELSE", "ENDIF"} => Len(chains) > 0
         /\ Nest(Tail(Top), Opened(Item, Len(chains)), d[Len(buffers) - 1])
<1>1. PICK l \in Nat : l = Len(buffers) /\ l >= 1
  BY DEF ScanTypes
<1>2. buffers[l] \in Seq(Items) /\ Top = buffers[l]
  BY <1>1 DEF ScanTypes, Top
<1>3. Nest(buffers[l], Len(chains), d[l - 1])
  BY <1>1 DEF Openings
<1> DEFINE t == Top
<1>4. t \in Seq(Items) /\ Nest(t, Len(chains), d[l - 1]) /\ t # <<>> /\ Item = Head(t)
  BY <1>2, <1>3 DEF Item
<1> HIDE DEF t
<1>5. /\ Head(t).k # "macro"
      /\ Head(t).k \in {"ELIF", "ELSE", "ENDIF"} => Len(chains) > 0
      /\ Nest(Tail(t), Opened(Head(t), Len(chains)), d[l - 1])
  BY <1>4, NestHead
<1> QED BY <1>1, <1>4, <1>5 DEF t

LEMMA OpeningsConsumed ==
  ASSUME ScanTypes, Top # <<>>, buffers' = Consumed, \E d : Openings(d),
         chains' \in Seq(Chain), Len(chains') = Opened(Item, Len(chains))
  PROVE  (\E d : Openings(d))'
<1>1. PICK d : Openings(d)
  OBVIOUS
<1>2. PICK l \in Nat : l = Len(buffers) /\ l >= 1
  BY DEF ScanTypes
<1>3. PICK m \in Nat : m = Len(chains')
  OBVIOUS
<1>4. /\ Len(buffers') = l /\ Top' = Tail(Top)
      /\ \A n \in 1 .. l - 1 : buffers'[n] = buffers[n]
  BY <1>2, ConsumedIs
<1>5. buffers'[l] = Tail(Top)
  BY <1>4 DEF Top
<1>6. Nest(Tail(Top), m, d[l - 1])
  BY <1>1, <1>2, <1>3, ItemNests
<1>7. /\ d \in [0 .. l -> Nat] /\ d[0] = 0
      /\ \A n \in 1 .. l : Nest(buffers[n], d[n], d[n - 1])
  BY <1>1, <1>2 DEF Openings
<1> DEFINE e == [n \in 0 .. l |-> IF n = l THEN m ELSE d[n]]
<1>8. e \in [0 .. l -> Nat] /\ e[0] = 0 /\ e[l] = m
  BY <1>2, <1>7
<1>9. ASSUME NEW n \in 1 .. l
      PROVE  Nest(buffers'[n], e[n], e[n - 1])
  <2>1. e[n - 1] = d[n - 1]
    BY <1>9
  <2>2. CASE n = l
    <3>1. e[n] = m /\ e[n - 1] = d[l - 1] /\ buffers'[n] = Tail(Top)
      BY <1>5, <1>8, <2>1, <2>2
    <3> HIDE DEF e
    <3> QED BY <1>6, <3>1
  <2>3. CASE n # l
    <3>1. n \in 1 .. l - 1 /\ n \in 0 .. l
      BY ONLY <1>2, <1>9, <2>3
    <3>2. e[n] = d[n]
      BY <2>3, <3>1
    <3> HIDE DEF e
    <3>3. buffers'[n] = buffers[n]
      BY <1>4, <3>1
    <3> QED BY <1>7, <1>9, <2>1, <3>2, <3>3
  <2> QED BY <2>2, <2>3
<1> HIDE DEF e
<1>10. Openings(e)'
  BY <1>3, <1>4, <1>8, <1>9 DEF Openings
<1> QED BY <1>10

\* What was read from a file, or was known already, closes its conditionals.
LEMMA NamedStaysClosed ==
  ASSUME FilesClosed, NamedClosed, NEW name, Exists(name), GetNamedBuffer(name)
  PROVE  NamedClosed'
<1>1. /\ DOMAIN named' = DOMAIN named \cup {name}
      /\ named'[name] = Content(name)
      /\ \A n \in DOMAIN named : n # name => named'[n] = named[n]
  <2>1. named' = Store(name, Content(name))
    BY DEF GetNamedBuffer
  <2> QED BY <2>1, StoreIs
<1>2. name \notin BinaryName => Nest(Content(name), 0, 0)
  <2>1. CASE name \in DOMAIN named
    BY <2>1 DEF Content, NamedClosed
  <2>2. CASE name \notin DOMAIN named
    <3>1. name \in DOMAIN Files /\ Content(name) = Files[name]
      BY <2>2 DEF Exists, Content
    <3> QED BY <3>1, ClosedNest DEF FilesClosed
  <2> QED BY <2>1, <2>2
<1> SUFFICES ASSUME NEW n \in DOMAIN named' \ BinaryName PROVE Nest(named'[n], 0, 0)
  BY DEF NamedClosed
<1>3. CASE n = name
  BY <1>1, <1>2, <1>3
<1>4. CASE n # name
  BY <1>1, <1>4 DEF NamedClosed
<1> QED BY <1>3, <1>4

\* An item is taken, and the conditionals that are open are counted.
LEMMA RestTaken ==
  ASSUME RestInv, ScanInv, ScanInv', asm = "parse", asm' = asm, Top # <<>>,
         buffers' = Consumed, Len(chains') = Opened(Item, Len(chains)),
         NamedClosed', Bottom' = "INITIAL", ~InMacro'
  PROVE  RestInv'
<1>1. ScanTypes /\ ScanTypes' /\ \E d : Openings(d)
  BY DEF RestInv, ScanInv
<1>2. chains' \in Seq(Chain)
  BY <1>1 DEF ScanTypes
<1>3. (\E d : Openings(d))'
  BY <1>1, <1>2, OpeningsConsumed
<1> QED BY <1>3 DEF RestInv

LEMMA RestRule ==
  ASSUME FilesClosed, RestInv, AsmInv, AsmInv', NEW k, Reduce(k), k \notin {"IF", "ENDIF"},
         asm' = asm, UNCHANGED condVars,
         named' = named \/ (Exists(Item.name) /\ GetNamedBuffer(Item.name))
  PROVE  RestInv'
<1>1. asm = "parse" /\ Top # <<>> /\ buffers' = Consumed /\ Item.k = k
  BY AtRule
<1>2. NamedClosed /\ Bottom = "INITIAL" /\ ~InMacro
  BY <1>1 DEF RestInv
<1>3. UNCHANGED <<start, start_stack, push_state, chains>>
  BY DEF condVars
<1>4. Bottom' = "INITIAL" /\ ~InMacro'
  BY <1>2, <1>3 DEF Bottom, InMacro
<1>5. NamedClosed'
  <2>1. CASE named' = named
    BY <1>2, <2>1 DEF NamedClosed
  <2>2. CASE Exists(Item.name) /\ GetNamedBuffer(Item.name)
    <3> DEFINE name == Item.name
    <3>1. Exists(name) /\ GetNamedBuffer(name)
      BY <2>2
    <3> HIDE DEF name
    <3> QED BY <1>2, <3>1, NamedStaysClosed
  <2> QED BY <2>1, <2>2
<1>6. ScanInv /\ ScanInv' /\ Len(chains') = Opened(Item, Len(chains))
  BY <1>1, <1>3 DEF AsmInv, Opened
<1> QED BY <1>1, <1>4, <1>5, <1>6, RestTaken

\* The assembler has failed, or goes on without the scanner.
LEMMA RestEnds ==
  ASSUME asm' \in {"failed", "crashed"}
  PROVE  RestInv'
BY DEF RestInv

LEMMA RestStays ==
  ASSUME RestInv, UNCHANGED scanVars,
         asm' \in {asm, "failed", "crashed"} \/ (asm = "output" /\ asm' = "done")
  PROVE  RestInv'
<1>1. UNCHANGED <<buffers, start, start_stack, push_state, chains, named>>
  BY DEF scanVars, condVars
<1>2. asm' = "parse" => asm = "parse"
  OBVIOUS
<1>3. asm' \in {"output", "done"} => asm \in {"output", "done"}
  OBVIOUS
<1> QED BY <1>1, <1>2, <1>3
        DEF RestInv, InMacro, Bottom, NamedClosed, Openings, Resting

-----------------------------------------------------------------------------
LEMMA RestRules ==
  ASSUME FilesClosed, RestInv, AsmInv, AsmInv',
         \/ NewExprNumber \/ NewExprSymref \/ NewExprOp1 \/ NewExprOp2 \/ NewIsDefined
         \/ NewExprIncword \/ SetOrg \/ NewSymbolExpr \/ NewLabel \/ NewOp \/ NewBranch
         \/ NewExprs \/ NewRes \/ NewIncbin \/ AsmError
  PROVE  RestInv'
<1>1. \E k : /\ Reduce(k) /\ k \notin {"IF", "ENDIF"}
             /\ \/ asm' = "failed"
                \/ /\ asm' = asm /\ UNCHANGED condVars
                   /\ named' = named \/ (Exists(Item.name) /\ GetNamedBuffer(Item.name))
  <2>1. CASE NewExprNumber \/ NewExprSymref \/ NewExprOp1 \/ NewExprOp2 \/ NewIsDefined
    <3>1. \E k \in {"number", "symref", "op1", "op2", "defined"} : Reduce(k)
      BY <2>1 DEF NewExprNumber, NewExprSymref, NewExprOp1, NewExprOp2, NewIsDefined
    <3>2. asm' = asm /\ UNCHANGED condVars /\ named' = named
      BY <2>1 DEF NewExprNumber, NewExprSymref, NewExprOp1, NewExprOp2, NewIsDefined,
                  NewExpr, ScanFrame
    <3> QED BY <3>1, <3>2
  <2>2. CASE NewExprIncword
    <3>1. Reduce("incword")
      BY <2>2 DEF NewExprIncword
    <3>2. \/ asm' = "failed"
          \/ asm' = asm /\ UNCHANGED condVars /\ Exists(Item.name) /\ GetNamedBuffer(Item.name)
      BY <2>2 DEF NewExprIncword, Exit, ScanFrame
    <3> QED BY <3>1, <3>2
  <2>3. CASE SetOrg \/ NewOp \/ NewExprs \/ NewRes
    <3>1. \E k \in {"org", "op", "byte", "word", "res"} : Reduce(k)
      BY <2>3 DEF SetOrg, NewOp, NewExprs, NewRes
    <3>2. asm' = asm /\ UNCHANGED condVars /\ named' = named
      BY <2>3 DEF SetOrg, NewOp, NewExprs, NewRes, NewAtom, StatementFrame, ScanFrame
    <3> QED BY <3>1, <3>2
  <2>4. CASE NewSymbolExpr \/ NewLabel \/ NewBranch
    <3>1. \E k \in {"symbol", "label", "op"} : Reduce(k)
      BY <2>4 DEF NewSymbolExpr, NewLabel, NewBranch
    <3>2. asm' = "failed" \/ (asm' = asm /\ UNCHANGED condVars /\ named' = named)
      BY <2>4 DEF NewSymbolExpr, NewLabel, NewBranch, Exit, NewAtom, StatementFrame, ScanFrame
    <3> QED BY <3>1, <3>2
  <2>5. CASE NewIncbin
    <3>1. Reduce("incbin")
      BY <2>5 DEF NewIncbin
    <3>2. \/ asm' = "failed"
          \/ asm' = asm /\ UNCHANGED condVars /\ Exists(Item.name) /\ GetNamedBuffer(Item.name)
      BY <2>5 DEF NewIncbin, Exit, ScanFrame, exprVars
    <3> QED BY <3>1, <3>2
  <2>6. CASE AsmError
    BY <2>6 DEF AsmError, Exit
  <2> QED BY <2>1, <2>2, <2>3, <2>4, <2>5, <2>6
<1>2. PICK k : /\ Reduce(k) /\ k \notin {"IF", "ENDIF"}
               /\ \/ asm' = "failed"
                  \/ /\ asm' = asm /\ UNCHANGED condVars
                     /\ named' = named \/ (Exists(Item.name) /\ GetNamedBuffer(Item.name))
  BY <1>1
<1>3. CASE asm' = "failed"
  BY <1>3, RestEnds
<1>4. CASE asm' # "failed"
  BY <1>2, <1>4, RestRule
<1> QED BY <1>3, <1>4

-----------------------------------------------------------------------------
\* The condition at the bottom of the stack stays below what is pushed, and
\* above it is popped.
LEMMA BottomPush ==
  ASSUME ScanTypes, start_stack' = Append(start_stack, start)
  PROVE  Bottom' = Bottom
<1>1. PICK l \in Nat : l = Len(start_stack) /\ start_stack \in Seq(Conditions)
  BY DEF ScanTypes
<1>2. /\ Len(start_stack') = l + 1
      /\ start_stack'[1] = IF l = 0 THEN start ELSE start_stack[1]
  BY <1>1
<1>3. start_stack' # <<>> /\ (start_stack = <<>> <=> l = 0)
  BY <1>1, <1>2
<1> QED BY <1>2, <1>3 DEF Bottom

LEMMA BottomPop ==
  ASSUME ScanTypes, Pop, start_stack # <<>>
  PROVE  Bottom' = Bottom /\ start' \in Conditions /\ asm' = asm
<1>1. /\ start' = start_stack[Len(start_stack)] /\ start' \in Conditions
      /\ Len(start_stack') = Len(start_stack) - 1
      /\ \A n \in 1 .. Len(start_stack) - 1 : start_stack'[n] = start_stack[n]
      /\ start_stack' \in Seq(Conditions) /\ asm' = asm
  BY PopIs DEF ScanTypes
<1>2. PICK l \in Nat : l = Len(start_stack) /\ l >= 1
  BY DEF ScanTypes
<1>3. CASE l = 1
  <2>1. start_stack' = <<>> /\ start' = start_stack[1]
    BY <1>1, <1>2, <1>3
  <2> QED BY <1>1, <1>2, <1>3, <2>1 DEF Bottom
<1>4. CASE l # 1
  <2>1. start_stack' # <<>> /\ start_stack'[1] = start_stack[1]
    BY <1>1, <1>2, <1>4
  <2> QED BY <1>1, <1>2, <1>4, <2>1 DEF Bottom
<1> QED BY <1>1, <1>3, <1>4

LEMMA RestPushState ==
  ASSUME RestInv, ScanInv, PushState
  PROVE  RestInv'
<1>1. asm = "parse" /\ asm' = asm /\ push_state # "none" /\ push_state' = "none"
      /\ start_stack' = Append(start_stack, start) /\ start' = push_state
      /\ UNCHANGED <<buffers, chains, named>>
  BY DEF PushState, Scanning, exprVars
<1>2. ~InMacro /\ Bottom = "INITIAL" /\ NamedClosed /\ \E d : Openings(d)
  BY <1>1 DEF RestInv
<1>3. Bottom' = "INITIAL"
  BY <1>1, <1>2, BottomPush DEF ScanInv
<1>4. ~InMacro'
  BY <1>1, <1>2 DEF InMacro
<1>5. NamedClosed' /\ (\E d : Openings(d))'
  BY <1>1, <1>2 DEF NamedClosed, Openings
<1> QED BY <1>1, <1>3, <1>4, <1>5 DEF RestInv

\* The scanner takes an item of kind k.
LEMMA AtScan ==
  ASSUME RestInv, ScanInv, NEW k, NEW conditions, Scan(k, conditions)
  PROVE  /\ asm = "parse" /\ start \in conditions /\ push_state = "none"
         /\ Top # <<>> /\ Item.k = k /\ k # "macro" /\ buffers' = Consumed
         /\ ScanTypes /\ ~InMacro /\ Bottom = "INITIAL" /\ NamedClosed
         /\ k \in {"ELIF", "ELSE", "ENDIF"} => Len(chains) > 0
<1>1. At(k, conditions) /\ buffers' = Consumed
  BY DEF Scan
<1>2. asm = "parse" /\ start \in conditions /\ push_state = "none"
      /\ Top # <<>> /\ Item.k = k
  BY <1>1, AtItem
<1>3. ScanTypes /\ ~InMacro /\ Bottom = "INITIAL" /\ NamedClosed /\ \E d : Openings(d)
  BY <1>2 DEF RestInv, ScanInv
<1>4. k # "macro" /\ (k \in {"ELIF", "ELSE", "ENDIF"} => Len(chains) > 0)
  BY <1>2, <1>3, ItemNests
<1> QED BY <1>1, <1>2, <1>3, <1>4

\* The scanner acts on an item by itself.
LEMMA RestScanned ==
  ASSUME RestInv, ScanInv, ScanInv', NEW k, NEW conditions, Scan(k, conditions),
         ScannerOnly, Len(chains') = Opened(Item, Len(chains)),
         asm' = asm => Bottom' = "INITIAL" /\ start' # "MACROO",
         asm' \in {asm, "failed"}
  PROVE  RestInv'
<1>1. /\ asm = "parse" /\ push_state = "none" /\ Top # <<>> /\ buffers' = Consumed
      /\ NamedClosed
  BY AtScan
<1>2. UNCHANGED <<named, push_state>>
  BY DEF ScannerOnly
<1>3. CASE asm' = "failed"
  BY <1>3, RestEnds
<1>4. CASE asm' = asm
  <2>1. Bottom' = "INITIAL" /\ ~InMacro' /\ NamedClosed'
    BY <1>1, <1>2, <1>4 DEF InMacro, NamedClosed
  <2> QED BY <1>1, <1>4, <2>1, RestTaken
<1> QED BY <1>3, <1>4

LEMMA RestScanIf ==
  ASSUME RestInv, ScanInv, ScanInv', ScanIf
  PROVE  RestInv'
<1>1. \E conditions : Scan("IF", conditions)
  BY DEF ScanIf
<1>2. PICK conditions : Scan("IF", conditions)
  BY <1>1
<1>3. /\ Item.k = "IF" /\ ScanTypes /\ Bottom = "INITIAL" /\ ~InMacro
  BY <1>2, AtScan
<1>4. Len(chains') = Opened(Item, Len(chains))
  BY <1>3 DEF ScanIf, Opened, ScanTypes
<1>5. Bottom' = "INITIAL" /\ start' # "MACROO"
  <2>1. CASE UNCHANGED <<start, start_stack>>
    BY <1>3, <2>1 DEF Bottom, InMacro
  <2>2. CASE Push("SKIP_ALL")
    BY <1>3, <2>2, BottomPush DEF Push
  <2> QED BY <2>1, <2>2 DEF ScanIf
<1>6. ScannerOnly /\ asm' = asm
  BY DEF ScanIf
<1> QED BY <1>2, <1>4, <1>5, <1>6, RestScanned

\* Where .ELIF, .ELSE or .ENDIF is, a condition is on the stack.
LEMMA StackThere ==
  ASSUME RestInv, ScanInv, NEW k \in {"ELIF", "ELSE", "ENDIF"},
         NEW conditions \in SUBSET Conditions, Scan(k, conditions)
  PROVE  start_stack # <<>>
<1>1. At(k, conditions)
  BY DEF Scan
<1>2. Len(chains) > 0 /\ ScanTypes
  BY AtScan
<1>3. Len(chains) = Len(start_stack)
  BY <1>1, AtDirective
<1> QED BY <1>2, <1>3 DEF ScanTypes

\* The conditions are changed, not those below.
LEMMA BeginAbove ==
  ASSUME NEW condition, Begin(condition), start_stack # <<>>
  PROVE  Bottom' = Bottom /\ start' = condition
BY DEF Begin, Bottom

LEMMA RestScanElif ==
  ASSUME RestInv, ScanInv, ScanInv', ScanElif
  PROVE  RestInv'
<1>1. \E conditions \in SUBSET Conditions : Scan("ELIF", conditions)
  BY DEF ScanElif, Conditions
<1>2. PICK conditions \in SUBSET Conditions : Scan("ELIF", conditions)
  BY <1>1
<1>3. Item.k = "ELIF" /\ ScanTypes /\ Bottom = "INITIAL" /\ Len(chains) > 0
  BY <1>2, AtScan
<1>4. start_stack # <<>>
  BY <1>2, StackThere
<1>5. Len(chains') = Opened(Item, Len(chains))
  <2>1. DOMAIN chains' = 1 .. Len(chains) /\ DOMAIN chains' = 1 .. Len(chains')
    BY <1>3 DEF ScanElif, Update, ScanTypes, ScanInv
  <2>2. Len(chains) \in Nat /\ Len(chains') \in Nat
    BY <1>3 DEF ScanTypes, ScanInv
  <2>3. Len(chains') = Len(chains)
    BY ONLY <2>1, <2>2
  <2> QED BY <1>3, <2>3 DEF Opened
<1>6. asm' = asm /\ Bottom' = "INITIAL" /\ start' # "MACROO"
  <2>1. CASE Begin("SKIP_ALL") /\ UNCHANGED asm
    BY <1>3, <1>4, <2>1, BeginAbove
  <2>2. CASE Pop
    BY <1>3, <1>4, <2>2, BottomPop DEF Conditions
  <2> QED BY <2>1, <2>2 DEF ScanElif
<1>7. ScannerOnly
  BY DEF ScanElif
<1> QED BY <1>2, <1>5, <1>6, <1>7, RestScanned

LEMMA RestScanElse ==
  ASSUME RestInv, ScanInv, ScanInv', ScanElse
  PROVE  RestInv'
<1>1. \E conditions \in SUBSET Conditions : Scan("ELSE", conditions)
  BY DEF ScanElse, Conditions
<1>2. PICK conditions \in SUBSET Conditions : Scan("ELSE", conditions)
  BY <1>1
<1>3. Item.k = "ELSE" /\ ScanTypes /\ Bottom = "INITIAL" /\ Len(chains) > 0
  BY <1>2, AtScan
<1>4. start_stack # <<>>
  BY <1>2, StackThere
<1>5. Len(chains') = Opened(Item, Len(chains))
  <2>1. DOMAIN chains' = 1 .. Len(chains) /\ DOMAIN chains' = 1 .. Len(chains')
    BY <1>3 DEF ScanElse, Update, ScanTypes, ScanInv
  <2>2. Len(chains) \in Nat /\ Len(chains') \in Nat
    BY <1>3 DEF ScanTypes, ScanInv
  <2>3. Len(chains') = Len(chains)
    BY ONLY <2>1, <2>2
  <2> QED BY <1>3, <2>3 DEF Opened
<1>6. Bottom' = "INITIAL" /\ start' # "MACROO"
  BY <1>3, <1>4, BeginAbove DEF ScanElse
<1>7. ScannerOnly /\ asm' = asm
  BY DEF ScanElse
<1> QED BY <1>2, <1>5, <1>6, <1>7, RestScanned

LEMMA RestScanEndif ==
  ASSUME RestInv, ScanInv, ScanInv', ScanEndif
  PROVE  RestInv'
<1>1. PICK conditions \in SUBSET Conditions : Scan("ENDIF", conditions)
  BY DEF ScanEndif, Conditions
<1>2. Item.k = "ENDIF" /\ ScanTypes /\ Bottom = "INITIAL" /\ Len(chains) > 0
  BY <1>1, AtScan
<1>3. start_stack # <<>>
  BY <1>1, StackThere
<1>4. Len(chains') = Opened(Item, Len(chains))
  <2>1. chains' = SubSeq(chains, 1, Len(chains) - 1) /\ chains \in Seq(Chain)
    BY <1>2 DEF ScanEndif, ScanTypes
  <2>2. PICK l \in Nat : l = Len(chains) /\ l > 0
    BY <1>2, <2>1
  <2>3. Len(chains') = l - 1
    BY <2>1, <2>2
  <2> QED BY <1>2, <2>2, <2>3 DEF Opened
<1>5. asm' = asm /\ Bottom' = "INITIAL" /\ start' # "MACROO"
  BY <1>2, <1>3, BottomPop DEF ScanEndif, Conditions
<1>6. ScannerOnly
  BY DEF ScanEndif
<1> QED BY <1>1, <1>4, <1>5, <1>6, RestScanned

LEMMA RestSkipItem ==
  ASSUME RestInv, ScanInv, ScanInv', SkipItem
  PROVE  RestInv'
<1>1. PICK conditions : Scan(Item.k, conditions) /\ Item.k \notin {"IF", "ENDIF"}
  BY DEF SkipItem, ScanOther
<1>2. ScanTypes /\ Bottom = "INITIAL" /\ ~InMacro
  BY <1>1, AtScan
<1>3. ScannerOnly /\ UNCHANGED <<asm, start, start_stack, chains>>
  BY DEF SkipItem
<1>4. Len(chains') = Opened(Item, Len(chains)) /\ Bottom' = "INITIAL" /\ start' # "MACROO"
  BY <1>1, <1>2, <1>3 DEF Opened, Bottom, InMacro
<1> QED BY <1>1, <1>3, <1>4, RestScanned

\* A source ends with the conditionals closed that were opened in it; when the
\* main source ends none is open.
LEMMA RestEndOfBuffer ==
  ASSUME RestInv, ScanInv, ScanInv', EndOfBuffer
  PROVE  RestInv'
<1>1. /\ asm = "parse" /\ push_state = "none" /\ Top = <<>>
      /\ UNCHANGED <<start, start_stack, push_state, chains, named>>
  BY DEF EndOfBuffer, Scanning, condVars
<1>2. ScanTypes /\ Modes /\ ~InMacro /\ Bottom = "INITIAL" /\ NamedClosed
  BY <1>1 DEF RestInv, ScanInv
<1>3. PICK d : Openings(d)
  BY <1>1 DEF RestInv
<1>4. PICK l \in Nat : l = Len(buffers) /\ l >= 1
  BY <1>2 DEF ScanTypes
<1>5. d[l - 1] = Len(chains)
  <2>1. Nest(Top, d[l], d[l - 1]) /\ d[l] = Len(chains)
    BY <1>3, <1>4 DEF Openings, Top
  <2> QED BY <1>1, <2>1, NestEnd
<1>6. CASE l = 1
  <2>1. Len(chains) = 0 /\ asm' = "output"
    BY <1>3, <1>4, <1>5, <1>6 DEF Openings, EndOfBuffer
  <2>2. start_stack = <<>>
    BY <1>1, <1>2, <2>1 DEF Modes, ScanTypes, InMacro, Conditions
  <2>3. start = "INITIAL"
    BY <1>2, <2>2 DEF Bottom
  <2> QED BY <1>1, <2>1, <2>2, <2>3 DEF RestInv, Resting
<1>7. CASE l # 1
  <2>1. buffers' = SubSeq(buffers, 1, l - 1) /\ asm' = asm
    BY <1>4, <1>7 DEF EndOfBuffer
  <2>2. Len(buffers') = l - 1 /\ \A n \in 1 .. l - 1 : buffers'[n] = buffers[n]
    BY <1>2, <1>4, <1>7, <2>1 DEF ScanTypes
  <2> DEFINE e == [n \in 0 .. l - 1 |-> d[n]]
  <2>3. /\ d \in [0 .. l -> Nat] /\ d[0] = 0
        /\ \A n \in 1 .. l : Nest(buffers[n], d[n], d[n - 1])
    BY <1>3, <1>4 DEF Openings
  <2>4. e \in [0 .. l - 1 -> Nat] /\ e[0] = 0 /\ e[l - 1] = Len(chains')
    BY <1>1, <1>4, <1>5, <1>7, <2>3
  <2>5. ASSUME NEW n \in 1 .. l - 1
        PROVE  Nest(buffers'[n], e[n], e[n - 1])
    <3>1. n \in 1 .. l /\ n \in 0 .. l - 1 /\ n - 1 \in 0 .. l - 1
      BY ONLY <1>4, <2>5
    <3>2. e[n] = d[n] /\ e[n - 1] = d[n - 1]
      BY <3>1
    <3> HIDE DEF e
    <3>3. buffers'[n] = buffers[n]
      BY <2>2, <2>5
    <3> QED BY <2>3, <3>1, <3>2, <3>3
  <2> HIDE DEF e
  <2>6. Openings(e)'
    BY <2>2, <2>4, <2>5 DEF Openings
  <2>7. ~InMacro' /\ Bottom' = "INITIAL" /\ NamedClosed'
    BY <1>1, <1>2 DEF InMacro, Bottom, NamedClosed
  <2> QED BY <1>1, <2>1, <2>6, <2>7 DEF RestInv
<1> QED BY <1>6, <1>7

\* There is no macro.
LEMMA RestMacro ==
  ASSUME RestInv, ScanInv, PushMacroState \/ MacroAppend \/ EndMacro
  PROVE  FALSE
<1>1. CASE PushMacroState
  <2>1. Scan("macro", {"INITIAL"})
    BY <1>1 DEF PushMacroState, Reduce
  <2> QED BY <2>1, AtScan
<1>2. CASE MacroAppend \/ EndMacro
  <2>1. \E k : Scan(k, {"MACROO"})
    BY <1>2 DEF MacroAppend, EndMacro, ScanOther
  <2>2. PICK k : Scan(k, {"MACROO"})
    BY <2>1
  <2>3. start \in {"MACROO"} /\ ~InMacro
    BY <2>2, AtScan
  <2> QED BY <2>3 DEF InMacro
<1> QED BY <1>1, <1>2

\* What is included closes its own conditionals, where any number is open.
LEMMA RestInclude ==
  ASSUME FilesClosed, RestInv, ScanInv, ScanInv', Include
  PROVE  RestInv'
<1>1. At("include", {"INITIAL"})
  BY DEF Include
<1>2. /\ asm = "parse" /\ Top # <<>> /\ Item.k = "include" /\ Item.name \notin BinaryName
  BY <1>1, AtItem, AtOwn
<1>3. ScanTypes /\ ~InMacro /\ Bottom = "INITIAL" /\ NamedClosed /\ \E d : Openings(d)
  BY <1>2 DEF RestInv, ScanInv
<1>4. CASE Exit
  BY <1>4, RestEnds DEF Exit
<1>5. CASE ~Exit
  <2> DEFINE name == Item.name
             text == Content(Item.name)
  <2>1. /\ Exists(name) /\ GetNamedBuffer(name) /\ buffers' = Append(Consumed, text)
        /\ UNCHANGED <<exprVars, condVars>>
    BY <1>5 DEF Include
  <2>2. asm' = asm /\ UNCHANGED <<start, start_stack, push_state, chains>>
    BY <2>1 DEF exprVars, condVars
  <2>3. NamedClosed'
    <3> HIDE DEF name
    <3> QED BY <1>3, <2>1, NamedStaysClosed
  <2>4. Nest(text, 0, 0)
    <3>1. named' = Store(name, text)
      BY <2>1 DEF GetNamedBuffer
    <3>2. name \in DOMAIN named' /\ named'[name] = text /\ name \notin BinaryName
      BY <1>2, <3>1, StoreIs
    <3> HIDE DEF name, text
    <3> QED BY <2>3, <3>2 DEF NamedClosed
  <2> HIDE DEF name, text
  <2>5. PICK l \in Nat : l = Len(buffers) /\ l >= 1
    BY <1>3 DEF ScanTypes
  <2>6. PICK m \in Nat : m = Len(chains)
    BY <1>3 DEF ScanTypes
  <2> DEFINE rest == Consumed
  <2>7. /\ rest \in Seq(Seq(Items)) /\ Len(rest) = l /\ rest[l] = Tail(Top)
        /\ \A n \in 1 .. l - 1 : rest[n] = buffers[n]
    <3>1. buffers \in Seq(Seq(Items)) /\ buffers[l] \in Seq(Items) /\ Top = buffers[l]
      BY <1>3, <2>5 DEF ScanTypes, Top
    <3>2. Tail(buffers[l]) \in Seq(Items)
      BY <1>2, <3>1
    <3>3. Consumed = [buffers EXCEPT ![l] = Tail(buffers[l])]
      BY <2>5, <3>1 DEF Consumed
    <3> QED BY <2>5, <3>1, <3>2, <3>3
  <2> HIDE DEF rest
  <2>8. buffers' = Append(rest, text) /\ buffers' \in Seq(Seq(Items))
    BY <2>1 DEF rest, ScanInv, ScanTypes
  <2>9. /\ Len(buffers') = l + 1 /\ buffers'[l + 1] = text /\ buffers'[l] = Tail(Top)
        /\ \A n \in 1 .. l - 1 : buffers'[n] = buffers[n]
    BY <2>5, <2>7, <2>8
  <2>10. text \in Seq(Items)
    BY <2>5, <2>8, <2>9
  <2>11. PICK d : Openings(d)
    BY <1>3
  <2>12. /\ d \in [0 .. l -> Nat] /\ d[0] = 0 /\ d[l] = m
         /\ \A n \in 1 .. l : Nest(buffers[n], d[n], d[n - 1])
    BY <2>5, <2>6, <2>11 DEF Openings
  <2>13. Nest(Tail(Top), m, d[l - 1])
    <3>1. Opened(Item, Len(chains)) = m
      BY <1>2, <2>6 DEF Opened
    <3> QED BY <1>2, <1>3, <2>5, <2>11, <3>1, ItemNests
  <2>14. Nest(text, m, m)
    BY <2>4, <2>6, <2>10, NestShift
  <2> DEFINE e == [n \in 0 .. l + 1 |-> IF n = l + 1 THEN m ELSE d[n]]
  <2>15. e \in [0 .. l + 1 -> Nat] /\ e[0] = 0 /\ e[l + 1] = m /\ e[l] = m
    BY <2>5, <2>6, <2>12
  <2>16. ASSUME NEW n \in 1 .. l + 1
         PROVE  Nest(buffers'[n], e[n], e[n - 1])
    <3>1. CASE n = l + 1
      <4>1. n - 1 = l
        BY <2>5, <3>1
      <4> HIDE DEF e
      <4> QED BY <2>9, <2>14, <2>15, <3>1, <4>1
    <3>2. CASE n # l + 1
      <4>1. n \in 1 .. l /\ n \in 0 .. l + 1 /\ n - 1 \in 0 .. l + 1 /\ n - 1 # l + 1
        BY ONLY <2>5, <2>16, <3>2
      <4>2. e[n] = d[n] /\ e[n - 1] = d[n - 1]
        BY <3>2, <4>1
      <4> HIDE DEF e
      <4>3. CASE n = l
        BY <2>9, <2>12, <2>13, <4>2, <4>3
      <4>4. CASE n # l
        <5>1. n \in 1 .. l - 1
          BY ONLY <2>5, <4>1, <4>4
        <5>2. buffers'[n] = buffers[n]
          BY <2>9, <5>1
        <5> QED BY <2>12, <4>1, <4>2, <5>2
      <4> QED BY <4>3, <4>4
    <3> QED BY <3>1, <3>2
  <2> HIDE DEF e
  <2>17. Openings(e)'
    BY <2>2, <2>6, <2>9, <2>15, <2>16 DEF Openings
  <2>18. ~InMacro' /\ Bottom' = "INITIAL"
    BY <1>3, <2>2 DEF InMacro, Bottom
  <2> QED BY <1>2, <2>2, <2>3, <2>17, <2>18 DEF RestInv
<1> QED BY <1>4, <1>5

\* The condition is known: it is pushed when the scanner is called next.
LEMMA RestPushIfState ==
  ASSUME RestInv, AsmInv, AsmInv', PushIfState
  PROVE  RestInv'
<1>1. ScanInv /\ ScanInv' /\ Scan("if", {"INITIAL"})
  BY DEF PushIfState, Reduce, AsmInv
<1>2. /\ asm = "parse" /\ Top # <<>> /\ Item.k = "if" /\ buffers' = Consumed
      /\ ScanTypes /\ ~InMacro /\ Bottom = "INITIAL" /\ NamedClosed
  BY <1>1, AtScan
<1>3. /\ asm' = asm /\ named' = named /\ UNCHANGED <<start, start_stack>>
      /\ push_state' \in {"INITIAL", "SKIP"}
  BY DEF PushIfState, exprVars
<1>4. Len(chains') = Opened(Item, Len(chains))
  <2>1. DOMAIN chains' = 1 .. Len(chains) /\ DOMAIN chains' = 1 .. Len(chains')
    BY <1>1, <1>2 DEF PushIfState, Update, ScanTypes, ScanInv
  <2>2. Len(chains) \in Nat /\ Len(chains') \in Nat
    BY <1>1, <1>2 DEF ScanTypes, ScanInv
  <2>3. Len(chains') = Len(chains)
    BY ONLY <2>1, <2>2
  <2> QED BY <1>2, <2>3 DEF Opened
<1>5. Bottom' = "INITIAL" /\ ~InMacro' /\ NamedClosed'
  BY <1>2, <1>3 DEF Bottom, InMacro, NamedClosed
<1> QED BY <1>1, <1>2, <1>3, <1>4, <1>5, RestTaken

\* The value of an expression is asked for.
LEMMA RestNeed ==
  ASSUME RestInv, NEW e, Need(e)
  PROVE  RestInv'
<1>1. UNCHANGED scanVars /\ asm' \in {asm, "failed", "crashed"}
  BY DEF Need, Call
<1> QED BY <1>1, RestStays

LEMMA RestParser ==
  ASSUME FilesClosed, RestInv, AsmInv, AsmInv', NextParser
  PROVE  RestInv'
<1>1. ScanInv /\ ScanInv'
  BY DEF AsmInv
<1>2. ASSUME ResolveForParser
      PROVE  RestInv'
  BY <1>2, RestNeed DEF ResolveForParser, NeedFirst
<1> QED BY <1>1, <1>2, RestPushState, RestScanIf, RestScanElif, RestScanElse, RestScanEndif,
           RestSkipItem, RestEndOfBuffer, RestMacro, RestInclude, RestPushIfState, RestRules
        DEF NextParser

\* The expressions, and what is put out, are none of the scanner's.
LEMMA RestOutput ==
  ASSUME RestInv,
         ResolveStep \/ ResolveForOutput \/ OutputFails \/ OutputAtom \/ OutputDone
  PROVE  RestInv'
<1>1. CASE ResolveForOutput
  BY <1>1, RestNeed DEF ResolveForOutput, NeedFirst
<1>2. CASE ResolveStep
  <2>1. UNCHANGED scanVars /\ asm' \in {asm, "failed", "crashed"}
    BY <1>2 DEF ResolveStep, Resolve, ResolveUnary, ResolveSymbol, ResolveFirst, ShortCircuit,
                ResolveSecond, Return, Call, Stop
  <2> QED BY <2>1, RestStays
<1>3. CASE OutputFails \/ OutputAtom \/ OutputDone
  <2>1. UNCHANGED scanVars
        /\ (asm' \in {asm, "failed", "crashed"} \/ (asm = "output" /\ asm' = "done"))
    BY <1>3 DEF OutputFails, OutputAtom, OutputDone, exprVars
  <2> QED BY <2>1, RestStays
<1> QED BY <1>1, <1>2, <1>3

LEMMA RestInit ==
  ASSUME InitAsm, NEW source, buffers = <<source>>, Nest(source, 0, 0)
  PROVE  RestInv
<1>1. buffers = <<source>>
  OBVIOUS
<1>2. /\ asm = "parse" /\ start = "INITIAL" /\ start_stack = <<>> /\ push_state = "none"
      /\ named = [n \in {} |-> <<>>] /\ chains = <<>>
  BY DEF InitAsm
<1>3. Nest(source, 0, 0)
  OBVIOUS
<1> DEFINE d == [n \in 0 .. 1 |-> 0]
<1>4. d \in [0 .. 1 -> Nat] /\ d[0] = 0 /\ d[1] = 0 /\ Len(chains) = 0 /\ Len(buffers) = 1
      /\ buffers[1] = source
  BY <1>1, <1>2
<1>5. \A n \in 1 .. 1 : n = 1 /\ n - 1 = 0
  OBVIOUS
<1> HIDE DEF d
<1>6. Openings(d)
  BY <1>3, <1>4, <1>5 DEF Openings
<1> QED BY <1>2, <1>6 DEF RestInv, InMacro, Bottom, NamedClosed

LEMMA RestStep ==
  ASSUME FilesClosed
  PROVE  RestInv /\ AsmInv /\ AsmInv' /\ [NextAssembler \/ (Ended /\ UNCHANGED avars)]_avars
           => RestInv'
<1> SUFFICES ASSUME RestInv, AsmInv, AsmInv',
                    [NextAssembler \/ (Ended /\ UNCHANGED avars)]_avars
             PROVE  RestInv'
  OBVIOUS
<1>1. CASE NextAssembler
  BY <1>1, RestParser, RestOutput DEF NextAssembler
<1>2. CASE UNCHANGED avars
  <2>1. UNCHANGED scanVars /\ asm' = asm
    BY <1>2 DEF avars, exprVars
  <2> QED BY <2>1, RestStays
<1> QED BY <1>1, <1>2

\* When the assembler has succeeded, its scanner is where it was when the
\* process began, if the sources and the files close their conditionals and
\* have no macros: main can call it again for the depacker of the next chunk.
THEOREM RestCorrect ==
  ASSUME FilesClosed, \A source \in Sources : SelfContained(source)
  PROVE  SpecAssembler => []ScannerAtRest
<1>1. InitAssembler => RestInv
  BY RestInit, ClosedNest DEF InitAssembler
<1>2. RestInv => ScannerAtRest
  BY DEF RestInv, Resting, ScannerAtRest
<1> QED BY <1>1, <1>2, RestStep, AsmAlways, PTL DEF SpecAssembler

-----------------------------------------------------------------------------
(***************************************************************************)
(* The depacker: its source is put together from parts that are texts of   *)
(* the assembler, hence is one.                                            *)
(***************************************************************************)
Part(text) == Path(text, Between, Between) /\ Nest(text, 0, 0)

\* Two parts, one after the other.
LEMMA PartsJoin ==
  ASSUME NEW s, Part(s), NEW t, Part(t)
  PROVE  Part(s \o t)
<1>1. s \in Seq(Items) /\ t \in Seq(Items)
  BY DEF Part, Path
<1>2. PICK l \in Nat, m \in Nat : l = Len(s) /\ m = Len(t)
  BY <1>1
<1>3. /\ s \o t \in Seq(Items) /\ Len(s \o t) = l + m
      /\ \A n \in 1 .. l : (s \o t)[n] = s[n]
      /\ \A n \in l + 1 .. l + m : (s \o t)[n] = t[n - l]
  BY <1>1, <1>2
<1> DEFINE st == s \o t
<1> HIDE DEF st
<1>4. st \in Seq(Items) /\ Len(st) = l + m
      /\ (\A n \in 1 .. l : st[n] = s[n]) /\ (\A n \in l + 1 .. l + m : st[n] = t[n - l])
  BY <1>3 DEF st
<1>5. Path(st, Between, Between)
  <2>1. PICK g : Reads(s, g, Between, Between)
    BY DEF Part, Path
  <2>2. PICK h : Reads(t, h, Between, Between)
    BY DEF Part, Path
  <2>3. /\ g[0] = Between /\ g[l] = Between /\ h[0] = Between /\ h[m] = Between
        /\ \A n \in 1 .. l : Accepts(s[n], g[n - 1]) /\ g[n] = After(s[n], g[n - 1])
        /\ \A n \in 1 .. m : Accepts(t[n], h[n - 1]) /\ h[n] = After(t[n], h[n - 1])
    BY <1>2, <2>1, <2>2 DEF Reads
  <2> DEFINE f == [n \in 0 .. l + m |-> IF n <= l THEN g[n] ELSE h[n - l]]
  <2>4. f[0] = Between /\ f[l + m] = Between
    BY <1>2, <2>3
  <2>5. ASSUME NEW n \in 1 .. l + m
        PROVE  Accepts(st[n], f[n - 1]) /\ f[n] = After(st[n], f[n - 1])
    <3>1. CASE n <= l
      <4>1. n \in 1 .. l /\ n \in 0 .. l + m /\ n - 1 \in 0 .. l + m /\ n - 1 <= l
        BY ONLY <1>2, <2>5, <3>1
      <4>2. f[n] = g[n] /\ f[n - 1] = g[n - 1]
        BY <3>1, <4>1
      <4> HIDE DEF f
      <4>3. st[n] = s[n]
        BY <1>4, <4>1
      <4> QED BY <2>3, <4>1, <4>2, <4>3
    <3>2. CASE ~(n <= l)
      <4>1. /\ n \in l + 1 .. l + m /\ n \in 0 .. l + m /\ n - 1 \in 0 .. l + m
            /\ n - l \in 1 .. m /\ (n - l) - 1 = (n - 1) - l
        BY ONLY <1>2, <2>5, <3>2
      <4>2. f[n] = h[n - l]
        BY <3>2, <4>1
      <4>3. f[n - 1] = h[(n - l) - 1]
        <5>1. CASE n - 1 <= l
          <6>1. n - 1 = l /\ (n - l) - 1 = 0
            BY ONLY <1>2, <2>5, <3>2, <5>1
          <6>2. f[n - 1] = g[l]
            BY <4>1, <6>1
          <6> QED BY <2>3, <6>1, <6>2
        <5>2. CASE ~(n - 1 <= l)
          BY <4>1, <5>2
        <5> QED BY <5>1, <5>2
      <4> HIDE DEF f
      <4>4. st[n] = t[n - l]
        BY <1>4, <4>1
      <4> QED BY <2>3, <4>1, <4>2, <4>3, <4>4
    <3> QED BY <3>1, <3>2
  <2> HIDE DEF f
  <2>6. Reads(st, f, Between, Between)
    BY <1>4, <2>4, <2>5 DEF Reads
  <2> QED BY <1>4, <2>6 DEF Path
<1>6. Nest(st, 0, 0)
  <2>1. PICK g : Nests(s, g, 0, 0)
    BY DEF Part, Nest
  <2>2. PICK h : Nests(t, h, 0, 0)
    BY DEF Part, Nest
  <2> DEFINE Step(i, a, b) == /\ i.k # "macro"
                              /\ i.k \in {"ELIF", "ELSE", "ENDIF"} => a > 0
                              /\ a \in Nat
                              /\ b = Opened(i, a)
  <2>3. /\ g[0] = 0 /\ g[l] = 0 /\ h[0] = 0 /\ h[m] = 0
        /\ \A n \in 1 .. l : Step(s[n], g[n - 1], g[n])
        /\ \A n \in 1 .. m : Step(t[n], h[n - 1], h[n])
    BY <1>2, <2>1, <2>2 DEF Nests
  <2> HIDE DEF Step
  <2> DEFINE f == [n \in 0 .. l + m |-> IF n <= l THEN g[n] ELSE h[n - l]]
  <2>4. f[0] = 0 /\ f[l + m] = 0
    BY <1>2, <2>3
  <2>5. ASSUME NEW n \in 1 .. l + m
        PROVE  Step(st[n], f[n - 1], f[n])
    <3>1. CASE n <= l
      <4>1. n \in 1 .. l /\ n \in 0 .. l + m /\ n - 1 \in 0 .. l + m /\ n - 1 <= l
        BY ONLY <1>2, <2>5, <3>1
      <4>2. f[n] = g[n] /\ f[n - 1] = g[n - 1]
        BY <3>1, <4>1
      <4> HIDE DEF f
      <4>3. st[n] = s[n]
        BY <1>4, <4>1
      <4> QED BY <2>3, <4>1, <4>2, <4>3
    <3>2. CASE ~(n <= l)
      <4>1. /\ n \in l + 1 .. l + m /\ n \in 0 .. l + m /\ n - 1 \in 0 .. l + m
            /\ n - l \in 1 .. m /\ (n - l) - 1 = (n - 1) - l
        BY ONLY <1>2, <2>5, <3>2
      <4>2. f[n] = h[n - l]
        BY <3>2, <4>1
      <4>3. f[n - 1] = h[(n - l) - 1]
        <5>1. CASE n - 1 <= l
          <6>1. n - 1 = l /\ (n - l) - 1 = 0
            BY ONLY <1>2, <2>5, <3>2, <5>1
          <6>2. f[n - 1] = g[l]
            BY <4>1, <6>1
          <6> QED BY <2>3, <6>1, <6>2
        <5>2. CASE ~(n - 1 <= l)
          BY <4>1, <5>2
        <5> QED BY <5>1, <5>2
      <4> HIDE DEF f
      <4>4. st[n] = t[n - l]
        BY <1>4, <4>1
      <4> QED BY <2>3, <4>1, <4>2, <4>3, <4>4
    <3> QED BY <3>1, <3>2
  <2> HIDE DEF f
  <2>6. Nests(st, f, 0, 0)
    BY <1>4, <2>4, <2>5 DEF Nests, Step
  <2> QED BY <2>6 DEF Nest
<1> QED BY <1>5, <1>6 DEF Part, st

\* What gen_decruncher gives to the assembler.
LEMMA DepackerIsPart ==
  ASSUME NEW c \in Calls
  PROVE  Part(Definitions(c) \o DepackerAsm)
<1>1. /\ Part(Definitions(c)) /\ Part(Org(Sym("ADDR_BASE"))) /\ Part(CopyLoop) /\ Part(MainLoop)
      /\ Part(Copy) /\ Part(ReadAndOutputCode) /\ Part(TableOfTables)
  BY DepackerAssumption, TextPath, ClosedNest DEF Part
<1>2. Part(Org(Sym("ADDR_BASE")) \o CopyLoop)
  BY <1>1, PartsJoin
<1>3. Part(Org(Sym("ADDR_BASE")) \o CopyLoop \o MainLoop)
  BY <1>1, <1>2, PartsJoin
<1>4. Part(Org(Sym("ADDR_BASE")) \o CopyLoop \o MainLoop \o Copy)
  BY <1>1, <1>3, PartsJoin
<1>5. Part(Org(Sym("ADDR_BASE")) \o CopyLoop \o MainLoop \o Copy \o ReadAndOutputCode)
  BY <1>1, <1>4, PartsJoin
<1>6. Part(DepackerAsm)
  BY <1>1, <1>5, PartsJoin DEF DepackerAsm
<1> QED BY <1>1, <1>6, PartsJoin

LEMMA GeneratorInit ==
  ASSUME InitGenerator
  PROVE  AsmInv /\ RestInv
<1>1. InitAsm /\ call \in Calls /\ buffers = <<Definitions(call) \o DepackerAsm>>
  BY DEF InitGenerator
<1>2. Part(Definitions(call) \o DepackerAsm)
  BY <1>1, DepackerIsPart
<1> QED BY <1>1, <1>2, AsmInit, RestInit DEF Part

LEMMA GeneratorStep ==
  [NextGenerator \/ (Ended /\ UNCHANGED gvars)]_gvars =>
    [NextAssembler \/ (Ended /\ UNCHANGED avars)]_avars
BY DEF NextGenerator, gvars

\* Whatever addresses and end marker the depacker is generated for, its labels
\* are the addresses of the bytes behind them and its branches lead to them.
THEOREM DepackerPlaced == SpecGenerator => [](PcIsPosition /\ BranchesLand)
<1>1. InitGenerator => AsmInv
  BY GeneratorInit
<1>2. AsmInv => PcIsPosition /\ BranchesLand
  BY PlacesAre, BranchesAre
<1> QED BY <1>1, <1>2, GeneratorStep, AsmStep, PTL DEF SpecGenerator

\* Whatever addresses and end marker the depacker is generated for, the scanner
\* is left for the next call of gen_decruncher as it was for this one.
THEOREM DepackerLeavesRest ==
  ASSUME FilesClosed
  PROVE  SpecGenerator => []ScannerAtRest
<1>1. InitGenerator => AsmInv /\ RestInv
  BY GeneratorInit
<1>2. RestInv => ScannerAtRest
  BY DEF RestInv, Resting, ScannerAtRest
<1> QED BY <1>1, <1>2, GeneratorStep, AsmStep, RestStep, PTL DEF SpecGenerator
=============================================================================
