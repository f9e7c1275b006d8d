------------------------- MODULE ExpressionsTheorems -------------------------
(***************************************************************************)
(* What is proved of the evaluation of expressions, for every word size,   *)
(* every pool of expressions and every room for the stack: the types, that *)
(* numbers stay explained by the expressions they replaced, that they are  *)
(* what the expressions mean, and, where the stack has room for a call for *)
(* every expression, that only what means nothing stops the assembler.     *)
(***************************************************************************)
EXTENDS Expressions, FiniteSetTheorems, SequenceTheorems, WellFoundedInduction, TLAPS

-----------------------------------------------------------------------------
(***************************************************************************)
(* The arithmetic stays in the word.                                       *)
(***************************************************************************)

\* Wrapping around gives a word.
LEMMA WrapRange ==
  ASSUME NEW n \in Int
  PROVE  Wrap(n) \in Word32
<1>1. LIMIT \in Nat \ {0, 1}
  BY WordAssumption
<1>2. (n + LIMIT) % (2 * LIMIT) \in 0 .. 2 * LIMIT - 1
  BY <1>1
<1> QED BY <1>1, <1>2 DEF Wrap, Word32

\* What division gives and leaves, for numbers without a sign.
LEMMA Divided ==
  ASSUME NEW m \in Nat, NEW n \in Nat \ {0}
  PROVE  /\ m \div n \in Nat
         /\ n * (m \div n) <= m
         /\ m - n * (m \div n) < n
         /\ m \div n <= m
         /\ n >= 2 => 2 * (m \div n) <= m
<1>1. PICK q \in Int : q = m \div n
  OBVIOUS
<1>2. PICK r \in 0 .. n - 1 : m = n * q + r
  BY <1>1
<1>3. q >= 0
  <2>1. ASSUME q <= -1 PROVE FALSE
    <3>1. n * q <= -n
      BY ONLY <2>1, n \in Nat \ {0}, q \in Int, SMTT(30)
    <3> QED BY <1>2, <3>1
  <2> QED BY <2>1
<1>4. n * q >= q
  BY ONLY <1>3, n \in Nat \ {0}, q \in Int, SMTT(30)
<1>5. n >= 2 => n * q >= 2 * q
  BY ONLY <1>3, n \in Nat \ {0}, q \in Int, SMTT(30)
<1>6. n * q \in Int
  OBVIOUS
<1> QED BY <1>1, <1>2, <1>3, <1>4, <1>5, <1>6

\* The truncating division of two words gives a word.
LEMMA QuotientRange ==
  ASSUME NEW a \in Word32, NEW b \in Word32, b # 0, ~(a = -LIMIT /\ b = -1)
  PROVE  Quotient(a, b) \in Word32
<1>1. LIMIT \in Nat \ {0, 1} /\ a \in Int /\ b \in Int
  BY WordAssumption DEF Word32
<1>2. Magnitude(a) \in Nat /\ Magnitude(b) \in Nat \ {0}
  BY <1>1 DEF Magnitude
<1>3. PICK q \in Nat : /\ q = Magnitude(a) \div Magnitude(b)
                       /\ q <= Magnitude(a)
                       /\ Magnitude(b) >= 2 => 2 * q <= Magnitude(a)
  BY <1>2, Divided
<1>4. Quotient(a, b) = IF (a < 0) = (b < 0) THEN q ELSE -q
  BY <1>3 DEF Quotient
<1>5. -q \in Word32
  BY <1>1, <1>3 DEF Magnitude, Word32
<1>6. (a < 0) = (b < 0) => q \in Word32
  BY <1>1, <1>3 DEF Magnitude, Word32
<1> QED BY <1>4, <1>5, <1>6

\* So does the remainder, which has the sign of the dividend.
LEMMA RemainderRange ==
  ASSUME NEW a \in Word32, NEW b \in Word32, b # 0
  PROVE  Remainder(a, b) \in Word32
<1>1. LIMIT \in Nat \ {0, 1} /\ a \in Int /\ b \in Int
  BY WordAssumption DEF Word32
<1>2. PICK m \in Nat, n \in Nat \ {0} : m = Magnitude(a) /\ n = Magnitude(b)
  BY <1>1 DEF Magnitude
<1>3. PICK q \in Nat : q = m \div n /\ n * q <= m
  BY Divided
<1>4. PICK p \in Int : p = n * q
  OBVIOUS
<1>5. n * q >= 0
  BY ONLY n \in Nat, q \in Nat, SMTT(30)
<1>6. b * Quotient(a, b) = IF a < 0 THEN -p ELSE p
  <2>1. Quotient(a, b) = IF (a < 0) = (b < 0) THEN q ELSE -q
    BY <1>2, <1>3 DEF Quotient
  <2>2. b = n \/ b = -n
    BY <1>1, <1>2 DEF Magnitude
  <2>3. (b < 0) <=> b = -n
    BY <1>1, <1>2 DEF Magnitude
  <2>4. /\ n * (-q) = -p /\ (-n) * q = -p /\ (-n) * (-q) = p
    BY ONLY <1>4, n \in Nat, q \in Nat, p \in Int, SMTT(30)
  <2> QED BY <1>1, <1>4, <2>1, <2>2, <2>3, <2>4
<1>7. Remainder(a, b) = IF a < 0 THEN a + p ELSE a - p
  BY <1>1, <1>6 DEF Remainder
<1> QED BY <1>1, <1>2, <1>3, <1>4, <1>5, <1>7 DEF Magnitude, Word32

\* A truth value is a word.
LEMMA TruthRange ==
  ASSUME NEW c \in BOOLEAN
  PROVE  Truth(c) \in Word32
BY WordAssumption DEF Truth, Word32

\* The value of an operator with one argument.
LEMMA UnaryRange ==
  ASSUME NEW op \in UnaryOp, NEW a \in Word32
  PROVE  Unary(op, a) \in Word32
<1>1. a \in Int /\ -a \in Int
  BY WordAssumption DEF Word32
<1> QED BY <1>1, WrapRange, TruthRange DEF Unary

\* The value of an operator with two arguments.
LEMMA BinaryRange ==
  ASSUME NEW op \in BinaryOp, NEW a \in Word32, NEW b \in Word32, ~Traps(op, a, b)
  PROVE  Binary(op, a, b) \in Word32
<1>1. a \in Int /\ b \in Int
  BY WordAssumption DEF Word32
<1>2. Wrap(a + b) \in Word32 /\ Wrap(a - b) \in Word32 /\ Wrap(a * b) \in Word32
  BY <1>1, WrapRange
<1>3. Truth(a < b) \in Word32 /\ Truth(a > b) \in Word32 /\ Truth(a = b) \in Word32
      /\ Truth(a # b) \in Word32 /\ Truth(b # 0) \in Word32
  BY WordAssumption DEF Truth, Word32
<1>4. op = "DIV" => Quotient(a, b) \in Word32
  BY QuotientRange DEF Traps
<1>5. op = "MOD" => Remainder(a, b) \in Word32
  BY RemainderRange DEF Traps
<1>6. op \in {"PLUS", "MINUS", "MULT"} => Binary(op, a, b) \in Word32
  <2>1. op = "PLUS" => Binary(op, a, b) = Wrap(a + b)
    BY DEF Binary
  <2>2. op = "MINUS" => Binary(op, a, b) = Wrap(a - b)
    BY DEF Binary
  <2>3. op = "MULT" => Binary(op, a, b) = Wrap(a * b)
    BY DEF Binary
  <2> QED BY <1>2, <2>1, <2>2, <2>3
<1>7. op \in {"DIV", "MOD"} => Binary(op, a, b) \in Word32
  BY <1>4, <1>5 DEF Binary
<1>8. op \in {"LT", "GT", "EQ", "NEQ", "LOR", "LAND"} => Binary(op, a, b) \in Word32
  BY <1>3 DEF Binary
<1> QED BY <1>6, <1>7, <1>8 DEF BinaryOp

-----------------------------------------------------------------------------
(***************************************************************************)
(* The inductive invariant: the types, which say that pointers lead to     *)
(* expressions, and that every number is explained.                        *)
(***************************************************************************)
EInv == ExprTypeOK /\ AllExplained

\* What the node of a pointer looks like, by its operator.
LEMMA NodeShape ==
  ASSUME NEW n \in Expression
  PROVE  /\ n.expr_op = "NUMBER" => n.number \in Word32
         /\ n.expr_op = "SYMBOL" => n.symref \in Name
         /\ n.expr_op \in UnaryOp => Arguments(n) = {n.arg1}
         /\ n.expr_op \in BinaryOp => Arguments(n) = {n.arg1, n.arg2}
BY DEF Expression, Arguments, UnaryOp, BinaryOp

\* The value of a resolved expression is a word.
LEMMA ValueRange ==
  ASSUME EInv, NEW e \in Pointer, Resolved(e)
  PROVE  Value(e) \in Word32
<1>1. exprs[e] \in Expression
  BY DEF EInv, ExprTypeOK, Pointer
<1> QED BY <1>1, NodeShape DEF Resolved, Value

\* At the start the expressions are as they were created.
LEMMA EInit ==
  ASSUME InitExpressions
  PROVE  EInv
<1>1. WellFormed(exprs) /\ parsed = exprs
  BY PoolAssumption DEF InitExpressions
<1>2. exprs \in Seq(Expression) /\ parsed \in Seq(Expression)
  BY <1>1 DEF WellFormed
<1>3. \A e \in Pointer : exprs[e] \in Expression
  BY <1>2 DEF Pointer
<1>4. ExprTypeOK
  <2>1. DOMAIN s_sym_table = {} /\ calls = <<>>
    BY DEF InitExpressions
  <2>2. calls \in Seq(Pointer) /\ Len(calls) <= MAX_DEPTH
    BY <2>1, DepthAssumption
  <2>3. \A e \in Pointer : Arguments(exprs[e]) \cup Arguments(parsed[e]) \subseteq Pointer
    BY <1>1 DEF WellFormed, Pointer
  <2>4. asm = "parse" /\ Len(parsed) = Len(exprs)
    BY <1>1 DEF InitExpressions
  <2> QED BY <1>2, <2>1, <2>2, <2>3, <2>4 DEF ExprTypeOK
<1>5. AllExplained
  <2>1. ASSUME NEW e \in Pointer, Resolved(e)
        PROVE  Explained(parsed[e], Value(e))
    <3>1. parsed[e].expr_op = "NUMBER" /\ Value(e) = parsed[e].number
      BY <1>1, <2>1 DEF Resolved, Value
    <3> QED BY <3>1 DEF Explained, UnaryOp, BinaryOp
  <2> QED BY <1>1, <2>1 DEF AllExplained
<1> QED BY <1>4, <1>5 DEF EInv

-----------------------------------------------------------------------------
(***************************************************************************)
(* A number once explained stays explained: explanations depend only on    *)
(* numbers and on definitions, and neither ever changes.                   *)
(***************************************************************************)
Keeps ==
  /\ \A e \in Pointer : Resolved(e) => exprs'[e] = exprs[e]
  /\ \A s \in DOMAIN s_sym_table :
       s \in DOMAIN s_sym_table' /\ s_sym_table'[s] = s_sym_table[s]

LEMMA ExplainedKept ==
  ASSUME NEW n \in Expression, NEW v, Arguments(n) \subseteq Pointer,
         \A s \in DOMAIN s_sym_table : s_sym_table[s] \in Pointer,
         Keeps, Explained(n, v)
  PROVE  Explained(n, v)'
<1>1. \A e \in Pointer : Resolved(e) => Resolved(e)' /\ Value(e)' = Value(e)
  BY DEF Keeps, Resolved, Value
<1>2. CASE n.expr_op = "NUMBER"
  BY <1>2 DEF Explained, UnaryOp, BinaryOp
<1>3. CASE n.expr_op = "SYMBOL"
  <2>1. /\ IsDefined(n.symref) /\ Resolved(s_sym_table[n.symref])
        /\ v = Value(s_sym_table[n.symref])
    BY <1>3 DEF Explained, UnaryOp, BinaryOp
  <2>2. IsDefined(n.symref)' /\ s_sym_table'[n.symref] = s_sym_table[n.symref]
    BY <2>1 DEF Keeps, IsDefined
  <2>3. PICK e \in Pointer : e = s_sym_table[n.symref]
    BY <2>1 DEF IsDefined
  <2>4. Resolved(e)' /\ Value(e)' = v
    BY <1>1, <2>1, <2>3
  <2>5. Resolved(s_sym_table[n.symref])' /\ Value(s_sym_table[n.symref])' = v
    BY <2>2, <2>3, <2>4 DEF Resolved, Value
  <2> QED BY <1>3, <2>2, <2>5 DEF Explained, UnaryOp, BinaryOp
<1>4. CASE n.expr_op \in UnaryOp
  <2>1. Resolved(n.arg1) /\ v = Unary(n.expr_op, Value(n.arg1))
    BY <1>4 DEF Explained, UnaryOp, BinaryOp
  <2>2. n.arg1 \in Pointer
    BY <1>4, NodeShape
  <2>3. Resolved(n.arg1)' /\ Value(n.arg1)' = Value(n.arg1)
    BY <1>1, <2>1, <2>2
  <2> QED BY <1>4, <2>1, <2>3 DEF Explained, UnaryOp, BinaryOp
<1>5. CASE n.expr_op \in BinaryOp
  <2>1. /\ Resolved(n.arg1)
        /\ IF Decides(n.expr_op, Value(n.arg1))
           THEN v = Truth(Value(n.arg1) # 0)
           ELSE /\ Resolved(n.arg2)
                /\ ~Traps(n.expr_op, Value(n.arg1), Value(n.arg2))
                /\ v = Binary(n.expr_op, Value(n.arg1), Value(n.arg2))
    BY <1>5 DEF Explained, UnaryOp, BinaryOp
  <2>2. n.arg1 \in Pointer /\ n.arg2 \in Pointer
    BY <1>5, NodeShape
  <2>3. Resolved(n.arg1)' /\ Value(n.arg1)' = Value(n.arg1)
    BY <1>1, <2>1, <2>2
  <2>4. Resolved(n.arg2) => Resolved(n.arg2)' /\ Value(n.arg2)' = Value(n.arg2)
    BY <1>1, <2>2
  <2> QED BY <1>5, <2>1, <2>3, <2>4 DEF Explained, UnaryOp, BinaryOp
<1> QED BY <1>2, <1>3, <1>4, <1>5 DEF Expression

\* What a call returns explains the expression it was made for.
LEMMA ReturnHolds ==
  ASSUME EInv, Resolving, ~Resolved(Callee), NEW v \in Word32,
         Explained(parsed[Callee], v), Return(v)
  PROVE  EInv'
<1>1. Callee \in Pointer
  BY DEF EInv, ExprTypeOK, Resolving, Callee
<1>2. PICK c \in Pointer : c = Callee
  BY <1>1
<1>3. /\ exprs' = [exprs EXCEPT ![c] = Number(v)]
      /\ calls' = SubSeq(calls, 1, Len(calls) - 1)
      /\ asm' = asm /\ s_sym_table' = s_sym_table /\ parsed' = parsed
  BY <1>2 DEF Return
<1>4. exprs \in Seq(Expression) /\ parsed \in Seq(Expression)
      /\ Len(parsed) = Len(exprs)
  BY DEF EInv, ExprTypeOK
<1>5. Number(v) \in Expression /\ Arguments(Number(v)) = {}
  BY DEF Number, Expression, Arguments, UnaryOp, BinaryOp
<1>6. exprs' \in Seq(Expression) /\ Len(exprs') = Len(exprs)
  BY <1>3, <1>4, <1>5, ExceptSeq DEF Pointer
<1>7. Pointer' = Pointer
  BY <1>6 DEF Pointer
<1>8. \A e \in Pointer : exprs'[e] = IF e = c THEN Number(v) ELSE exprs[e]
  BY <1>3, <1>4 DEF Pointer
<1>9. Keeps
  BY <1>2, <1>3, <1>8 DEF Keeps
<1>10. ExprTypeOK'
  <2>1. calls' \in Seq(Pointer) /\ Len(calls') <= MAX_DEPTH
    BY <1>3, DepthAssumption DEF EInv, ExprTypeOK, Resolving
  <2>2. \A e \in Pointer : Arguments(exprs'[e]) \cup Arguments(parsed'[e]) \subseteq Pointer
    BY <1>3, <1>5, <1>8 DEF EInv, ExprTypeOK
  <2> QED BY <1>3, <1>4, <1>6, <1>7, <2>1, <2>2 DEF EInv, ExprTypeOK, Arguments
<1>11. AllExplained'
  <2>1. SUFFICES ASSUME NEW e \in Pointer
                 PROVE  (IF Resolved(e) THEN Explained(parsed[e], Value(e))
                         ELSE exprs[e] = parsed[e])'
    BY <1>7 DEF AllExplained
  <2>2. PICK n \in Expression : n = parsed[e] /\ Arguments(n) \subseteq Pointer
    BY <1>4 DEF EInv, ExprTypeOK, Pointer
  <2>3. PICK w : w = Value(e)'
    OBVIOUS
  <2>4. Resolved(e)' => Explained(n, w)
    <3>1. CASE e = c
      <4>1. w = v
        BY <1>8, <2>3, <3>1 DEF Value, Number
      <4> QED BY <1>2, <2>2, <3>1, <4>1
    <3>2. CASE e # c
      <4>1. Resolved(e)' <=> Resolved(e)
        BY <1>8, <3>2 DEF Resolved
      <4>2. w = Value(e)
        BY <1>8, <2>3, <3>2 DEF Value
      <4> QED BY <2>2, <4>1, <4>2 DEF EInv, AllExplained
    <3> QED BY <3>1, <3>2
  <2>5. Resolved(e)' => Explained(n, w)'
    BY <1>9, <2>2, <2>4, ExplainedKept DEF EInv, ExprTypeOK
  <2>6. ~Resolved(e)' => exprs'[e] = parsed[e]
    BY <1>8 DEF Resolved, Number, EInv, AllExplained
  <2> QED BY <1>3, <2>2, <2>3, <2>5, <2>6
<1> QED BY <1>10, <1>11 DEF EInv

\* Where the pool, what was parsed and the definitions stay, so does all that
\* is said of them.
LEMMA PoolStays ==
  ASSUME EInv, UNCHANGED <<exprs, s_sym_table, parsed>>,
         asm' \in {"parse", "output", "done", "failed", "crashed"},
         calls' \in Seq(Pointer), Len(calls') <= MAX_DEPTH
  PROVE  EInv'
<1>1. Pointer' = Pointer
  BY DEF Pointer
<1>2. ExprTypeOK'
  BY <1>1 DEF EInv, ExprTypeOK
<1>3. Keeps
  BY DEF Keeps
<1>4. AllExplained'
  <2>1. SUFFICES ASSUME NEW e \in Pointer
                 PROVE  (IF Resolved(e) THEN Explained(parsed[e], Value(e))
                         ELSE exprs[e] = parsed[e])'
    BY <1>1 DEF AllExplained
  <2>2. PICK n \in Expression : n = parsed[e] /\ Arguments(n) \subseteq Pointer
    BY DEF EInv, ExprTypeOK, Pointer
  <2>3. PICK w : w = Value(e)
    OBVIOUS
  <2>4. (Resolved(e)' <=> Resolved(e)) /\ Value(e)' = w
    BY <2>3 DEF Resolved, Value
  <2>5. Resolved(e) => Explained(n, w)
    BY <2>2, <2>3 DEF EInv, AllExplained
  <2>6. Resolved(e) => Explained(n, w)'
    BY <1>3, <2>2, <2>5, ExplainedKept DEF EInv, ExprTypeOK
  <2>7. ~Resolved(e) => exprs'[e] = parsed[e]
    BY DEF EInv, AllExplained
  <2> QED BY <2>2, <2>4, <2>6, <2>7
<1> QED BY <1>2, <1>4 DEF EInv

\* A call for one of the expressions.
LEMMA CallHolds ==
  ASSUME EInv, NEW e \in Pointer, Call(e)
  PROVE  EInv'
<1>1. UNCHANGED <<exprs, s_sym_table, parsed>>
  BY DEF Call
<1>2. asm' \in {"parse", "output", "done", "failed", "crashed"}
  BY DEF Call, EInv, ExprTypeOK
<1>3. calls' \in Seq(Pointer) /\ Len(calls') <= MAX_DEPTH
  <2>1. calls \in Seq(Pointer) /\ Len(calls) <= MAX_DEPTH
    BY DEF EInv, ExprTypeOK
  <2>2. PICK d \in Nat : d = MAX_DEPTH
    BY DepthAssumption
  <2>3. PICK n \in Nat : n = Len(calls)
    BY <2>1
  <2>4. Append(calls, e) \in Seq(Pointer) /\ Len(Append(calls, e)) = n + 1
    BY <2>1, <2>3
  <2> QED BY <2>1, <2>2, <2>3, <2>4 DEF Call
<1> QED BY <1>1, <1>2, <1>3, PoolStays

\* The assembler stops.
LEMMA StopHolds ==
  ASSUME EInv, NEW how \in {"failed", "crashed"}, Stop(how)
  PROVE  EInv'
<1>1. UNCHANGED <<exprs, s_sym_table, parsed>> /\ calls' = calls /\ asm' = how
  BY DEF Stop
<1>2. calls \in Seq(Pointer) /\ Len(calls) <= MAX_DEPTH
  BY DEF EInv, ExprTypeOK
<1> QED BY <1>1, <1>2, PoolStays

\* The innermost call is for an expression that is not a number, as created,
\* with arguments in the pool.
LEMMA CalleeShape ==
  ASSUME EInv, Resolving, Node.expr_op # "NUMBER"
  PROVE  /\ Callee \in Pointer /\ ~Resolved(Callee)
         /\ Node \in Expression /\ Node = parsed[Callee]
         /\ Arguments(Node) \subseteq Pointer
<1>1. Callee \in Pointer
  BY DEF EInv, ExprTypeOK, Resolving, Callee
<1>2. ~Resolved(Callee)
  BY DEF Resolved, Node
<1> QED BY <1>1, <1>2 DEF EInv, ExprTypeOK, AllExplained, Node, Pointer

LEMMA ResolveUnaryHolds ==
  ASSUME EInv, ResolveUnary
  PROVE  EInv'
<1>1. Resolving /\ Node.expr_op \in UnaryOp
  BY DEF ResolveUnary
<1>2. /\ Callee \in Pointer /\ ~Resolved(Callee) /\ Node \in Expression
      /\ Node = parsed[Callee] /\ Arguments(Node) \subseteq Pointer
  BY <1>1, CalleeShape DEF UnaryOp
<1>3. Node.arg1 \in Pointer
  BY <1>1, <1>2, NodeShape
<1>4. CASE Resolved(Node.arg1)
  <2>1. PICK v : v = Unary(Node.expr_op, Value(Node.arg1))
    OBVIOUS
  <2>2. v \in Word32
    BY <1>1, <1>3, <1>4, <2>1, ValueRange, UnaryRange
  <2>3. Explained(parsed[Callee], v)
    BY <1>1, <1>2, <1>4, <2>1 DEF Explained, UnaryOp, BinaryOp
  <2>4. Return(v)
    BY <1>4, <2>1 DEF ResolveUnary
  <2> QED BY <1>1, <1>2, <2>2, <2>3, <2>4, ReturnHolds
<1>5. CASE ~Resolved(Node.arg1)
  BY <1>3, <1>5, CallHolds DEF ResolveUnary
<1> QED BY <1>4, <1>5

LEMMA ResolveSymbolHolds ==
  ASSUME EInv, ResolveSymbol
  PROVE  EInv'
<1>1. Resolving /\ Node.expr_op = "SYMBOL"
  BY DEF ResolveSymbol
<1>2. /\ Callee \in Pointer /\ ~Resolved(Callee) /\ Node = parsed[Callee]
  BY <1>1, CalleeShape
<1>3. CASE ~IsDefined(Node.symref)
  BY <1>3, StopHolds DEF ResolveSymbol
<1>4. CASE IsDefined(Node.symref)
  <2>1. PICK e \in Pointer : e = s_sym_table[Node.symref]
    BY <1>4 DEF IsDefined, EInv, ExprTypeOK
  <2>2. CASE Resolved(e)
    <3>1. Explained(parsed[Callee], Value(e))
      BY <1>1, <1>2, <1>4, <2>1, <2>2 DEF Explained, UnaryOp, BinaryOp
    <3>2. Return(Value(e))
      BY <1>4, <2>1, <2>2 DEF ResolveSymbol
    <3> QED BY <1>1, <1>2, <2>2, <3>1, <3>2, ValueRange, ReturnHolds
  <2>3. CASE ~Resolved(e)
    BY <1>4, <2>1, <2>3, CallHolds DEF ResolveSymbol
  <2> QED BY <2>2, <2>3
<1> QED BY <1>3, <1>4

LEMMA ResolveFirstHolds ==
  ASSUME EInv, ResolveFirst
  PROVE  EInv'
<1>1. Resolving /\ Node.expr_op \in BinaryOp /\ Call(Node.arg1)
  BY DEF ResolveFirst
<1>2. Node \in Expression /\ Arguments(Node) \subseteq Pointer
  BY <1>1, CalleeShape DEF BinaryOp
<1> QED BY <1>1, <1>2, NodeShape, CallHolds

LEMMA ShortCircuitHolds ==
  ASSUME EInv, ShortCircuit
  PROVE  EInv'
<1>1. Resolving /\ Node.expr_op \in BinaryOp /\ Resolved(Node.arg1)
      /\ Decides(Node.expr_op, Value(Node.arg1))
  BY DEF ShortCircuit
<1>2. PICK v : v = Truth(Value(Node.arg1) # 0)
  OBVIOUS
<1>3. v \in Word32
  BY <1>2, WordAssumption DEF Truth, Word32
<1>4. /\ ~Resolved(Callee) /\ Node = parsed[Callee]
  BY <1>1, CalleeShape DEF BinaryOp
<1>5. Explained(parsed[Callee], v)
  BY <1>1, <1>2, <1>4 DEF Explained, UnaryOp, BinaryOp
<1>6. Return(v)
  BY <1>2 DEF ShortCircuit
<1> QED BY <1>1, <1>3, <1>4, <1>5, <1>6, ReturnHolds

LEMMA ResolveSecondHolds ==
  ASSUME EInv, ResolveSecond
  PROVE  EInv'
<1>1. Resolving /\ Node.expr_op \in BinaryOp /\ Resolved(Node.arg1)
      /\ ~Decides(Node.expr_op, Value(Node.arg1))
  BY DEF ResolveSecond
<1>2. /\ ~Resolved(Callee) /\ Node \in Expression
      /\ Node = parsed[Callee] /\ Arguments(Node) \subseteq Pointer
  BY <1>1, CalleeShape DEF BinaryOp
<1>3. Node.arg1 \in Pointer /\ Node.arg2 \in Pointer
  BY <1>1, <1>2, NodeShape
<1>4. CASE ~Resolved(Node.arg2)
  BY <1>3, <1>4, CallHolds DEF ResolveSecond
<1>5. CASE Resolved(Node.arg2)
  <2>1. PICK a, b : a = Value(Node.arg1) /\ b = Value(Node.arg2)
    OBVIOUS
  <2>2. a \in Word32 /\ b \in Word32
    BY <1>1, <1>3, <1>5, <2>1, ValueRange
  <2>3. CASE Traps(Node.expr_op, a, b)
    BY <1>5, <2>1, <2>3, StopHolds DEF ResolveSecond
  <2>4. CASE ~Traps(Node.expr_op, a, b)
    <3>1. PICK v : v = Binary(Node.expr_op, a, b)
      OBVIOUS
    <3>2. v \in Word32
      BY <1>1, <2>2, <2>4, <3>1, BinaryRange
    <3>3. Explained(parsed[Callee], v)
      BY <1>1, <1>2, <1>5, <2>1, <2>4, <3>1 DEF Explained, UnaryOp, BinaryOp
    <3>4. Return(v)
      BY <1>5, <2>1, <2>4, <3>1 DEF ResolveSecond
    <3> QED BY <1>1, <1>2, <3>2, <3>3, <3>4, ReturnHolds
  <2> QED BY <2>3, <2>4
<1> QED BY <1>4, <1>5

\* A new definition: of a name that had none.
LEMMA DefineHolds ==
  ASSUME EInv, NEW s \in Name, NEW e \in Pointer, DefineSymbol(s, e)
  PROVE  EInv'
<1>1. CASE IsDefined(s)
  BY <1>1, StopHolds DEF DefineSymbol
<1>2. CASE ~IsDefined(s)
  <2>1. UNCHANGED <<asm, exprs, calls, parsed>> /\ Define(s, e)
    BY <1>2 DEF DefineSymbol
  <2>2. /\ DOMAIN s_sym_table' = DOMAIN s_sym_table \cup {s}
        /\ \A x \in DOMAIN s_sym_table' :
             s_sym_table'[x] = IF x = s THEN e ELSE s_sym_table[x]
    BY <2>1 DEF Define
  <2>3. Pointer' = Pointer
    BY <2>1 DEF Pointer
  <2>4. ExprTypeOK'
    BY <2>1, <2>2, <2>3 DEF EInv, ExprTypeOK
  <2>5. Keeps
    BY <1>2, <2>1, <2>2 DEF Keeps, IsDefined
  <2>6. AllExplained'
    <3>1. SUFFICES ASSUME NEW x \in Pointer
                   PROVE  (IF Resolved(x) THEN Explained(parsed[x], Value(x))
                           ELSE exprs[x] = parsed[x])'
      BY <2>3 DEF AllExplained
    <3>2. PICK n \in Expression : n = parsed[x] /\ Arguments(n) \subseteq Pointer
      BY DEF EInv, ExprTypeOK, Pointer
    <3>3. PICK w : w = Value(x)
      OBVIOUS
    <3>4. (Resolved(x)' <=> Resolved(x)) /\ Value(x)' = w
      BY <2>1, <3>3 DEF Resolved, Value
    <3>5. Resolved(x) => Explained(n, w)'
      BY <2>5, <3>2, <3>3, ExplainedKept DEF EInv, AllExplained, ExprTypeOK
    <3>6. ~Resolved(x) => exprs'[x] = parsed[x]
      BY <2>1 DEF EInv, AllExplained
    <3> QED BY <2>1, <3>2, <3>4, <3>5, <3>6
  <2> QED BY <2>4, <2>6 DEF EInv
<1> QED BY <1>1, <1>2

\* Every step preserves the inductive invariant.
LEMMA EStep ==
  ASSUME EInv, [NextExpressions \/ (Stopped /\ UNCHANGED exprVars)]_exprVars
  PROVE  EInv'
<1>1. CASE ResolveUnary
  BY <1>1, ResolveUnaryHolds
<1>2. CASE ResolveSymbol
  BY <1>2, ResolveSymbolHolds
<1>3. CASE ResolveFirst
  BY <1>3, ResolveFirstHolds
<1>4. CASE ShortCircuit
  BY <1>4, ShortCircuitHolds
<1>5. CASE ResolveSecond
  BY <1>5, ResolveSecondHolds
<1>6. CASE \E s \in Name, e \in Pointer : DefineSymbol(s, e)
  BY <1>6, DefineHolds
<1>7. CASE \E e \in Pointer : Request(e)
  BY <1>7, CallHolds DEF Request
<1>8. CASE UNCHANGED exprVars
  BY <1>8, PoolStays DEF exprVars, EInv, ExprTypeOK
<1> QED BY <1>1, <1>2, <1>3, <1>4, <1>5, <1>6, <1>7, <1>8 DEF NextExpressions, Resolve

-----------------------------------------------------------------------------
(***************************************************************************)
(* Induction, from the fact that < is well-founded on the natural numbers. *)
(* Sets stand for what holds of their members.                             *)
(***************************************************************************)

\* A set of natural numbers that is not empty has a least one.
LEMMA Least ==
  ASSUME NEW T, T \subseteq Nat, T # {}
  PROVE  \E n \in T : \A m \in T : n <= m
<1>1. PICK R : /\ IsWellFoundedOn(R, Nat)
               /\ \A m \in Nat, n \in Nat : <<m, n>> \in R <=> m < n
  <2>1. \A m \in Nat, n \in Nat : <<m, n>> \in OpToRel(<, Nat) <=> m < n
    BY DEF OpToRel
  <2> QED BY <2>1, NatLessThanWellFounded
<1>2. IsWellFoundedOn(R, Nat)
  BY <1>1
<1>3. PICK n \in T : \A m \in T : ~(<<m, n>> \in R)
  BY <1>2, WFMin, Zenon
<1>4. ASSUME NEW m \in T PROVE n <= m
  <2>1. n \in Nat /\ m \in Nat /\ ~(m < n)
    BY <1>1, <1>3
  <2> QED BY ONLY <2>1
<1> QED BY <1>4

\* Induction over the natural numbers, for the set where something holds.
LEMMA Inductive ==
  ASSUME NEW S, 0 \in S, \A n \in Nat : n \in S => n + 1 \in S
  PROVE  Nat \subseteq S
<1> SUFFICES ASSUME Nat \ S # {} PROVE FALSE
  OBVIOUS
<1>1. PICK n \in Nat \ S : \A m \in Nat \ S : n <= m
  BY Least
<1>2. n - 1 \in Nat /\ n - 1 \notin S
  BY <1>1
<1> QED BY <1>1, <1>2

\* What is repeated has a value after any number of times.
LEMMA Iterated ==
  ASSUME NEW M, NEW first \in M, NEW next \in [M -> M]
  PROVE  \E g \in [Nat -> M] : g[0] = first /\ \A n \in Nat : g[n + 1] = next[g[n]]
<1> DEFINE Upto(f, n) == /\ f \in [0 .. n -> M] /\ f[0] = first
                         /\ \A i \in 0 .. n - 1 : f[i + 1] = next[f[i]]
<1>1. \A n \in Nat : \E f : Upto(f, n)
  <2> DEFINE S == {n \in Nat : \E f : Upto(f, n)}
  <2>1. 0 \in S
    <3>1. Upto([i \in 0 .. 0 |-> first], 0)
      OBVIOUS
    <3> QED BY <3>1
  <2>2. ASSUME NEW n \in Nat, n \in S PROVE n + 1 \in S
    <3>1. PICK f : Upto(f, n)
      BY <2>2
    <3> DEFINE h == [i \in 0 .. n + 1 |-> IF i = n + 1 THEN next[f[n]] ELSE f[i]]
    <3>2. n \in 0 .. n /\ f[n] \in M /\ next[f[n]] \in M
      BY <3>1
    <3>3. h \in [0 .. n + 1 -> M] /\ h[0] = first
      BY <3>1, <3>2
    <3>4. ASSUME NEW i \in 0 .. (n + 1) - 1 PROVE h[i + 1] = next[h[i]]
      <4>1. CASE i = n
        BY <3>2, <4>1
      <4>2. CASE i # n
        <5>1. i \in 0 .. n - 1 /\ i + 1 \in 0 .. n
          BY <4>2
        <5> QED BY <3>1, <5>1
      <4> QED BY <4>1, <4>2
    <3>5. Upto(h, n + 1)
      <4> HIDE DEF h
      <4> QED BY <3>3, <3>4
    <3> HIDE DEF h
    <3> QED BY <3>5
  <2> HIDE DEF S
  <2>3. Nat \subseteq S
    BY <2>1, <2>2, Inductive
  <2> QED BY <2>3 DEF S
<1>2. ASSUME NEW f, NEW h, NEW m \in Nat, NEW n \in Nat, Upto(f, m), Upto(h, n)
      PROVE  \A i \in Nat : i <= m /\ i <= n => f[i] = h[i]
  <2> DEFINE S == {i \in Nat : i <= m /\ i <= n => f[i] = h[i]}
  <2>1. 0 \in S
    BY <1>2
  <2>2. ASSUME NEW i \in Nat, i \in S PROVE i + 1 \in S
    <3> SUFFICES ASSUME i + 1 <= m, i + 1 <= n PROVE f[i + 1] = h[i + 1]
      OBVIOUS
    <3>1. i \in 0 .. m - 1 /\ i \in 0 .. n - 1 /\ f[i] = h[i]
      BY <2>2
    <3> QED BY <1>2, <3>1
  <2> HIDE DEF S
  <2>3. Nat \subseteq S
    BY <2>1, <2>2, Inductive
  <2> QED BY <2>3 DEF S
<1> DEFINE F == [n \in Nat |-> CHOOSE f : Upto(f, n)]
           g == [n \in Nat |-> F[n][n]]
<1>3. \A n \in Nat : Upto(F[n], n)
  <2> HIDE DEF Upto
  <2> QED BY <1>1
<1> HIDE DEF F
<1>4. g \in [Nat -> M] /\ g[0] = first
  BY <1>3
<1>5. ASSUME NEW n \in Nat PROVE g[n + 1] = next[g[n]]
  <2>1. Upto(F[n], n) /\ Upto(F[n + 1], n + 1)
    BY <1>3
  <2>2. F[n][n] = F[n + 1][n]
    <3> HIDE DEF Upto
    <3>1. n + 1 \in Nat /\ n <= n /\ n <= n + 1
      OBVIOUS
    <3> QED BY <1>2, <2>1, <3>1
  <2>3. n \in 0 .. (n + 1) - 1 /\ n + 1 \in Nat
    OBVIOUS
  <2>4. F[n + 1][n + 1] = next[F[n + 1][n]]
    BY <2>1, <2>3
  <2> QED BY <2>2, <2>3, <2>4
<1> HIDE DEF g
<1> QED BY <1>4, <1>5
-----------------------------------------------------------------------------
(***************************************************************************)
(* What an expression means.  Meaning is defined by recursion over the     *)
(* depth; what a table of values for all expressions gives for the node n  *)
(* is Gives, so that Meaning is Gives, repeated.  The lemmas are about any *)
(* pool, table of symbols and function that is repeated in this way: they  *)
(* are needed for the present state and for the next one.                  *)
(***************************************************************************)
Answers == Word32 \cup {NoValue}

Gives(table, m, n) ==
  LET a == m[n.arg1]
      b == m[n.arg2]
  IN CASE n.expr_op = "NUMBER" -> n.number
       [] n.expr_op = "SYMBOL" ->
            IF n.symref \in DOMAIN table THEN m[table[n.symref]] ELSE NoValue
       [] n.expr_op \in UnaryOp ->
            IF a = NoValue THEN NoValue ELSE Unary(n.expr_op, a)
       [] n.expr_op \in BinaryOp ->
            CASE a = NoValue -> NoValue
              [] a # NoValue /\ Decides(n.expr_op, a) -> Truth(a # 0)
              [] OTHER -> IF b = NoValue \/ Traps(n.expr_op, a, b)
                          THEN NoValue ELSE Binary(n.expr_op, a, b)

\* Pointers and symbols lead into the pool.
Closed(pool, table) ==
  /\ pool \in Seq(Expression)
  /\ \A e \in 1 .. Len(pool) : Arguments(pool[e]) \subseteq 1 .. Len(pool)
  /\ \A s \in DOMAIN table : table[s] \in 1 .. Len(pool)

\* m has the values of all expressions down to each depth.
Deepens(pool, table, m) ==
  /\ m \in [Nat -> [1 .. Len(pool) -> Answers]]
  /\ \A e \in 1 .. Len(pool) : m[0][e] = NoValue
  /\ \A d \in Nat, e \in 1 .. Len(pool) : m[d + 1][e] = Gives(table, m[d], pool[e])

\* Where m has a value, l has the same.
Extends(E, m, l) == \A e \in E : m[e] # NoValue => l[e] = m[e]

\* No word stands for no value.
LEMMA NoValueApart == NoValue \notin Word32
  BY WordAssumption DEF NoValue, Word32

\* Gives, one kind of node after the other.
LEMMA GivesNode ==
  ASSUME NEW table, NEW m, NEW n \in Expression
  PROVE  /\ n.expr_op = "NUMBER" => Gives(table, m, n) = n.number
         /\ n.expr_op = "SYMBOL" =>
              Gives(table, m, n) =
                IF n.symref \in DOMAIN table THEN m[table[n.symref]] ELSE NoValue
         /\ n.expr_op \in UnaryOp =>
              Gives(table, m, n) =
                IF m[n.arg1] = NoValue THEN NoValue ELSE Unary(n.expr_op, m[n.arg1])
         /\ n.expr_op \in BinaryOp =>
              Gives(table, m, n) =
                IF m[n.arg1] = NoValue THEN NoValue
                ELSE IF Decides(n.expr_op, m[n.arg1]) THEN Truth(m[n.arg1] # 0)
                ELSE IF \/ m[n.arg2] = NoValue
                        \/ Traps(n.expr_op, m[n.arg1], m[n.arg2])
                     THEN NoValue ELSE Binary(n.expr_op, m[n.arg1], m[n.arg2])
<1>1. n.expr_op = "NUMBER" => Gives(table, m, n) = n.number
  BY DEF Gives, UnaryOp, BinaryOp
<1>2. n.expr_op = "SYMBOL" =>
        Gives(table, m, n) =
          IF n.symref \in DOMAIN table THEN m[table[n.symref]] ELSE NoValue
  BY DEF Gives, UnaryOp, BinaryOp
<1>3. n.expr_op \in UnaryOp =>
        Gives(table, m, n) =
          IF m[n.arg1] = NoValue THEN NoValue ELSE Unary(n.expr_op, m[n.arg1])
  BY DEF Gives, UnaryOp, BinaryOp
<1>4. n.expr_op \in BinaryOp =>
        Gives(table, m, n) =
          IF m[n.arg1] = NoValue THEN NoValue
          ELSE IF Decides(n.expr_op, m[n.arg1]) THEN Truth(m[n.arg1] # 0)
          ELSE IF \/ m[n.arg2] = NoValue
                  \/ Traps(n.expr_op, m[n.arg1], m[n.arg2])
               THEN NoValue ELSE Binary(n.expr_op, m[n.arg1], m[n.arg2])
  BY DEF Gives, UnaryOp, BinaryOp
<1> QED BY <1>1, <1>2, <1>3, <1>4

\* The kinds of nodes.
LEMMA NodeKinds ==
  ASSUME NEW n \in Expression
  PROVE  \/ n.expr_op = "NUMBER" \/ n.expr_op = "SYMBOL"
         \/ n.expr_op \in UnaryOp \/ n.expr_op \in BinaryOp
  BY DEF Expression

\* Gives gives words.
LEMMA GivesAnswer ==
  ASSUME NEW E, NEW table, \A s \in DOMAIN table : table[s] \in E,
         NEW m \in [E -> Answers], NEW n \in Expression, Arguments(n) \subseteq E
  PROVE  Gives(table, m, n) \in Answers
<1>1. CASE n.expr_op = "NUMBER"
  BY <1>1, GivesNode, NodeShape DEF Answers
<1>2. CASE n.expr_op = "SYMBOL"
  BY <1>2, GivesNode DEF Answers
<1>3. CASE n.expr_op \in UnaryOp
  <2>1. PICK a \in Answers : a = m[n.arg1]
    BY <1>3, NodeShape
  <2>2. a # NoValue => Unary(n.expr_op, a) \in Word32
    BY <1>3, UnaryRange DEF Answers
  <2> QED BY <1>3, <2>1, <2>2, GivesNode DEF Answers
<1>4. CASE n.expr_op \in BinaryOp
  <2>1. PICK a \in Answers, b \in Answers : a = m[n.arg1] /\ b = m[n.arg2]
    BY <1>4, NodeShape
  <2>2. a # NoValue /\ b # NoValue /\ ~Traps(n.expr_op, a, b) =>
          Binary(n.expr_op, a, b) \in Word32
    BY <1>4, BinaryRange DEF Answers
  <2>3. Truth(a # 0) \in Word32
    BY TruthRange
  <2> QED BY <1>4, <2>1, <2>2, <2>3, GivesNode DEF Answers
<1> QED BY <1>1, <1>2, <1>3, <1>4, NodeKinds

\* More values, and more symbols, keep what Gives gives.
LEMMA GivesMore ==
  ASSUME NEW E, NEW table, \A s \in DOMAIN table : table[s] \in E,
         NEW longer, \A s \in DOMAIN table : s \in DOMAIN longer /\ longer[s] = table[s],
         NEW m \in [E -> Answers], NEW l \in [E -> Answers], Extends(E, m, l),
         NEW n \in Expression, Arguments(n) \subseteq E,
         Gives(table, m, n) # NoValue
  PROVE  Gives(longer, l, n) = Gives(table, m, n)
<1>1. CASE n.expr_op = "NUMBER"
  BY <1>1, GivesNode
<1>2. CASE n.expr_op = "SYMBOL"
  <2>1. n.symref \in DOMAIN table /\ m[table[n.symref]] # NoValue
    BY <1>2, GivesNode
  <2>2. l[table[n.symref]] = m[table[n.symref]]
    BY <2>1 DEF Extends
  <2>3. n.symref \in DOMAIN longer /\ longer[n.symref] = table[n.symref]
    BY <2>1
  <2> QED BY <1>2, <2>1, <2>2, <2>3, GivesNode
<1>3. CASE n.expr_op \in UnaryOp
  <2>1. n.arg1 \in E /\ m[n.arg1] # NoValue
    BY <1>3, NodeShape, GivesNode
  <2>2. l[n.arg1] = m[n.arg1]
    BY <2>1 DEF Extends
  <2> QED BY <1>3, <2>1, <2>2, GivesNode
<1>4. CASE n.expr_op \in BinaryOp
  <2>1. n.arg1 \in E /\ n.arg2 \in E /\ m[n.arg1] # NoValue
    BY <1>4, NodeShape, GivesNode
  <2>2. l[n.arg1] = m[n.arg1]
    BY <2>1 DEF Extends
  <2>3. CASE Decides(n.expr_op, m[n.arg1])
    BY <1>4, <2>1, <2>2, <2>3, GivesNode
  <2>4. CASE ~Decides(n.expr_op, m[n.arg1])
    <3>1. m[n.arg2] # NoValue
      BY <1>4, <2>1, <2>4, GivesNode
    <3>2. l[n.arg2] = m[n.arg2]
      BY <2>1, <3>1 DEF Extends
    <3> QED BY <1>4, <2>1, <2>2, <2>4, <3>1, <3>2, GivesNode
  <2> QED BY <2>3, <2>4
<1> QED BY <1>1, <1>2, <1>3, <1>4, NodeKinds

\* More symbols keep the values down to every depth.
LEMMA DeepensMore ==
  ASSUME NEW pool, NEW table, NEW m, Closed(pool, table), Deepens(pool, table, m),
         NEW longer, NEW l, Closed(pool, longer), Deepens(pool, longer, l),
         \A s \in DOMAIN table : s \in DOMAIN longer /\ longer[s] = table[s]
  PROVE  \A d \in Nat : Extends(1 .. Len(pool), m[d], l[d])
<1> DEFINE E == 1 .. Len(pool)
           S == {d \in Nat : Extends(E, m[d], l[d])}
<1>1. 0 \in S
  BY DEF Extends, Deepens
<1>2. ASSUME NEW d \in Nat, d \in S PROVE d + 1 \in S
  <2> SUFFICES ASSUME NEW e \in E, m[d + 1][e] # NoValue PROVE l[d + 1][e] = m[d + 1][e]
    BY DEF Extends
  <2>1. /\ m[d + 1][e] = Gives(table, m[d], pool[e])
        /\ l[d + 1][e] = Gives(longer, l[d], pool[e])
        /\ m[d] \in [E -> Answers] /\ l[d] \in [E -> Answers]
    BY DEF Deepens
  <2>2. pool[e] \in Expression /\ Arguments(pool[e]) \subseteq E
    BY DEF Closed
  <2>3. Extends(E, m[d], l[d]) /\ \A s \in DOMAIN table : table[s] \in E
    BY <1>2 DEF Closed
  <2> HIDE DEF E
  <2> QED BY <2>1, <2>2, <2>3, GivesMore
<1> HIDE DEF S
<1>3. Nat \subseteq S
  BY <1>1, <1>2, Inductive
<1> QED BY <1>3 DEF S

\* Nor is a value lost further down.
LEMMA Deeper ==
  ASSUME NEW pool, NEW table, NEW m, Closed(pool, table), Deepens(pool, table, m)
  PROVE  \A d \in Nat : Extends(1 .. Len(pool), m[d], m[d + 1])
<1> DEFINE E == 1 .. Len(pool)
           S == {d \in Nat : Extends(E, m[d], m[d + 1])}
<1>1. 0 \in S
  BY DEF Extends, Deepens
<1>2. ASSUME NEW d \in Nat, d \in S PROVE d + 1 \in S
  <2> SUFFICES ASSUME NEW e \in E, m[d + 1][e] # NoValue
               PROVE  m[(d + 1) + 1][e] = m[d + 1][e]
    BY DEF Extends
  <2>0. d + 1 \in Nat
    OBVIOUS
  <2>1. /\ m[d + 1][e] = Gives(table, m[d], pool[e])
        /\ m[(d + 1) + 1][e] = Gives(table, m[d + 1], pool[e])
        /\ m[d] \in [E -> Answers] /\ m[d + 1] \in [E -> Answers]
    BY <2>0 DEF Deepens
  <2>2. pool[e] \in Expression /\ Arguments(pool[e]) \subseteq E
    BY DEF Closed
  <2>3. Extends(E, m[d], m[d + 1]) /\ \A s \in DOMAIN table : table[s] \in E
    BY <1>2 DEF Closed
  <2> HIDE DEF E
  <2> QED BY <2>1, <2>2, <2>3, GivesMore
<1> HIDE DEF S
<1>3. Nat \subseteq S
  BY <1>1, <1>2, Inductive
<1> QED BY <1>3 DEF S

\* Nor anywhere further down.
LEMMA MuchDeeper ==
  ASSUME NEW pool, NEW table, NEW m, Closed(pool, table), Deepens(pool, table, m),
         NEW c \in Nat
  PROVE  \A d \in Nat : Extends(1 .. Len(pool), m[c], m[c + d])
<1> DEFINE E == 1 .. Len(pool)
           S == {d \in Nat : Extends(E, m[c], m[c + d])}
<1>1. 0 \in S
  BY DEF Extends
<1>2. ASSUME NEW d \in Nat, d \in S PROVE d + 1 \in S
  <2>1. Extends(E, m[c], m[c + d])
    BY <1>2
  <2>2. PICK k \in Nat : k = c + d /\ c + (d + 1) = k + 1
    OBVIOUS
  <2>3. Extends(E, m[k], m[k + 1])
    BY Deeper
  <2>4. Extends(E, m[c], m[k + 1])
    BY <2>1, <2>2, <2>3 DEF Extends
  <2> QED BY <2>2, <2>4
<1> HIDE DEF S
<1>3. Nat \subseteq S
  BY <1>1, <1>2, Inductive
<1> QED BY <1>3 DEF S

\* What a repetition does not change, no further one does.
LEMMA Settled ==
  ASSUME NEW pool, NEW table, NEW m, Closed(pool, table), Deepens(pool, table, m),
         NEW d \in Nat, m[d + 1] = m[d]
  PROVE  m[(d + 1) + 1] = m[d + 1]
<1>1. d + 1 \in Nat /\ (d + 1) + 1 \in Nat
  OBVIOUS
<1>2. m[d + 1] \in [1 .. Len(pool) -> Answers] /\ m[(d + 1) + 1] \in [1 .. Len(pool) -> Answers]
  BY <1>1 DEF Deepens
<1>3. ASSUME NEW e \in 1 .. Len(pool) PROVE m[(d + 1) + 1][e] = m[d + 1][e]
  BY <1>1 DEF Deepens
<1> QED BY <1>2, <1>3

\* As many repetitions as there are expressions are enough: each one up to the
\* last that changes something gives a value to one more expression.
LEMMA FixPoint ==
  ASSUME NEW pool, NEW table, NEW m, Closed(pool, table), Deepens(pool, table, m)
  PROVE  m[Len(pool) + 1] = m[Len(pool)]
<1> DEFINE E == 1 .. Len(pool)
           Valued == [d \in Nat |-> {e \in E : m[d][e] # NoValue}]
           S == {d \in Nat : Cardinality(Valued[d]) >= d \/ m[d + 1] = m[d]}
<1>1. Len(pool) \in Nat /\ IsFiniteSet(E) /\ Cardinality(E) = Len(pool)
  <2>1. Len(pool) \in Nat
    BY DEF Closed
  <2>2. PICK n \in Nat : n = Len(pool)
    BY <2>1
  <2>3. IsFiniteSet(1 .. n) /\ Cardinality(1 .. n) = IF 1 > n THEN 0 ELSE (n - 1) + 1
    BY FS_Interval
  <2>4. (IF 1 > n THEN 0 ELSE (n - 1) + 1) = n
    BY ONLY n \in Nat
  <2> QED BY <2>1, <2>2, <2>3, <2>4, Zenon
<1>2. ASSUME NEW d \in Nat
      PROVE  /\ Valued[d] \subseteq E /\ IsFiniteSet(Valued[d])
             /\ Cardinality(Valued[d]) \in Nat /\ Cardinality(Valued[d]) <= Len(pool)
             /\ Valued[d] \subseteq Valued[d + 1]
             /\ Valued[d] = Valued[d + 1] => m[d + 1] = m[d]
             /\ Cardinality(Valued[d]) = Len(pool) => Valued[d] = E
  <2>1. Valued[d] \subseteq E
    OBVIOUS
  <2>2. Extends(E, m[d], m[d + 1]) /\ d + 1 \in Nat
    BY Deeper
  <2>3. Valued[d] \subseteq Valued[d + 1]
    BY <2>2 DEF Extends
  <2>4. ASSUME Valued[d] = Valued[d + 1] PROVE m[d + 1] = m[d]
    <3>1. m[d] \in [E -> Answers] /\ m[d + 1] \in [E -> Answers]
      BY <2>2 DEF Deepens
    <3>2. ASSUME NEW e \in E PROVE m[d + 1][e] = m[d][e]
      <4>1. e \in Valued[d] <=> e \in Valued[d + 1]
        BY <2>4
      <4>2. m[d][e] # NoValue <=> m[d + 1][e] # NoValue
        BY <2>2, <4>1
      <4> QED BY <2>2, <4>2 DEF Extends
    <3> QED BY <3>1, <3>2
  <2> HIDE DEF Valued, E
  <2>5. /\ IsFiniteSet(Valued[d]) /\ Cardinality(Valued[d]) <= Cardinality(E)
        /\ Cardinality(Valued[d]) = Cardinality(E) => Valued[d] = E
    BY <1>1, <2>1, FS_Subset
  <2>6. Cardinality(Valued[d]) \in Nat
    BY <2>5, FS_CardinalityType
  <2> QED BY <1>1, <2>1, <2>3, <2>4, <2>5, <2>6
<1>3. 0 \in S
  <2>1. Cardinality(Valued[0]) \in Nat
    BY <1>2
  <2> QED BY <2>1
<1>4. ASSUME NEW d \in Nat, d \in S PROVE d + 1 \in S
  <2>1. d + 1 \in Nat
    OBVIOUS
  <2>2. CASE m[d + 1] = m[d]
    <3>1. m[(d + 1) + 1] = m[d + 1]
      BY <2>2, Settled
    <3> QED BY <2>1, <3>1
  <2>3. CASE m[d + 1] # m[d]
    <3> HIDE DEF Valued
    <3>1. Valued[d] # Valued[d + 1] /\ Valued[d] \subseteq Valued[d + 1]
      BY <1>2, <2>3
    <3>2. IsFiniteSet(Valued[d + 1])
      BY <1>2, <2>1
    <3>3. /\ Cardinality(Valued[d]) <= Cardinality(Valued[d + 1])
          /\ Cardinality(Valued[d]) # Cardinality(Valued[d + 1])
      BY <3>1, <3>2, FS_Subset
    <3>4. Cardinality(Valued[d]) >= d
      BY <1>4, <2>3
    <3>5. Cardinality(Valued[d]) \in Nat /\ Cardinality(Valued[d + 1]) \in Nat
      BY <1>2, <2>1
    <3>6. Cardinality(Valued[d + 1]) >= d + 1
      BY <3>3, <3>4, <3>5
    <3> QED BY <2>1, <3>6
  <2> QED BY <2>2, <2>3
<1> HIDE DEF Valued, S
<1>5. Nat \subseteq S
  BY <1>3, <1>4, Inductive
<1>6. Len(pool) \in S
  BY <1>1, <1>5
<1>7. CASE m[Len(pool) + 1] # m[Len(pool)]
  <2>1. Cardinality(Valued[Len(pool)]) >= Len(pool)
    BY <1>6, <1>7 DEF S
  <2>2. Valued[Len(pool)] = E
    BY <1>1, <1>2, <2>1
  <2>3. Valued[Len(pool)] \subseteq Valued[Len(pool) + 1] /\ Valued[Len(pool) + 1] \subseteq E
    <3>1. Len(pool) + 1 \in Nat
      BY <1>1
    <3> QED BY <1>1, <1>2, <3>1
  <2>4. Valued[Len(pool)] = Valued[Len(pool) + 1]
    BY <2>2, <2>3
  <2> QED BY <1>1, <1>2, <2>4
<1> QED BY <1>7

\* Meaning is what Gives gives, repeated.
LEMMA MeaningDeepens ==
  ASSUME EInv
  PROVE  Closed(parsed, s_sym_table) /\ Deepens(parsed, s_sym_table, Meaning)
<1> DEFINE Body(g, depth) ==
             IF depth = 0 THEN [e \in Pointer |-> NoValue]
             ELSE LET below == g[depth - 1]
                  IN [e \in Pointer |->
                        LET n == parsed[e]
                            a == below[n.arg1]
                            b == below[n.arg2]
                        IN CASE n.expr_op = "NUMBER" -> n.number
                             [] n.expr_op = "SYMBOL" ->
                                  IF IsDefined(n.symref)
                                  THEN below[s_sym_table[n.symref]] ELSE NoValue
                             [] n.expr_op \in UnaryOp ->
                                  IF a = NoValue THEN NoValue ELSE Unary(n.expr_op, a)
                             [] n.expr_op \in BinaryOp ->
                                  CASE a = NoValue           -> NoValue
                                    [] a # NoValue /\ Decides(n.expr_op, a) ->
                                         Truth(a # 0)
                                    [] OTHER ->
                                         IF b = NoValue \/ Traps(n.expr_op, a, b)
                                         THEN NoValue ELSE Binary(n.expr_op, a, b)]
<1>1. Meaning = CHOOSE g : g = [depth \in Nat |-> Body(g, depth)]
  BY Zenon DEF Meaning
<1>2. ASSUME NEW g, NEW depth
      PROVE  Body(g, depth) = IF depth = 0 THEN [e \in Pointer |-> NoValue]
                              ELSE [e \in Pointer |->
                                      Gives(s_sym_table, g[depth - 1], parsed[e])]
  BY Zenon DEF Gives, IsDefined
<1>3. PICK pool, table : pool = parsed /\ table = s_sym_table
  OBVIOUS
<1>4. Closed(pool, table) /\ Pointer = 1 .. Len(pool)
  BY <1>3 DEF Closed, EInv, ExprTypeOK, Pointer
<1> HIDE DEF Body
<1> DEFINE E == 1 .. Len(pool)
           M == [E -> Answers]
           first == [e \in E |-> NoValue]
           next == [m \in M |-> [e \in E |-> Gives(table, m, pool[e])]]
<1>5. first \in M
  BY DEF Answers
<1>6. next \in [M -> M]
  <2> SUFFICES ASSUME NEW m \in [E -> Answers], NEW e \in E
               PROVE  Gives(table, m, pool[e]) \in Answers
    OBVIOUS
  <2>1. pool[e] \in Expression /\ Arguments(pool[e]) \subseteq E
    BY <1>4 DEF Closed
  <2>2. \A s \in DOMAIN table : table[s] \in E
    BY <1>4 DEF Closed
  <2> HIDE DEF E
  <2> QED BY <2>1, <2>2, GivesAnswer
<1>7. PICK m \in [Nat -> M] : m[0] = first /\ \A d \in Nat : m[d + 1] = next[m[d]]
  <2> HIDE DEF M, first, next
  <2> QED BY <1>5, <1>6, Iterated
<1>8. ASSUME NEW d \in Nat PROVE m[d + 1] = [e \in E |-> Gives(table, m[d], pool[e])]
  <2>1. m[d] \in M
    BY <1>7
  <2> HIDE DEF M
  <2> QED BY <1>7, <2>1
<1>9. m = [depth \in Nat |-> Body(m, depth)]
  <2>1. ASSUME NEW depth \in Nat PROVE m[depth] = Body(m, depth)
    <3>1. CASE depth = 0
      BY <1>2, <1>4, <1>7, <3>1
    <3>2. CASE depth # 0
      <4>1. PICK d \in Nat : depth = d + 1 /\ depth - 1 = d
        BY <3>2
      <4>2. m[depth] = [e \in E |-> Gives(table, m[d], pool[e])]
        BY <1>8, <4>1
      <4>3. Body(m, depth) = [e \in Pointer |-> Gives(s_sym_table, m[d], parsed[e])]
        BY <1>2, <3>2, <4>1
      <4> QED BY <1>3, <1>4, <4>2, <4>3
    <3> QED BY <3>1, <3>2
  <2> QED BY <1>7, <2>1
<1>10. Meaning = [depth \in Nat |-> Body(Meaning, depth)]
  BY <1>1, <1>9, Zenon
<1> DEFINE S == {d \in Nat : Meaning[d] = m[d]}
<1>11. 0 \in S
  BY <1>2, <1>9, <1>10
<1>12. ASSUME NEW d \in Nat, d \in S PROVE d + 1 \in S
  <2>1. d + 1 \in Nat /\ d + 1 # 0 /\ (d + 1) - 1 = d
    OBVIOUS
  <2>2. Body(Meaning, d + 1) = Body(m, d + 1)
    BY <1>2, <1>12, <2>1
  <2> QED BY <1>9, <1>10, <2>1, <2>2
<1>13. Nat \subseteq S
  <2> HIDE DEF S
  <2> QED BY <1>11, <1>12, Inductive
<1>14. Meaning = m
  <2>1. \A d \in Nat : Meaning[d] = m[d]
    BY <1>13
  <2> QED BY <1>9, <1>10, <2>1
<1>15. Deepens(pool, table, m)
  <2>1. \A e \in E : m[0][e] = NoValue
    BY <1>7
  <2>2. \A d \in Nat, e \in E : m[d + 1][e] = Gives(table, m[d], pool[e])
    BY <1>8
  <2> QED BY <1>7, <2>1, <2>2 DEF Deepens
<1> QED BY <1>3, <1>4, <1>14, <1>15

\* Meaning depends on what was parsed and on the symbols only.
LEMMA MeaningStays ==
  ASSUME Pointer' = Pointer, parsed' = parsed, s_sym_table' = s_sym_table
  PROVE  Meaning' = Meaning
<1> DEFINE Repeated(D, pool, table) ==
             CHOOSE g : g = [depth \in Nat |->
               IF depth = 0 THEN [e \in D |-> NoValue]
               ELSE LET below == g[depth - 1]
                    IN [e \in D |->
                          LET n == pool[e]
                              a == below[n.arg1]
                              b == below[n.arg2]
                          IN CASE n.expr_op = "NUMBER" -> n.number
                               [] n.expr_op = "SYMBOL" ->
                                    IF n.symref \in DOMAIN table
                                    THEN below[table[n.symref]] ELSE NoValue
                               [] n.expr_op \in UnaryOp ->
                                    IF a = NoValue THEN NoValue ELSE Unary(n.expr_op, a)
                               [] n.expr_op \in BinaryOp ->
                                    CASE a = NoValue           -> NoValue
                                      [] a # NoValue /\ Decides(n.expr_op, a) ->
                                           Truth(a # 0)
                                      [] OTHER ->
                                           IF b = NoValue \/ Traps(n.expr_op, a, b)
                                           THEN NoValue ELSE Binary(n.expr_op, a, b)]]
<1>1. Meaning = Repeated(Pointer, parsed, s_sym_table)
  BY Zenon DEF Meaning, IsDefined
<1>2. Meaning' = Repeated(Pointer', parsed', s_sym_table')
  BY Zenon DEF Meaning, IsDefined
<1> HIDE DEF Repeated
<1> QED BY <1>1, <1>2

\* The full meaning of an expression is what those of its arguments give.
LEMMA FullMeaningFixed ==
  ASSUME EInv
  PROVE  /\ FullMeaning \in [Pointer -> Answers]
         /\ \A e \in Pointer : FullMeaning[e] = Gives(s_sym_table, FullMeaning, parsed[e])
<1>1. PICK pool, table, m : /\ pool = parsed /\ table = s_sym_table /\ m = Meaning
                            /\ Closed(pool, table) /\ Deepens(pool, table, m)
  BY MeaningDeepens
<1>2. Len(pool) \in Nat /\ Pointer = 1 .. Len(pool)
  BY <1>1 DEF Closed, EInv, ExprTypeOK, Pointer
<1>3. FullMeaning = m[Len(pool)]
  BY <1>1 DEF FullMeaning
<1>4. m[Len(pool)] \in [1 .. Len(pool) -> Answers]
  BY <1>1, <1>2 DEF Deepens
<1>5. ASSUME NEW e \in 1 .. Len(pool)
      PROVE  m[Len(pool)][e] = Gives(table, m[Len(pool)], pool[e])
  <2>1. m[Len(pool) + 1][e] = Gives(table, m[Len(pool)], pool[e])
    BY <1>1, <1>2 DEF Deepens
  <2> QED BY <1>1, <2>1, FixPoint
<1> QED BY <1>1, <1>2, <1>3, <1>4, <1>5

\* An explained number is what the meanings of the arguments give, if their
\* numbers are their meanings.
LEMMA ExplainedMeans ==
  ASSUME EInv, ValuesAreMeanings, NEW e \in Pointer, NEW v, Explained(parsed[e], v)
  PROVE  FullMeaning[e] = v
<1>1. PICK m : m = FullMeaning
  OBVIOUS
<1>2. \A x \in Pointer : Resolved(x) => Value(x) = m[x] /\ m[x] \in Word32
  BY <1>1, ValueRange DEF ValuesAreMeanings
<1>3. PICK n \in Expression : n = parsed[e] /\ Arguments(n) \subseteq Pointer
  BY DEF EInv, ExprTypeOK, Pointer
<1>4. m[e] = Gives(s_sym_table, m, n)
  BY <1>1, <1>3, FullMeaningFixed
<1>5. CASE n.expr_op = "NUMBER"
  BY <1>1, <1>3, <1>4, <1>5, GivesNode DEF Explained, UnaryOp, BinaryOp
<1>6. CASE n.expr_op = "SYMBOL"
  <2>1. /\ n.symref \in DOMAIN s_sym_table
        /\ Resolved(s_sym_table[n.symref]) /\ v = Value(s_sym_table[n.symref])
    BY <1>3, <1>6 DEF Explained, UnaryOp, BinaryOp, IsDefined
  <2>2. s_sym_table[n.symref] \in Pointer
    BY <2>1 DEF EInv, ExprTypeOK
  <2>3. v = m[s_sym_table[n.symref]]
    BY <1>2, <2>1, <2>2
  <2>4. m[e] = m[s_sym_table[n.symref]]
    BY <1>4, <1>6, <2>1, GivesNode
  <2> QED BY <1>1, <2>3, <2>4
<1>7. CASE n.expr_op \in UnaryOp
  <2>1. Resolved(n.arg1) /\ v = Unary(n.expr_op, Value(n.arg1))
    BY <1>3, <1>7 DEF Explained, UnaryOp, BinaryOp
  <2>2. n.arg1 \in Pointer
    BY <1>3, <1>7, NodeShape
  <2>3. Value(n.arg1) = m[n.arg1] /\ m[n.arg1] # NoValue
    BY <1>2, <2>1, <2>2, NoValueApart
  <2>4. m[e] = Unary(n.expr_op, m[n.arg1])
    BY <1>4, <1>7, <2>3, GivesNode
  <2> QED BY <1>1, <2>1, <2>3, <2>4
<1>8. CASE n.expr_op \in BinaryOp
  <2>1. /\ Resolved(n.arg1)
        /\ IF Decides(n.expr_op, Value(n.arg1))
           THEN v = Truth(Value(n.arg1) # 0)
           ELSE /\ Resolved(n.arg2)
                /\ ~Traps(n.expr_op, Value(n.arg1), Value(n.arg2))
                /\ v = Binary(n.expr_op, Value(n.arg1), Value(n.arg2))
    BY <1>3, <1>8 DEF Explained, UnaryOp, BinaryOp
  <2>2. n.arg1 \in Pointer /\ n.arg2 \in Pointer
    BY <1>3, <1>8, NodeShape
  <2>3. Value(n.arg1) = m[n.arg1] /\ m[n.arg1] # NoValue
    BY <1>2, <2>1, <2>2, NoValueApart
  <2>4. Resolved(n.arg2) => Value(n.arg2) = m[n.arg2] /\ m[n.arg2] # NoValue
    BY <1>2, <2>2, NoValueApart
  <2>5. CASE Decides(n.expr_op, m[n.arg1])
    <3>1. m[e] = Truth(m[n.arg1] # 0)
      BY <1>4, <1>8, <2>3, <2>5, GivesNode
    <3>2. v = Truth(m[n.arg1] # 0)
      BY <2>1, <2>3, <2>5
    <3> QED BY <1>1, <3>1, <3>2
  <2>6. CASE ~Decides(n.expr_op, m[n.arg1])
    <3>1. /\ m[n.arg2] # NoValue /\ ~Traps(n.expr_op, m[n.arg1], m[n.arg2])
          /\ v = Binary(n.expr_op, m[n.arg1], m[n.arg2])
      BY <2>1, <2>3, <2>4, <2>6
    <3>2. m[e] = Binary(n.expr_op, m[n.arg1], m[n.arg2])
      BY <1>4, <1>8, <2>3, <2>6, <3>1, GivesNode
    <3> QED BY <1>1, <3>1, <3>2
  <2> QED BY <2>5, <2>6
<1> QED BY <1>3, <1>5, <1>6, <1>7, <1>8, NodeKinds

\* What stays, or is defined, keeps what every expression means.
LEMMA MeaningKept ==
  ASSUME EInv, Closed(parsed', s_sym_table'), Deepens(parsed', s_sym_table', Meaning'),
         parsed' = parsed,
         \A s \in DOMAIN s_sym_table :
           s \in DOMAIN s_sym_table' /\ s_sym_table'[s] = s_sym_table[s]
  PROVE  \A e \in Pointer : FullMeaning[e] # NoValue => FullMeaning'[e] = FullMeaning[e]
<1>1. PICK pool, table, m, longer, l :
        /\ pool = parsed /\ table = s_sym_table /\ m = Meaning
        /\ longer = s_sym_table' /\ l = Meaning'
        /\ Closed(pool, table) /\ Deepens(pool, table, m)
        /\ Closed(pool, longer) /\ Deepens(pool, longer, l)
  BY MeaningDeepens
<1>2. Len(pool) \in Nat /\ Pointer = 1 .. Len(pool)
  BY <1>1 DEF Closed, EInv, ExprTypeOK, Pointer
<1>3. FullMeaning = m[Len(pool)] /\ FullMeaning' = l[Len(pool)]
  BY <1>1 DEF FullMeaning
<1>4. \A s \in DOMAIN table : s \in DOMAIN longer /\ longer[s] = table[s]
  BY <1>1
<1>5. Extends(1 .. Len(pool), m[Len(pool)], l[Len(pool)])
  BY <1>1, <1>2, <1>4, DeepensMore
<1> QED BY <1>2, <1>3, <1>5 DEF Extends

\* The same for the state after a step.
LEMMA MeaningDeepensNext ==
  EInv' => (Closed(parsed, s_sym_table) /\ Deepens(parsed, s_sym_table, Meaning))'
<1>1. EInv => Closed(parsed, s_sym_table) /\ Deepens(parsed, s_sym_table, Meaning)
  BY MeaningDeepens
<1> QED BY <1>1, PTL

\* Without a value down to depth d for f there is none down to d + 1 for e.
Needs(m, e, f) == \A d \in Nat : m[d + 1][e] # NoValue => m[d][f] # NoValue

\* Each call was made for an expression that the one before needs.
CallsNeeded ==
  \A n \in 1 .. Len(calls) - 1 : Needs(Meaning, calls[n], calls[n + 1])

\* A call of resolve_expr2 returns what explains its expression, calls for what
\* it needs, or stops at an expression that means nothing.
Outcome ==
  \/ \E v \in Word32 : Return(v) /\ Explained(parsed[Callee], v)
  \/ \E e \in Pointer : Call(e) /\ Needs(Meaning, Callee, e)
  \/ \E how \in {"failed", "crashed"} : Stop(how) /\ FullMeaning[Callee] = NoValue

\* Down to any depth an expression means what its arguments, one level less deep,
\* give, and nothing else in full.
LEMMA NodeMeans ==
  ASSUME EInv, NEW e \in Pointer
  PROVE  /\ \A d \in Nat : Meaning[d + 1][e] = Gives(s_sym_table, Meaning[d], parsed[e])
         /\ \A d \in Nat : Meaning[d][e] # NoValue => Meaning[d][e] = FullMeaning[e]
<1>1. PICK pool, table, m : /\ pool = parsed /\ table = s_sym_table /\ m = Meaning
                            /\ Closed(pool, table) /\ Deepens(pool, table, m)
  BY MeaningDeepens
<1>2. Len(pool) \in Nat /\ e \in 1 .. Len(pool)
  BY <1>1 DEF Closed, EInv, ExprTypeOK, Pointer
<1>3. \A d \in Nat : m[d + 1][e] = Gives(table, m[d], pool[e])
  BY <1>1, <1>2 DEF Deepens
<1>4. FullMeaning = m[Len(pool)]
  BY <1>1 DEF FullMeaning
<1>5. ASSUME NEW d \in Nat, m[d][e] # NoValue PROVE m[d][e] = m[Len(pool)][e]
  <2>1. CASE d <= Len(pool)
    <3>1. PICK k \in Nat : Len(pool) = d + k
      <4>1. Len(pool) - d \in Nat /\ Len(pool) = d + (Len(pool) - d)
        BY <1>2, <2>1
      <4> QED BY <4>1
    <3>2. Extends(1 .. Len(pool), m[d], m[d + k])
      BY <1>1, MuchDeeper
    <3> QED BY <1>2, <1>5, <3>1, <3>2 DEF Extends
  <2>2. CASE d > Len(pool)
    <3> DEFINE S == {k \in Nat : m[Len(pool) + k] = m[Len(pool)] /\
                                 m[Len(pool) + k + 1] = m[Len(pool)]}
    <3>1. 0 \in S
      <4>1. Len(pool) + 0 = Len(pool) /\ Len(pool) + 0 + 1 = Len(pool) + 1
        BY <1>2
      <4> QED BY <1>1, <4>1, FixPoint
    <3>2. ASSUME NEW k \in Nat, k \in S PROVE k + 1 \in S
      <4>1. PICK n \in Nat : /\ n = Len(pool) + k /\ n + 1 = Len(pool) + (k + 1)
                             /\ (n + 1) + 1 = Len(pool) + (k + 1) + 1
                             /\ n + 1 = Len(pool) + k + 1
        BY <1>2
      <4>2. m[n] = m[Len(pool)] /\ m[n + 1] = m[Len(pool)]
        BY <3>2, <4>1
      <4>3. m[(n + 1) + 1] = m[n + 1]
        BY <1>1, <4>2, Settled
      <4> QED BY <4>1, <4>2, <4>3
    <3> HIDE DEF S
    <3>3. Nat \subseteq S
      BY <3>1, <3>2, Inductive
    <3>4. d - Len(pool) \in S /\ d = Len(pool) + (d - Len(pool))
      BY <1>2, <2>2, <3>3
    <3> QED BY <3>4 DEF S
  <2> QED BY <1>2, <2>1, <2>2
<1> QED BY <1>1, <1>3, <1>4, <1>5

\* The same for the node of the innermost call, and what it can tell already.
LEMMA CalleeMeans ==
  ASSUME EInv, ValuesAreMeanings, Resolving, Node.expr_op # "NUMBER"
  PROVE  /\ Callee \in Pointer /\ Node \in Expression /\ Node = parsed[Callee]
         /\ \A d \in Nat : Meaning[d + 1][Callee] = Gives(s_sym_table, Meaning[d], Node)
         /\ FullMeaning[Callee] = Gives(s_sym_table, FullMeaning, Node)
         /\ \A e \in Pointer : Resolved(e) => /\ Value(e) = FullMeaning[e]
                                              /\ FullMeaning[e] # NoValue
<1>1. Callee \in Pointer /\ Node \in Expression /\ Node = parsed[Callee]
  BY CalleeShape
<1>2. PICK c \in Pointer : c = Callee
  BY <1>1
<1>3. /\ \A d \in Nat : Meaning[d + 1][c] = Gives(s_sym_table, Meaning[d], parsed[c])
      /\ FullMeaning[c] = Gives(s_sym_table, FullMeaning, parsed[c])
  BY NodeMeans, FullMeaningFixed
<1>4. \A e \in Pointer : Resolved(e) => Value(e) = FullMeaning[e] /\ FullMeaning[e] # NoValue
  BY ValueRange, NoValueApart DEF ValuesAreMeanings
<1> QED BY <1>1, <1>2, <1>3, <1>4

\* The step of a unary operator.
LEMMA UnaryOutcome ==
  ASSUME EInv, ValuesAreMeanings, ResolveUnary
  PROVE  Outcome
<1>1. Resolving /\ Node.expr_op \in UnaryOp
  BY DEF ResolveUnary
<1>2. /\ Callee \in Pointer /\ ~Resolved(Callee) /\ Node \in Expression
      /\ Node = parsed[Callee] /\ Arguments(Node) \subseteq Pointer
  BY <1>1, CalleeShape DEF UnaryOp
<1>3. Node.arg1 \in Pointer
  BY <1>1, <1>2, NodeShape
<1>4. CASE Resolved(Node.arg1)
  <2>1. PICK v : v = Unary(Node.expr_op, Value(Node.arg1))
    OBVIOUS
  <2>2. v \in Word32
    BY <1>1, <1>3, <1>4, <2>1, ValueRange, UnaryRange
  <2>3. Explained(parsed[Callee], v)
    BY <1>1, <1>2, <1>4, <2>1 DEF Explained, UnaryOp, BinaryOp
  <2>4. Return(v)
    BY <1>4, <2>1 DEF ResolveUnary
  <2> QED BY <2>2, <2>3, <2>4 DEF Outcome
<1>5. CASE ~Resolved(Node.arg1)
  <2>1. PICK n \in Expression : n = Node
    BY <1>2
  <2>2. \A d \in Nat : Meaning[d + 1][Callee] = Gives(s_sym_table, Meaning[d], n)
    BY <1>1, <2>1, CalleeMeans DEF UnaryOp
  <2>3. ASSUME NEW d \in Nat, Meaning[d + 1][Callee] # NoValue
        PROVE  Meaning[d][n.arg1] # NoValue
    BY <1>1, <2>1, <2>2, <2>3, GivesNode
  <2>4. Call(n.arg1) /\ n.arg1 \in Pointer
    BY <1>3, <1>5, <2>1 DEF ResolveUnary
  <2> QED BY <2>3, <2>4 DEF Outcome, Needs
<1> QED BY <1>4, <1>5

\* The step of a symbol.
LEMMA SymbolOutcome ==
  ASSUME EInv, ValuesAreMeanings, ResolveSymbol
  PROVE  Outcome
<1>1. Resolving /\ Node.expr_op = "SYMBOL"
  BY DEF ResolveSymbol
<1>2. PICK n \in Expression :
        /\ n = Node /\ n = parsed[Callee] /\ n.expr_op = "SYMBOL"
        /\ \A d \in Nat : Meaning[d + 1][Callee] = Gives(s_sym_table, Meaning[d], n)
        /\ FullMeaning[Callee] = Gives(s_sym_table, FullMeaning, n)
  BY <1>1, CalleeMeans
<1>3. CASE ~IsDefined(n.symref)
  <2>1. FullMeaning[Callee] = NoValue
    BY <1>2, <1>3, GivesNode DEF IsDefined
  <2>2. Stop("failed")
    BY <1>2, <1>3 DEF ResolveSymbol
  <2> QED BY <2>1, <2>2 DEF Outcome
<1>4. CASE IsDefined(n.symref)
  <2>1. PICK e \in Pointer : e = s_sym_table[n.symref]
    BY <1>4 DEF IsDefined, EInv, ExprTypeOK
  <2>2. CASE Resolved(e)
    <3>1. Explained(parsed[Callee], Value(e))
      BY <1>2, <1>4, <2>1, <2>2 DEF Explained, UnaryOp, BinaryOp
    <3>2. Return(Value(e)) /\ Value(e) \in Word32
      BY <1>2, <1>4, <2>1, <2>2, ValueRange DEF ResolveSymbol
    <3> QED BY <3>1, <3>2 DEF Outcome
  <2>3. CASE ~Resolved(e)
    <3>1. Call(e)
      BY <1>2, <1>4, <2>1, <2>3 DEF ResolveSymbol
    <3>2. ASSUME NEW d \in Nat, Meaning[d + 1][Callee] # NoValue
          PROVE  Meaning[d][e] # NoValue
      BY <1>2, <1>4, <2>1, <3>2, GivesNode DEF IsDefined
    <3> QED BY <3>1, <3>2 DEF Outcome, Needs
  <2> QED BY <2>2, <2>3
<1> QED BY <1>3, <1>4

\* The steps of a binary operator.
LEMMA BinaryOutcome ==
  ASSUME EInv, ValuesAreMeanings, ResolveFirst \/ ShortCircuit \/ ResolveSecond
  PROVE  Outcome
<1>1. Resolving /\ Node.expr_op \in BinaryOp
  BY DEF ResolveFirst, ShortCircuit, ResolveSecond
<1>2. PICK n \in Expression :
        /\ n = Node /\ n = parsed[Callee] /\ n.expr_op \in BinaryOp
        /\ Arguments(n) \subseteq Pointer
        /\ \A d \in Nat : Meaning[d + 1][Callee] = Gives(s_sym_table, Meaning[d], n)
        /\ FullMeaning[Callee] = Gives(s_sym_table, FullMeaning, n)
  BY <1>1, CalleeMeans, CalleeShape DEF BinaryOp
<1>3. n.arg1 \in Pointer /\ n.arg2 \in Pointer
  BY <1>2, NodeShape
<1>4. PICK c \in Pointer : c = Callee
  BY <1>1, CalleeShape DEF BinaryOp
<1>5. CASE ~Resolved(n.arg1)
  <2>1. Call(n.arg1)
    BY <1>2, <1>5 DEF ResolveFirst, ShortCircuit, ResolveSecond
  <2>2. ASSUME NEW d \in Nat, Meaning[d + 1][Callee] # NoValue
        PROVE  Meaning[d][n.arg1] # NoValue
    BY <1>2, <2>2, GivesNode
  <2> QED BY <1>3, <2>1, <2>2 DEF Outcome, Needs
<1>6. CASE Resolved(n.arg1)
  <2>1. PICK a \in Word32 : a = Value(n.arg1) /\ a = FullMeaning[n.arg1] /\ a # NoValue
    BY <1>3, <1>6, ValueRange, NoValueApart DEF ValuesAreMeanings
  <2>2. CASE Decides(n.expr_op, a)
    <3>1. PICK v : v = Truth(a # 0)
      OBVIOUS
    <3>2. v \in Word32
      BY <3>1, WordAssumption DEF Truth, Word32
    <3>3. Explained(parsed[Callee], v)
      BY <1>2, <1>6, <2>1, <2>2, <3>1 DEF Explained, UnaryOp, BinaryOp
    <3>4. Return(v)
      BY <1>2, <1>6, <2>1, <2>2, <3>1 DEF ResolveFirst, ShortCircuit, ResolveSecond
    <3> QED BY <3>2, <3>3, <3>4 DEF Outcome
  <2>3. CASE ~Decides(n.expr_op, a)
    <3>1. ResolveSecond
      BY <1>2, <1>6, <2>1, <2>3 DEF ResolveFirst, ShortCircuit
    <3>2. CASE ~Resolved(n.arg2)
      <4>1. Call(n.arg2)
        BY <1>2, <3>1, <3>2 DEF ResolveSecond
      <4>2. ASSUME NEW d \in Nat, Meaning[d + 1][Callee] # NoValue
            PROVE  Meaning[d][n.arg2] # NoValue
        <5>1. Meaning[d][n.arg1] # NoValue
          BY <1>2, <4>2, GivesNode
        <5>2. Meaning[d][n.arg1] = a
          BY <1>3, <2>1, <5>1, NodeMeans
        <5> QED BY <1>2, <2>3, <4>2, <5>2, GivesNode
      <4> QED BY <1>3, <4>1, <4>2 DEF Outcome, Needs
    <3>3. CASE Resolved(n.arg2)
      <4>1. PICK b \in Word32 : b = Value(n.arg2) /\ b = FullMeaning[n.arg2] /\ b # NoValue
        BY <1>3, <3>3, ValueRange, NoValueApart DEF ValuesAreMeanings
      <4>2. CASE Traps(n.expr_op, a, b)
        <5>1. FullMeaning[Callee] = NoValue
          BY <1>2, <2>1, <2>3, <4>1, <4>2, GivesNode
        <5>2. Stop("crashed")
          BY <1>2, <2>1, <3>1, <3>3, <4>1, <4>2 DEF ResolveSecond
        <5> QED BY <5>1, <5>2 DEF Outcome
      <4>3. CASE ~Traps(n.expr_op, a, b)
        <5>1. PICK v : v = Binary(n.expr_op, a, b)
          OBVIOUS
        <5>2. v \in Word32
          BY <1>2, <4>3, <5>1, BinaryRange
        <5>3. Explained(parsed[Callee], v)
          BY <1>2, <1>6, <2>1, <2>3, <3>3, <4>1, <4>3, <5>1
             DEF Explained, UnaryOp, BinaryOp
        <5>4. Return(v)
          BY <1>2, <2>1, <3>1, <3>3, <4>1, <4>3, <5>1 DEF ResolveSecond
        <5> QED BY <5>2, <5>3, <5>4 DEF Outcome
      <4> QED BY <4>2, <4>3
    <3> QED BY <3>2, <3>3
  <2> QED BY <2>2, <2>3
<1> QED BY <1>5, <1>6

\* All the steps of resolve_expr2.
LEMMA ResolveOutcome == EInv /\ ValuesAreMeanings /\ Resolve => Outcome
  BY UnaryOutcome, SymbolOutcome, BinaryOutcome DEF Resolve

\* At the start every number is that of the expression as created.
LEMMA ValuesInit ==
  ASSUME InitExpressions
  PROVE  ValuesAreMeanings
<1>1. EInv
  BY EInit
<1>2. PICK m : m = FullMeaning
  OBVIOUS
<1>3. ASSUME NEW e \in Pointer, Resolved(e) PROVE Value(e) = m[e]
  <2>1. PICK n \in Expression : n = parsed[e] /\ n = exprs[e]
    BY <1>1 DEF EInv, ExprTypeOK, Pointer, InitExpressions
  <2>2. n.expr_op = "NUMBER" /\ Value(e) = n.number
    BY <1>3, <2>1 DEF Resolved, Value
  <2>3. m[e] = Gives(s_sym_table, m, n)
    BY <1>1, <1>2, <2>1, FullMeaningFixed
  <2> QED BY <2>2, <2>3, GivesNode
<1> QED BY <1>2, <1>3 DEF ValuesAreMeanings

\* Numbers are words in the state after a step, too.
LEMMA ValueRangeNext ==
  EInv' => (\A e \in Pointer : Resolved(e) => Value(e) \in Word32)'
<1>1. EInv => \A e \in Pointer : Resolved(e) => Value(e) \in Word32
  BY ValueRange
<1> QED BY <1>1, PTL

\* A step that keeps what was parsed and the definitions, and gives only numbers
\* that are meanings, keeps all numbers so.
LEMMA ValuesKept ==
  ASSUME EInv, EInv', parsed' = parsed, Pointer' = Pointer,
         \A s \in DOMAIN s_sym_table :
           s \in DOMAIN s_sym_table' /\ s_sym_table'[s] = s_sym_table[s],
         \A e \in Pointer : Resolved(e)' => FullMeaning[e] = Value(e)'
  PROVE  ValuesAreMeanings'
<1>1. Closed(parsed', s_sym_table') /\ Deepens(parsed', s_sym_table', Meaning')
  BY MeaningDeepensNext
<1>2. \A e \in Pointer : FullMeaning[e] # NoValue => FullMeaning'[e] = FullMeaning[e]
  BY <1>1, MeaningKept
<1>3. \A e \in Pointer : Resolved(e)' => Value(e)' \in Word32
  BY ValueRangeNext
<1>4. ASSUME NEW e \in Pointer, Resolved(e)' PROVE Value(e)' = FullMeaning'[e]
  BY <1>2, <1>3, <1>4, NoValueApart
<1> QED BY <1>4 DEF ValuesAreMeanings

\* Calls that grow by one for what the last of them needs, or shrink, still are
\* each for what the one before needs.
LEMMA CallsKept ==
  ASSUME EInv, CallsNeeded, Meaning' = Meaning, NEW n \in Nat, n <= Len(calls),
         \/ calls' = SubSeq(calls, 1, n)
         \/ \E e \in Pointer : /\ calls' = Append(calls, e)
                               /\ calls # <<>> => Needs(Meaning, Callee, e)
  PROVE  CallsNeeded'
<1> DEFINE Chain(m, c) == \A i \in 1 .. Len(c) - 1 : Needs(m, c[i], c[i + 1])
<1>1. PICK m, c : m = Meaning /\ c = calls /\ c \in Seq(Pointer)
  BY DEF EInv, ExprTypeOK
<1>2. Chain(m, c)
  BY <1>1 DEF CallsNeeded
<1>3. ASSUME calls' = SubSeq(c, 1, n) PROVE Chain(m, calls')
  <2>1. Len(SubSeq(c, 1, n)) = n /\ \A i \in 1 .. n : SubSeq(c, 1, n)[i] = c[i]
    BY <1>1
  <2>2. ASSUME NEW i \in 1 .. n - 1
        PROVE  Needs(m, SubSeq(c, 1, n)[i], SubSeq(c, 1, n)[i + 1])
    <3>1. i \in 1 .. Len(c) - 1 /\ i \in 1 .. n /\ i + 1 \in 1 .. n
      BY <1>1, <2>2
    <3>2. SubSeq(c, 1, n)[i] = c[i] /\ SubSeq(c, 1, n)[i + 1] = c[i + 1]
      BY <2>1, <3>1
    <3>3. Needs(m, c[i], c[i + 1])
      BY <1>2, <3>1
    <3> QED BY <3>2, <3>3
  <2> QED BY <1>3, <2>1, <2>2
<1>4. ASSUME NEW e \in Pointer, calls' = Append(c, e), c # <<>> => Needs(m, c[Len(c)], e)
      PROVE  Chain(m, calls')
  <2>1. PICK l \in Nat : l = Len(c)
    BY <1>1
  <2>2. Len(Append(c, e)) = l + 1 /\ Append(c, e)[l + 1] = e
        /\ \A i \in 1 .. l : Append(c, e)[i] = c[i]
    BY <1>1, <2>1
  <2>3. ASSUME NEW i \in 1 .. l PROVE Needs(m, Append(c, e)[i], Append(c, e)[i + 1])
    <3>1. CASE i = l
      BY <1>1, <1>4, <2>1, <2>2, <2>3, <3>1
    <3>2. CASE i # l
      <4>1. i \in 1 .. Len(c) - 1 /\ i + 1 \in 1 .. l
        BY <2>1, <2>3, <3>2
      <4>2. Append(c, e)[i] = c[i] /\ Append(c, e)[i + 1] = c[i + 1]
        BY <2>2, <2>3, <4>1
      <4>3. Needs(m, c[i], c[i + 1])
        BY <1>2, <4>1
      <4> QED BY <4>2, <4>3
    <3> QED BY <3>1, <3>2
  <2> QED BY <1>4, <2>2, <2>3
<1>5. Chain(m, calls')
  BY <1>1, <1>3, <1>4 DEF Callee
<1>6. CallsNeeded' <=> Chain(Meaning', calls')
  BY DEF CallsNeeded
<1> QED BY <1>1, <1>5, <1>6

\* A chain of needs from an expression with a value is no longer than the pool,
\* and ends at one with a value.
LEMMA ChainEnds ==
  ASSUME NEW pool, NEW table, NEW m, Closed(pool, table), Deepens(pool, table, m),
         NEW c \in Seq(1 .. Len(pool)), c # <<>>,
         \A i \in 1 .. Len(c) - 1 : Needs(m, c[i], c[i + 1]),
         m[Len(pool)][c[1]] # NoValue
  PROVE  Len(c) <= Len(pool) /\ m[Len(pool)][c[Len(c)]] # NoValue
<1>1. PICK N \in Nat : N = Len(pool)
  BY DEF Closed
<1>2. PICK l \in Nat : l = Len(c) /\ l >= 1
  OBVIOUS
<1>3. \A i \in 1 .. l : c[i] \in 1 .. N
  BY <1>1, <1>2
<1> DEFINE S == {k \in Nat : k < l => k < N /\ m[N - k][c[k + 1]] # NoValue}
<1>4. \A e \in 1 .. N : m[0][e] = NoValue
  BY <1>1 DEF Deepens
<1>5. 0 \in S
  <2>1. N # 0
    BY <1>2, <1>3
  <2> QED BY <1>1, <2>1
<1>6. ASSUME NEW k \in Nat, k \in S PROVE k + 1 \in S
  <2>1. SUFFICES ASSUME k + 1 < l PROVE k + 1 < N /\ m[N - (k + 1)][c[(k + 1) + 1]] # NoValue
    OBVIOUS
  <2>2. k < N /\ m[N - k][c[k + 1]] # NoValue
    BY <1>2, <1>6, <2>1
  <2>3. PICK d \in Nat : d = N - (k + 1) /\ d + 1 = N - k
    <3>1. k < N
      BY <2>2
    <3>2. N - (k + 1) \in Nat /\ (N - (k + 1)) + 1 = N - k
      BY ONLY <1>1, <3>1, k \in Nat
    <3> QED BY <3>2
  <2>4. k + 1 \in 1 .. l - 1 /\ (k + 1) + 1 \in 1 .. l
    BY ONLY <1>2, <2>1, k \in Nat
  <2>5. k + 1 \in 1 .. Len(c) - 1 /\ c[(k + 1) + 1] \in 1 .. N
    BY <1>2, <1>3, <2>4, Zenon
  <2>6. m[d][c[(k + 1) + 1]] # NoValue
    BY <2>2, <2>3, <2>5 DEF Needs
  <2>7. d # 0
    BY <1>4, <2>5, <2>6
  <2> QED BY <1>1, <2>3, <2>6, <2>7
<1> HIDE DEF S
<1>7. Nat \subseteq S
  BY <1>5, <1>6, Inductive
<1>8. PICK k \in Nat : k + 1 = l
  <2>1. l - 1 \in Nat /\ (l - 1) + 1 = l
    BY ONLY <1>2
  <2> QED BY <2>1
<1>9. k < N /\ m[N - k][c[l]] # NoValue
  <2>1. k < l
    BY ONLY <1>2, <1>8
  <2> QED BY <1>7, <1>8, <2>1 DEF S
<1>10. PICK d \in Nat : d = N - k /\ d + k = N
  <2>1. k < N
    BY <1>9
  <2>2. N - k \in Nat /\ (N - k) + k = N
    BY ONLY <1>1, <1>8, <2>1
  <2> QED BY <2>2
<1>11. Extends(1 .. Len(pool), m[d], m[d + k])
  BY MuchDeeper
<1>12. c[l] \in 1 .. N
  BY <1>2, <1>3
<1>13. m[N][c[l]] # NoValue
  BY <1>1, <1>9, <1>10, <1>11, <1>12 DEF Extends
<1> QED BY <1>1, <1>2, <1>8, <1>9, <1>13

\* So the calls for an expression that means something are no more than there
\* are expressions, and the last of them is for one that means something.
LEMMA CallsEnd ==
  ASSUME EInv, NEW c \in Seq(Pointer), c # <<>>,
         \A i \in 1 .. Len(c) - 1 : Needs(Meaning, c[i], c[i + 1]),
         FullMeaning[c[1]] # NoValue
  PROVE  Len(c) <= Len(parsed) /\ FullMeaning[c[Len(c)]] # NoValue
<1>1. PICK pool, table, m : /\ pool = parsed /\ table = s_sym_table /\ m = Meaning
                            /\ Closed(pool, table) /\ Deepens(pool, table, m)
  BY MeaningDeepens
<1>2. Pointer = 1 .. Len(pool) /\ FullMeaning = m[Len(pool)]
  BY <1>1 DEF EInv, ExprTypeOK, Pointer, FullMeaning
<1> QED BY <1>1, <1>2, ChainEnds

\* What resolve_expr2 returns, or calls for, keeps all numbers the meanings of
\* their expressions, and its calls those for what is needed.
LEMMA ReturnMeans ==
  ASSUME EInv, ValuesAreMeanings, CallsNeeded, Resolving, ~Resolved(Callee),
         NEW v \in Word32, Explained(parsed[Callee], v), Return(v)
  PROVE  ValuesAreMeanings' /\ CallsNeeded'
<1>1. EInv'
  BY ReturnHolds
<1>2. Callee \in Pointer
  BY DEF EInv, ExprTypeOK, Resolving, Callee
<1>3. PICK c \in Pointer : c = Callee
  BY <1>2
<1>4. /\ exprs' = [exprs EXCEPT ![c] = Number(v)]
      /\ calls' = SubSeq(calls, 1, Len(calls) - 1)
      /\ s_sym_table' = s_sym_table /\ parsed' = parsed
  BY <1>3 DEF Return
<1>5. exprs \in Seq(Expression) /\ Pointer = DOMAIN exprs
  BY DEF EInv, ExprTypeOK, Pointer
<1>6. Pointer' = Pointer
  BY <1>4, <1>5 DEF Pointer
<1>7. PICK m : m = FullMeaning
  OBVIOUS
<1>8. m[c] = v
  BY <1>3, <1>7, ExplainedMeans
<1>9. ASSUME NEW e \in Pointer, Resolved(e)' PROVE m[e] = Value(e)'
  <2>1. CASE e = c
    BY <1>4, <1>5, <1>8, <2>1 DEF Value, Number
  <2>2. CASE e # c
    <3>1. exprs'[e] = exprs[e]
      BY <1>4, <1>5, <2>2
    <3>2. Resolved(e) /\ Value(e)' = Value(e)
      BY <1>9, <3>1 DEF Resolved, Value
    <3> QED BY <1>7, <3>2 DEF ValuesAreMeanings
  <2> QED BY <2>1, <2>2
<1>10. ValuesAreMeanings'
  BY <1>1, <1>4, <1>6, <1>7, <1>9, ValuesKept
<1>11. Meaning' = Meaning
  BY <1>4, <1>6, MeaningStays
<1>12. Len(calls) - 1 \in Nat /\ Len(calls) - 1 <= Len(calls)
  BY DEF EInv, ExprTypeOK, Resolving
<1>13. CallsNeeded'
  BY <1>4, <1>11, <1>12, CallsKept
<1> QED BY <1>10, <1>13

\* What leaves the pool, what was parsed and the definitions alone.
LEMMA StayMeans ==
  ASSUME EInv, EInv', ValuesAreMeanings, UNCHANGED <<exprs, s_sym_table, parsed>>
  PROVE  ValuesAreMeanings' /\ Meaning' = Meaning /\ FullMeaning' = FullMeaning
<1>1. Pointer' = Pointer
  BY DEF Pointer
<1>2. Meaning' = Meaning
  BY <1>1, MeaningStays
<1>3. FullMeaning' = FullMeaning
  BY <1>2 DEF FullMeaning
<1>4. \A e \in Pointer : (Resolved(e)' <=> Resolved(e)) /\ Value(e)' = Value(e)
  BY DEF Resolved, Value
<1>5. ValuesAreMeanings'
  BY <1>1, <1>3, <1>4 DEF ValuesAreMeanings
<1> QED BY <1>2, <1>3, <1>5

\* So does a call for what is needed, or for what the parser asks for.
LEMMA CallMeans ==
  ASSUME EInv, ValuesAreMeanings, CallsNeeded, NEW e \in Pointer, Call(e),
         calls # <<>> => Needs(Meaning, Callee, e)
  PROVE  ValuesAreMeanings' /\ CallsNeeded'
<1>1. EInv'
  BY CallHolds
<1>2. UNCHANGED <<exprs, s_sym_table, parsed>>
  BY DEF Call
<1>3. ValuesAreMeanings' /\ Meaning' = Meaning
  BY <1>1, <1>2, StayMeans
<1>4. calls \in Seq(Pointer) /\ Len(calls) \in Nat
  BY DEF EInv, ExprTypeOK
<1>5. calls' = Append(calls, e) \/ calls' = SubSeq(calls, 1, Len(calls))
  BY <1>4 DEF Call
<1>6. CallsNeeded'
  BY <1>3, <1>4, <1>5, CallsKept
<1> QED BY <1>3, <1>6

\* And so does a stop.
LEMMA StopMeans ==
  ASSUME EInv, ValuesAreMeanings, CallsNeeded,
         NEW how \in {"failed", "crashed"}, Stop(how)
  PROVE  ValuesAreMeanings' /\ CallsNeeded' /\ FullMeaning' = FullMeaning
<1>1. EInv'
  BY StopHolds
<1>2. UNCHANGED <<exprs, s_sym_table, parsed>> /\ calls' = calls
  BY DEF Stop
<1>3. ValuesAreMeanings' /\ Meaning' = Meaning /\ FullMeaning' = FullMeaning
  BY <1>1, <1>2, StayMeans
<1>4. CallsNeeded'
  BY <1>2, <1>3 DEF CallsNeeded
<1> QED BY <1>3, <1>4

\* A new definition gives meaning to more, and changes none.
LEMMA DefineMeans ==
  ASSUME EInv, ValuesAreMeanings, CallsNeeded, NEW s \in Name, NEW e \in Pointer,
         DefineSymbol(s, e)
  PROVE  ValuesAreMeanings' /\ CallsNeeded'
<1>1. EInv'
  BY DefineHolds
<1>2. CASE IsDefined(s)
  BY <1>2, StopMeans DEF DefineSymbol
<1>3. CASE ~IsDefined(s)
  <2>1. UNCHANGED <<asm, exprs, calls, parsed>> /\ Define(s, e) /\ calls = <<>>
    BY <1>3 DEF DefineSymbol
  <2>2. \A x \in DOMAIN s_sym_table :
          x \in DOMAIN s_sym_table' /\ s_sym_table'[x] = s_sym_table[x]
    BY <1>3, <2>1 DEF Define, IsDefined
  <2>3. Pointer' = Pointer
    BY <2>1 DEF Pointer
  <2>4. \A x \in Pointer : Resolved(x)' => Resolved(x) /\ Value(x)' = Value(x)
    BY <2>1 DEF Resolved, Value
  <2>5. PICK m : m = FullMeaning
    OBVIOUS
  <2>6. \A x \in Pointer : Resolved(x)' => m[x] = Value(x)'
    BY <2>4, <2>5 DEF ValuesAreMeanings
  <2>7. ValuesAreMeanings'
    BY <1>1, <2>1, <2>2, <2>3, <2>5, <2>6, ValuesKept
  <2>8. Len(calls') = 0
    BY <2>1
  <2>9. CallsNeeded'
    BY <2>8 DEF CallsNeeded
  <2> QED BY <2>7, <2>9
<1> QED BY <1>2, <1>3

(***************************************************************************)
(* The inductive invariant of the meanings: the calls are a chain of needs *)
(* from the expression that was asked for.                                 *)
(***************************************************************************)
MInv == EInv /\ ValuesAreMeanings /\ CallsNeeded

\* Only an expression that is not a number yet is worked on.
LEMMA CalleeOpen == EInv /\ Resolve => Resolving /\ ~Resolved(Callee)
  BY CalleeShape DEF Resolve, ResolveUnary, ResolveSymbol, ResolveFirst, ShortCircuit,
                     ResolveSecond, UnaryOp, BinaryOp

\* Every step preserves it.
LEMMA MStep ==
  ASSUME MInv, [NextExpressions \/ (Stopped /\ UNCHANGED exprVars)]_exprVars
  PROVE  MInv'
<1>1. EInv /\ ValuesAreMeanings /\ CallsNeeded
  BY DEF MInv
<1>2. EInv'
  BY <1>1, EStep
<1>3. CASE Resolve
  <2>1. Outcome /\ Resolving /\ ~Resolved(Callee)
    BY <1>1, <1>3, ResolveOutcome, CalleeOpen
  <2>2. CASE \E v \in Word32 : Return(v) /\ Explained(parsed[Callee], v)
    BY <1>1, <1>2, <2>1, <2>2, ReturnMeans DEF MInv
  <2>3. CASE \E e \in Pointer : Call(e) /\ Needs(Meaning, Callee, e)
    BY <1>1, <1>2, <2>3, CallMeans DEF MInv
  <2>4. CASE \E how \in {"failed", "crashed"} : Stop(how) /\ FullMeaning[Callee] = NoValue
    BY <1>1, <1>2, <2>4, StopMeans DEF MInv
  <2> QED BY <2>1, <2>2, <2>3, <2>4 DEF Outcome
<1>4. CASE \E s \in Name, e \in Pointer : DefineSymbol(s, e)
  BY <1>1, <1>2, <1>4, DefineMeans DEF MInv
<1>5. CASE \E e \in Pointer : Request(e)
  BY <1>1, <1>2, <1>5, CallMeans DEF MInv, Request
<1>6. CASE UNCHANGED exprVars
  <2>1. ValuesAreMeanings' /\ Meaning' = Meaning /\ calls' = calls
    BY <1>1, <1>2, <1>6, StayMeans DEF exprVars
  <2>2. CallsNeeded'
    BY <1>1, <2>1 DEF CallsNeeded
  <2> QED BY <1>2, <2>1, <2>2 DEF MInv
<1> QED BY <1>3, <1>4, <1>5, <1>6 DEF NextExpressions

\* At the start nothing is called for.
LEMMA MInit == InitExpressions => MInv
<1> SUFFICES ASSUME InitExpressions PROVE MInv
  OBVIOUS
<1>1. Len(calls) = 0
  BY DEF InitExpressions
<1>2. CallsNeeded
  BY <1>1 DEF CallsNeeded
<1> QED BY <1>2, EInit, ValuesInit DEF MInv

(***************************************************************************)
(* With room for a call for every expression, the assembler stops only     *)
(* over one that means nothing.                                            *)
(***************************************************************************)
FInv == MInv /\ FailsForNoValue /\ Len(parsed) <= MAX_DEPTH

\* Every step preserves that, too: a stop for a call that means nothing is one
\* for the first of the calls, and more calls than expressions mean nothing.
LEMMA FStep ==
  ASSUME FInv, [NextExpressions \/ (Stopped /\ UNCHANGED exprVars)]_exprVars
  PROVE  FInv'
<1>1. MInv /\ MInv' /\ EInv /\ EInv' /\ FailsForNoValue /\ Len(parsed) <= MAX_DEPTH
      /\ ValuesAreMeanings /\ CallsNeeded
  BY MStep DEF FInv, MInv
<1>2. parsed' = parsed
  BY DEF exprVars, NextExpressions, Resolve, ResolveUnary, ResolveSymbol, ResolveFirst,
         ShortCircuit, ResolveSecond, DefineSymbol, Request, Return, Call, Stop
<1>3. CASE UNCHANGED exprVars
  <2>1. FullMeaning' = FullMeaning /\ calls' = calls /\ asm' = asm
    BY <1>1, <1>3, StayMeans DEF exprVars
  <2>2. FailsForNoValue'
    BY <1>1, <2>1 DEF FailsForNoValue, Stopped
  <2> QED BY <1>1, <1>2, <2>2 DEF FInv
<1>4. CASE ~Stopped' \/ calls' = <<>>
  <2>1. FailsForNoValue'
    BY <1>4 DEF FailsForNoValue
  <2> QED BY <1>1, <1>2, <2>1 DEF FInv
<1>5. ASSUME Stopped', calls' # <<>>, ~UNCHANGED exprVars PROVE FailsForNoValue'
  <2>1. ~Stopped /\ NextExpressions
    BY <1>5 DEF Stopped, NextExpressions, Resolve, ResolveUnary, ResolveSymbol,
                ResolveFirst, ShortCircuit, ResolveSecond, Resolving, DefineSymbol, Request
  <2>2. CASE Resolve
    <3>1. Outcome /\ Resolving
      BY <1>1, <2>2, ResolveOutcome, CalleeOpen
    <3>2. calls \in Seq(Pointer) /\ calls # <<>> /\ Len(calls) \in Nat
      BY <1>1, <3>1 DEF EInv, ExprTypeOK, Resolving
    <3>3. \A i \in 1 .. Len(calls) - 1 : Needs(Meaning, calls[i], calls[i + 1])
      BY <1>1 DEF CallsNeeded
    <3>4. CASE \E v \in Word32 : Return(v) /\ Explained(parsed[Callee], v)
      BY <1>5, <2>1, <3>4 DEF Return, Stopped
    <3>5. ASSUME NEW e \in Pointer, Call(e), Needs(Meaning, Callee, e)
          PROVE  FailsForNoValue'
      <4>1. Len(calls) >= MAX_DEPTH /\ calls' = calls
            /\ UNCHANGED <<exprs, s_sym_table, parsed>>
        BY <1>5, <2>1, <3>2, <3>5, DepthAssumption DEF Call, Stopped
      <4>2. FullMeaning' = FullMeaning
        BY <1>1, <4>1, StayMeans
      <4>3. PICK m, c, l : /\ m = Meaning /\ c = Append(calls, e)
                           /\ l = Len(calls) /\ l \in Nat
        BY <3>2
      <4>4. /\ c \in Seq(Pointer) /\ c # <<>> /\ Len(c) = l + 1
            /\ c[l + 1] = e /\ \A i \in 1 .. l : c[i] = calls[i]
        BY <3>2, <4>3
      <4>5. ASSUME NEW i \in 1 .. l PROVE Needs(m, c[i], c[i + 1])
        <5>1. CASE i = l
          <6>1. c[l] = Callee /\ c[l + 1] = e
            BY <4>3, <4>4, <4>5, <5>1 DEF Callee
          <6> QED BY <3>5, <4>3, <5>1, <6>1
        <5>2. CASE i # l
          <6>1. i \in 1 .. l - 1 /\ i + 1 \in 1 .. l
            BY ONLY <4>3, <4>5, <5>2
          <6>2. c[i] = calls[i] /\ c[i + 1] = calls[i + 1]
            BY <4>4, <4>5, <6>1
          <6> QED BY <3>3, <4>3, <6>1, <6>2
        <5> QED BY <5>1, <5>2
      <4>6. Len(c) - 1 = l /\ l >= 1 /\ c[1] = calls[1]
        <5>1. l >= 1
          BY <3>2, <4>3
        <5> QED BY <4>3, <4>4, <5>1
      <4>7. PICK d \in Nat, k \in Nat : d = MAX_DEPTH /\ k = Len(parsed)
        BY <1>1, DepthAssumption DEF EInv, ExprTypeOK
      <4>8. ~(Len(c) <= Len(parsed))
        <5>1. Len(c) = l + 1 /\ l >= d /\ k <= d
          BY <1>1, <4>1, <4>3, <4>4, <4>7
        <5>2. ~(l + 1 <= k)
          BY ONLY <4>3, <4>7, <5>1
        <5> QED BY <4>7, <5>1, <5>2
      <4>9. FullMeaning[c[1]] = NoValue
        BY <1>1, <4>3, <4>4, <4>5, <4>6, <4>8, CallsEnd
      <4> QED BY <4>1, <4>2, <4>6, <4>9 DEF FailsForNoValue
    <3>6. ASSUME NEW how \in {"failed", "crashed"}, Stop(how), FullMeaning[Callee] = NoValue
          PROVE  FailsForNoValue'
      <4>1. FullMeaning' = FullMeaning /\ calls' = calls
        BY <1>1, <3>6, StopMeans DEF Stop
      <4>2. FullMeaning[calls[1]] = NoValue
        BY <1>1, <3>2, <3>3, <3>6, CallsEnd DEF Callee
      <4> QED BY <4>1, <4>2 DEF FailsForNoValue
    <3> QED BY <3>1, <3>4, <3>5, <3>6 DEF Outcome
  <2>3. CASE \E s \in Name, e \in Pointer : DefineSymbol(s, e)
    BY <1>5, <2>3 DEF DefineSymbol, Stop
  <2>4. CASE \E e \in Pointer : Request(e)
    <3>1. Len(calls) = 0 /\ 0 < MAX_DEPTH
      BY <2>4, DepthAssumption DEF Request
    <3> QED BY <1>5, <2>1, <2>4, <3>1 DEF Request, Call, Stopped
  <2> QED BY <2>1, <2>2, <2>3, <2>4 DEF NextExpressions
<1> QED BY <1>1, <1>2, <1>3, <1>4, <1>5 DEF FInv

-----------------------------------------------------------------------------
(***************************************************************************)
(* Theorems.                                                               *)
(***************************************************************************)

\* In every reachable state pointers lead to expressions, numbers are words,
\* and every number is explained by the expression it replaced.
THEOREM ExprInvariance == SpecExpressions => []EInv
<1>1. InitExpressions => EInv
  BY EInit
<1>2. EInv /\ [NextExpressions \/ (Stopped /\ UNCHANGED exprVars)]_exprVars => EInv'
  BY EStep
<1> QED BY <1>1, <1>2, PTL DEF SpecExpressions

\* resolve_expr2 computes words, and its stack stays within its room.
THEOREM ExprTypeCorrect == SpecExpressions => []ExprTypeOK
<1>1. EInv => ExprTypeOK
  BY DEF EInv
<1> QED BY <1>1, ExprInvariance, PTL

\* The number that resolve_expr2 leaves in an expression always follows from
\* its arguments as they are: what shares them never sees them change.
THEOREM ExplainedCorrect == SpecExpressions => []AllExplained
<1>1. EInv => AllExplained
  BY DEF EInv
<1> QED BY <1>1, ExprInvariance, PTL

\* The number in a resolved expression is what evaluating the expression as it
\* was written, lazily and all at once, gives with the symbols as they are
\* now: the order in which resolve_expr2 came to it, and what was overwritten
\* on the way, make no difference.
THEOREM ValuesCorrect == SpecExpressions => []ValuesAreMeanings
<1>1. MInv /\ [NextExpressions \/ (Stopped /\ UNCHANGED exprVars)]_exprVars => MInv'
  BY MStep
<1>2. MInv => ValuesAreMeanings
  BY DEF MInv
<1> QED BY <1>1, <1>2, MInit, PTL DEF SpecExpressions

\* If the stack has room for a call for each of the expressions, resolve_expr
\* exits, or the program dies, only over an expression that has no value.
THEOREM FailsCorrect ==
  ASSUME \A pool \in Pools : Len(pool) <= MAX_DEPTH
  PROVE  SpecExpressions => []FailsForNoValue
<1>1. InitExpressions => FInv
  <2> SUFFICES ASSUME InitExpressions PROVE FInv
    OBVIOUS
  <2>1. Len(parsed) <= MAX_DEPTH /\ FailsForNoValue
    BY DEF InitExpressions, FailsForNoValue
  <2> QED BY <2>1, MInit DEF FInv
<1>2. FInv /\ [NextExpressions \/ (Stopped /\ UNCHANGED exprVars)]_exprVars => FInv'
  BY FStep
<1>3. FInv => FailsForNoValue
  BY DEF FInv
<1> QED BY <1>1, <1>2, <1>3, PTL DEF SpecExpressions

=============================================================================
