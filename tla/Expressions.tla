----------------------------- MODULE Expressions -----------------------------
(***************************************************************************)
(* Expressions of the assembler, and how they get their values.            *)
(*                                                                         *)
(* An expression is a node of a pool; a pointer to it is its index.  It is *)
(* resolved when its value is needed, by recursion over its arguments and  *)
(* through the symbol table, and then overwritten by its value.  Other     *)
(* expressions and the symbol table keep pointing to it.                   *)
(***************************************************************************)
EXTENDS Integers, Sequences

CONSTANTS Name,       \* symbols
          Pools,      \* expressions the parser has created
          LIMIT,      \* an i32 is in -LIMIT .. LIMIT - 1
          MAX_DEPTH   \* calls of resolve_expr2 the stack has room for

ASSUME WordAssumption == LIMIT \in Nat \ {0, 1}
ASSUME DepthAssumption == MAX_DEPTH \in Nat \ {0}

VARIABLES
  asm,           \* "parse", "output", "done", "failed" or "crashed"
  exprs,         \* the pool of expressions
  s_sym_table,   \* from the defined symbols to their expressions
  calls,         \* arguments of the active calls of resolve_expr2
  parsed         \* auxiliary: the expressions as they were created

exprVars == <<asm, exprs, s_sym_table, calls, parsed>>

-----------------------------------------------------------------------------
(***************************************************************************)
(* The arithmetic of an i32: it wraps around, and division truncates.      *)
(***************************************************************************)
Word32 == -LIMIT .. LIMIT - 1
Wrap(n) == ((n + LIMIT) % (2 * LIMIT)) - LIMIT
Magnitude(n) == IF n < 0 THEN -n ELSE n
Quotient(a, b) ==
  LET q == Magnitude(a) \div Magnitude(b)
  IN IF (a < 0) = (b < 0) THEN q ELSE -q
Remainder(a, b) == a - b * Quotient(a, b)
Truth(c) == IF c THEN 1 ELSE 0

UnaryOp == {"vNEG", "LNOT"}
BinaryOp == {"PLUS", "MINUS", "MULT", "DIV", "MOD", "LT", "GT", "EQ", "NEQ",
             "LOR", "LAND"}

Unary(op, a) == IF op = "vNEG" THEN Wrap(-a) ELSE Truth(a = 0)

\* The processor traps.
Traps(op, a, b) ==
  op \in {"DIV", "MOD"} /\ (b = 0 \/ (a = -LIMIT /\ b = -1))

Binary(op, a, b) ==
  CASE op = "PLUS"  -> Wrap(a + b)
    [] op = "MINUS" -> Wrap(a - b)
    [] op = "MULT"  -> Wrap(a * b)
    [] op = "DIV"   -> Quotient(a, b)
    [] op = "MOD"   -> Remainder(a, b)
    [] op = "LT"    -> Truth(a < b)
    [] op = "GT"    -> Truth(a > b)
    [] op = "EQ"    -> Truth(a = b)
    [] op = "NEQ"   -> Truth(a # b)
    [] op \in {"LOR", "LAND"} -> Truth(b # 0)

\* The first argument decides the result of a logical operator.
Decides(op, a) == (op = "LOR" /\ a # 0) \/ (op = "LAND" /\ a = 0)

-----------------------------------------------------------------------------
Pointer == 1 .. Len(exprs)

Number(n) == [expr_op |-> "NUMBER", number |-> n]
Symref(s) == [expr_op |-> "SYMBOL", symref |-> s]
Op1(op, e) == [expr_op |-> op, arg1 |-> e]
Op2(op, e1, e2) == [expr_op |-> op, arg1 |-> e1, arg2 |-> e2]

Expression ==
       [expr_op : {"NUMBER"}, number : Word32]
  \cup [expr_op : {"SYMBOL"}, symref : Name]
  \cup [expr_op : UnaryOp, arg1 : Nat]
  \cup [expr_op : BinaryOp, arg1 : Nat, arg2 : Nat]

Arguments(n) ==
  CASE n.expr_op \in UnaryOp  -> {n.arg1}
    [] n.expr_op \in BinaryOp -> {n.arg1, n.arg2}
    [] OTHER                  -> {}

\* The constructors: new expressions at the end of the pool.
Create(nodes) ==
  /\ exprs' = exprs \o nodes
  /\ parsed' = parsed \o nodes

Resolved(e) == exprs[e].expr_op = "NUMBER"
Value(e) == exprs[e].number

\* find_symref
IsDefined(s) == s \in DOMAIN s_sym_table

-----------------------------------------------------------------------------
(***************************************************************************)
(* resolve_expr2.  calls is its stack, innermost last.  An argument that   *)
(* is a number already returns at once, so only others are called for, and *)
(* what a call has got from its arguments can be read from their nodes.    *)
(***************************************************************************)
Callee == calls[Len(calls)]
Node == exprs[Callee]

\* Mutant: one call more than the stack has room for.
CallDeeper(e) ==
  /\ IF Len(calls) <= MAX_DEPTH
       THEN calls' = Append(calls, e) /\ UNCHANGED asm
       ELSE asm' = "crashed" /\ UNCHANGED calls
  /\ UNCHANGED <<exprs, s_sym_table, parsed>>

\* Call resolve_expr2; a recursion without end exhausts the stack.
Call(e) ==
  /\ IF Len(calls) < MAX_DEPTH
       THEN calls' = Append(calls, e) /\ UNCHANGED asm
       ELSE asm' = "crashed" /\ UNCHANGED calls
  /\ UNCHANGED <<exprs, s_sym_table, parsed>>

\* Mutant: the value is stored in the expression that was asked for first.
ReturnToOutermost(v) ==
  /\ exprs' = [exprs EXCEPT ![calls[1]] = Number(v)]
  /\ calls' = SubSeq(calls, 1, Len(calls) - 1)
  /\ UNCHANGED <<asm, s_sym_table, parsed>>

\* Return v; the expression becomes a number.
Return(v) ==
  /\ exprs' = [exprs EXCEPT ![Callee] = Number(v)]
  /\ calls' = SubSeq(calls, 1, Len(calls) - 1)
  /\ UNCHANGED <<asm, s_sym_table, parsed>>

\* resolve_expr exits, or the processor stops the program.
Stop(how) ==
  /\ asm' = how
  /\ UNCHANGED <<exprs, s_sym_table, calls, parsed>>

Resolving == calls # <<>> /\ asm \in {"parse", "output"}

ResolveUnary ==
  /\ Resolving
  /\ Node.expr_op \in UnaryOp
  /\ IF Resolved(Node.arg1) THEN Return(Unary(Node.expr_op, Value(Node.arg1)))
     ELSE Call(Node.arg1)

ResolveSymbol ==
  /\ Resolving
  /\ Node.expr_op = "SYMBOL"
  /\ IF ~IsDefined(Node.symref) THEN Stop("failed")
     ELSE LET e2 == s_sym_table[Node.symref]
          IN IF Resolved(e2) THEN Return(Value(e2)) ELSE Call(e2)

ResolveFirst ==
  /\ Resolving
  /\ Node.expr_op \in BinaryOp
  /\ ~Resolved(Node.arg1)
  /\ Call(Node.arg1)

ShortCircuit ==
  /\ Resolving
  /\ Node.expr_op \in BinaryOp
  /\ Resolved(Node.arg1)
  /\ Decides(Node.expr_op, Value(Node.arg1))
  /\ Return(Truth(Value(Node.arg1) # 0))

\* Mutant: the second argument is asked for although the first decides.
ResolveSecondAlways ==
  /\ Resolving
  /\ Node.expr_op \in BinaryOp
  /\ Resolved(Node.arg1)
  /\ IF ~Resolved(Node.arg2) THEN Call(Node.arg2)
     ELSE LET a == Value(Node.arg1)
              b == Value(Node.arg2)
          IN IF Traps(Node.expr_op, a, b) THEN Stop("crashed")
             ELSE Return(Binary(Node.expr_op, a, b))

ResolveSecond ==
  /\ Resolving
  /\ Node.expr_op \in BinaryOp
  /\ Resolved(Node.arg1)
  /\ ~Decides(Node.expr_op, Value(Node.arg1))
  /\ IF ~Resolved(Node.arg2) THEN Call(Node.arg2)
     ELSE LET a == Value(Node.arg1)
              b == Value(Node.arg2)
          IN IF Traps(Node.expr_op, a, b) THEN Stop("crashed")
             ELSE Return(Binary(Node.expr_op, a, b))

Resolve ==
  \/ ResolveUnary
  \/ ResolveSymbol
  \/ ResolveFirst
  \/ ShortCircuit
  \/ ResolveSecond

-----------------------------------------------------------------------------
(***************************************************************************)
(* The parser as this module sees it: it has created some expressions,     *)
(* defines symbols by them, and asks for the value of one now and then.    *)
(* Module Assembler says when.                                             *)
(***************************************************************************)
WellFormed(pool) ==
  /\ pool \in Seq(Expression)
  /\ \A e \in 1 .. Len(pool) : Arguments(pool[e]) \subseteq 1 .. Len(pool)

ASSUME PoolAssumption == \A pool \in Pools : WellFormed(pool)

InitExpressions ==
  /\ asm = "parse"
  /\ exprs \in Pools
  /\ s_sym_table = [s \in {} |-> 0]
  /\ calls = <<>>
  /\ parsed = exprs

\* new_symbol_expr, find_symref: a symbol is defined once.
Define(s, e) ==
  s_sym_table' = [x \in DOMAIN s_sym_table \cup {s} |->
                    IF x = s THEN e ELSE s_sym_table[x]]

DefineSymbol(s, e) ==
  /\ asm = "parse"
  /\ calls = <<>>
  /\ IF IsDefined(s)
       THEN Stop("failed")
       ELSE Define(s, e) /\ UNCHANGED <<asm, exprs, calls, parsed>>

Request(e) ==
  /\ asm = "parse"
  /\ calls = <<>>
  /\ ~Resolved(e)
  /\ Call(e)

NextExpressions ==
  \/ Resolve
  \/ \E s \in Name, e \in Pointer : DefineSymbol(s, e)
  \/ \E e \in Pointer : Request(e)

Stopped == asm \in {"failed", "crashed"}

\* A call that has started goes on.
SpecExpressions ==
  /\ InitExpressions
  /\ [][NextExpressions \/ (Stopped /\ UNCHANGED exprVars)]_exprVars
  /\ WF_exprVars(Resolve)

-----------------------------------------------------------------------------
(***************************************************************************)
(* Properties.                                                             *)
(***************************************************************************)
\* Numbers are words, pointers and symbols lead into the pool, and the calls of
\* resolve_expr2 have room on the stack.
ExprTypeOK ==
  /\ asm \in {"parse", "output", "done", "failed", "crashed"}
  /\ exprs \in Seq(Expression)
  /\ parsed \in Seq(Expression)
  /\ Len(parsed) = Len(exprs)
  /\ DOMAIN s_sym_table \subseteq Name
  /\ \A s \in DOMAIN s_sym_table : s_sym_table[s] \in Pointer
  /\ calls \in Seq(Pointer)
  /\ Len(calls) <= MAX_DEPTH
  /\ \A e \in Pointer : Arguments(exprs[e]) \cup Arguments(parsed[e]) \subseteq Pointer

(***************************************************************************)
(* The value an expression has if everything is evaluated at once, with    *)
(* what the symbol table holds, down to the given depth.                   *)
(***************************************************************************)
NoValue == LIMIT

Meaning[depth \in Nat] ==
  IF depth = 0 THEN [e \in Pointer |-> NoValue]
  ELSE LET below == Meaning[depth - 1]
       IN [e \in Pointer |->
             LET n == parsed[e]
                 a == below[n.arg1]
                 b == below[n.arg2]
             IN CASE n.expr_op = "NUMBER" -> n.number
                  [] n.expr_op = "SYMBOL" ->
                       IF IsDefined(n.symref)
                       THEN below[s_sym_table[n.symref]] ELSE NoValue
                  [] n.expr_op \in UnaryOp ->
                       IF a = NoValue THEN NoValue ELSE Unary(n.expr_op, a)
                  [] n.expr_op \in BinaryOp ->
                       CASE a = NoValue           -> NoValue
                         [] a # NoValue /\ Decides(n.expr_op, a) ->
                              Truth(a # 0)
                         [] OTHER ->
                              IF b = NoValue \/ Traps(n.expr_op, a, b)
                              THEN NoValue ELSE Binary(n.expr_op, a, b)]

FullMeaning == Meaning[Len(parsed)]

\* However early an expression was resolved, and however many others share
\* its arguments, its number is what a lazy evaluation would give now.
ValuesAreMeanings ==
  LET m == FullMeaning
  IN \A e \in Pointer : Resolved(e) => Value(e) = m[e]

\* The assembler gives up, or dies, only over an expression without a value:
\* one that needs an undefined symbol, itself, or a division that traps.
FailsForNoValue ==
  Stopped /\ calls # <<>> => FullMeaning[calls[1]] = NoValue

\* The number of a resolved expression follows from the numbers of its
\* arguments as they are now: none of them changes behind its back.
Explained(n, v) ==
  CASE n.expr_op = "NUMBER" -> v = n.number
    [] n.expr_op = "SYMBOL" -> /\ IsDefined(n.symref)
                               /\ Resolved(s_sym_table[n.symref])
                               /\ v = Value(s_sym_table[n.symref])
    [] n.expr_op \in UnaryOp -> /\ Resolved(n.arg1)
                                /\ v = Unary(n.expr_op, Value(n.arg1))
    [] n.expr_op \in BinaryOp ->
         /\ Resolved(n.arg1)
         /\ IF Decides(n.expr_op, Value(n.arg1))
            THEN v = Truth(Value(n.arg1) # 0)
            ELSE /\ Resolved(n.arg2)
                 /\ ~Traps(n.expr_op, Value(n.arg1), Value(n.arg2))
                 /\ v = Binary(n.expr_op, Value(n.arg1), Value(n.arg2))

\* Every expression is as it was created, or explained.
AllExplained ==
  \A e \in Pointer :
    IF Resolved(e) THEN Explained(parsed[e], Value(e)) ELSE exprs[e] = parsed[e]

=============================================================================
