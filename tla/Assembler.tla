------------------------------ MODULE Assembler ------------------------------
(***************************************************************************)
(* The assembler: scanner, parser actions, and output.                     *)
(*                                                                         *)
(* A source is a sequence of items.  An item is a directive the scanner    *)
(* acts on, or a grammar rule with an action: the parser reduces rules in  *)
(* the order in which their last tokens come, arguments first, and keeps   *)
(* the expressions of a statement on its value stack until the rule of     *)
(* the statement takes them.  An item also is what a fragment of text      *)
(* is for a macro.  Sources are those the grammar accepts, see Text; files *)
(* for .INCWORD and .INCBIN are sequences of bytes instead.                *)
(***************************************************************************)
EXTENDS Expressions, Statements

CONSTANTS Sources,               \* main sources
          Files,                 \* contents of the files by name
          BinaryName,            \* names .INCWORD and .INCBIN are used for
          MAX_SRC_BUFFER_DEPTH   \* nested sources

ASSUME BufferAssumption == MAX_SRC_BUFFER_DEPTH \in Nat \ {0}
ASSUME LimitAssumption == LIMIT > 65535   \* two bytes are an i32

OpSize == [NONE |-> 1, U8 |-> 2, U16 |-> 3, UI8 |-> 2, I8 |-> 2]

Items ==
       [k : {"IF", "ELIF", "ELSE", "ENDIF", "if", "org", "res", "endmacro", "error"}]
  \cup [k : {"number"}, n : Word32]
  \cup [k : {"symref", "defined", "symbol", "label"}, name : Name]
  \cup [k : {"op1"}, op : UnaryOp]
  \cup [k : {"op2"}, op : BinaryOp]
  \cup [k : {"incword"}, name : BinaryName]
  \cup [k : {"incbin"}, name : BinaryName, args : 0 .. 2]
  \cup [k : {"op"}, type : DOMAIN OpSize, code : 0 .. 255]
  \cup [k : {"byte", "word"}, n : Nat \ {0}]
  \cup [k : {"macro", "include"}, name : STRING \ BinaryName]

(***************************************************************************)
(* Where the grammar is between two items: how many expressions wait for   *)
(* their rule, and whether the condition of an .IF or .ELIF is to come.    *)
(***************************************************************************)
Between == [waiting |-> 0, condition |-> FALSE]   \* two statements

Accepts(i, at) ==
  IF IsExpression(i) THEN at.waiting >= Takes(i)
  ELSE at.waiting = Takes(i) /\ at.condition = (i.k = "if")

After(i, at) ==
  IF IsExpression(i) THEN [at EXCEPT !.waiting = @ - Takes(i) + 1]
  ELSE [Between EXCEPT !.condition = i.k \in {"IF", "ELIF"}]

\* h is where the grammar is after the first n items, from a to b.
Reads(text, h, a, b) ==
  /\ h[0] = a
  /\ \A n \in 1 .. Len(text) : Accepts(text[n], h[n - 1]) /\ h[n] = After(text[n], h[n - 1])
  /\ h[Len(text)] = b

\* text consists of statements.
Text(text) ==
  LET h[n \in 0 .. Len(text)] == IF n = 0 THEN Between ELSE After(text[n], h[n - 1])
  IN text \in Seq(Items) /\ Reads(text, h, Between, Between)

ASSUME SourceAssumption ==
  /\ \A source \in Sources : Text(source)
  /\ \A name \in DOMAIN Files :
       IF name \in BinaryName THEN Files[name] \in Seq(0 .. 255) ELSE Text(Files[name])

VARIABLES
  buffers,       \* what is left of the source and of those it includes
  start,         \* start condition of the scanner
  start_stack,
  push_state,    \* the condition the parser wants pushed, or "none"
  s_macro_name,
  named,         \* the named buffers: macros, and files that were read
  yyvsp,         \* value stack of the parser: expressions
  s_pc1, s_pc2,  \* the program counter is their sum
  atoms,
  out,           \* the assembled bytes
  ends,          \* auxiliary: length of out after each atom
  origin,        \* auxiliary: the last .ORG and the atoms before it
  places,        \* auxiliary: when the program counter was asked for
  chains         \* auxiliary: the open conditionals, see ScanIf

condVars == <<start, start_stack, push_state, chains>>
scanVars == <<buffers, condVars, s_macro_name, named>>
pcVars == <<s_pc1, s_pc2>>
parseVars == <<yyvsp, pcVars, atoms, origin, places>>
outVars == <<out, ends>>
avars == <<exprVars, scanVars, parseVars, outVars>>

-----------------------------------------------------------------------------
unset_value == 0   \* no expression

InitAsm ==
  /\ asm = "parse"
  /\ exprs = <<>>
  /\ s_sym_table = [s \in {} |-> 0]
  /\ calls = <<>>
  /\ parsed = <<>>
  /\ start = "INITIAL"
  /\ start_stack = <<>>
  /\ push_state = "none"
  /\ s_macro_name = "none"
  /\ named = [n \in {} |-> <<>>]
  /\ yyvsp = <<>>
  /\ s_pc1 = unset_value
  /\ s_pc2 = 0
  /\ atoms = <<>>
  /\ out = <<>>
  /\ ends = <<>>
  /\ origin = [org |-> unset_value, atom |-> 0]
  /\ places = <<>>
  /\ chains = <<>>

InitAssembler ==
  /\ \E source \in Sources : buffers = <<source>>
  /\ InitAsm

-----------------------------------------------------------------------------
(***************************************************************************)
(* The scanner.                                                            *)
(***************************************************************************)
Top == buffers[Len(buffers)]
Item == Head(Top)
Consumed == [buffers EXCEPT ![Len(buffers)] = Tail(@)]

\* yylex is called: the parser has finished what it was doing.
Scanning == asm = "parse" /\ calls = <<>>

\* At the head of yylex: the start condition the parser asked for.
PushState ==
  /\ Scanning
  /\ push_state # "none"
  /\ start_stack' = Append(start_stack, start)
  /\ start' = push_state
  /\ push_state' = "none"
  /\ UNCHANGED <<exprVars, buffers, chains, s_macro_name, named, parseVars, outVars>>

\* The next item is of kind k, and the scanner is in one of the conditions.
At(k, conditions) ==
  /\ Scanning
  /\ push_state = "none"
  /\ Top # <<>>
  /\ start \in conditions
  /\ Item.k = k

Scan(k, conditions) == At(k, conditions) /\ buffers' = Consumed

ScanOther(kinds, conditions) ==
  /\ Top # <<>>
  /\ Item.k \notin kinds
  /\ Scan(Item.k, conditions)

Begin(condition) == start' = condition /\ UNCHANGED start_stack

Push(condition) ==
  /\ start_stack' = Append(start_stack, start)
  /\ start' = condition

\* yy_pop_state exits when there is nothing to pop.
Pop ==
  IF start_stack = <<>>
  THEN asm' = "failed" /\ UNCHANGED <<start, start_stack>>
  ELSE /\ start' = start_stack[Len(start_stack)]
       /\ start_stack' = SubSeq(start_stack, 1, Len(start_stack) - 1)
       /\ UNCHANGED asm

ScannerOnly == UNCHANGED <<exprs, s_sym_table, calls, parsed, push_state,
                           s_macro_name, named, parseVars, outVars>>

\* The innermost open conditional, if there is one, becomes c.
Innermost == chains[Len(chains)]
Update(c) ==
  chains' = [n \in DOMAIN chains |-> IF n = Len(chains) THEN c ELSE chains[n]]

\* .IF: only a token where text is assembled, nested where it is skipped.
ScanIf ==
  /\ \/ /\ Scan("IF", {"INITIAL"})
        /\ UNCHANGED <<start, start_stack>>
     \/ /\ Scan("IF", {"SKIP", "SKIP_ALL"})
        /\ Push("SKIP_ALL")
  /\ chains' = Append(chains, [live |-> start = "INITIAL", entered |-> 0,
                               closed |-> FALSE, ordered |-> TRUE])
  /\ UNCHANGED asm
  /\ ScannerOnly

\* Mutant: a branch that was assembled is closed as one that was skipped.
ScanElifOnce ==
  /\ \/ /\ Scan("ELIF", {"INITIAL"})
        /\ Begin("SKIP")
        /\ UNCHANGED asm
     \/ /\ Scan("ELIF", {"SKIP"})
        /\ Pop
  /\ Update([Innermost EXCEPT !.ordered = @ /\ ~Innermost.closed])
  /\ ScannerOnly

\* .ELIF: like .IF if nothing was assembled so far.
ScanElif ==
  /\ \/ /\ Scan("ELIF", {"INITIAL"})
        /\ Begin("SKIP_ALL")
        /\ UNCHANGED asm
     \/ /\ Scan("ELIF", {"SKIP"})
        /\ Pop
  /\ Update([Innermost EXCEPT !.ordered = @ /\ ~Innermost.closed])
  /\ ScannerOnly

ScanElse ==
  /\ \/ /\ Scan("ELSE", {"INITIAL"})
        /\ Begin("SKIP")
        /\ Update([Innermost EXCEPT !.closed = TRUE, !.ordered = ~Innermost.closed])
     \/ /\ Scan("ELSE", {"SKIP"})
        /\ Begin("INITIAL")
        /\ Update([Innermost EXCEPT !.closed = TRUE, !.ordered = ~Innermost.closed,
                                   !.entered = @ + 1])
  /\ UNCHANGED asm
  /\ ScannerOnly

\* Mutant: text is assembled again, but the stack is left as it is.
ScanEndifBegins ==
  /\ Scan("ENDIF", {"INITIAL", "SKIP", "SKIP_ALL"})
  /\ Begin("INITIAL")
  /\ UNCHANGED asm
  /\ chains' = SubSeq(chains, 1, Len(chains) - 1)
  /\ ScannerOnly

ScanEndif ==
  /\ Scan("ENDIF", {"INITIAL", "SKIP", "SKIP_ALL"})
  /\ Pop
  /\ chains' = SubSeq(chains, 1, Len(chains) - 1)
  /\ ScannerOnly

\* Text between the directives that count is skipped.
SkipItem ==
  /\ \/ ScanOther({"IF", "ELIF", "ELSE", "ENDIF"}, {"SKIP"})
     \/ ScanOther({"IF", "ENDIF"}, {"SKIP_ALL"})
  /\ UNCHANGED <<asm, start, start_stack, chains>>
  /\ ScannerOnly

\* Mutant: the source that included another one is not taken up again.
EndOfBufferStays ==
  /\ Scanning
  /\ push_state = "none"
  /\ Top = <<>>
  /\ IF Len(buffers) = 1 THEN asm' = "output" ELSE UNCHANGED asm
  /\ UNCHANGED <<exprs, s_sym_table, calls, parsed, scanVars, parseVars, outVars>>

\* The end of the main source ends the parser, whatever the start condition;
\* that of another one continues the source that included it.
EndOfBuffer ==
  /\ Scanning
  /\ push_state = "none"
  /\ Top = <<>>
  /\ IF Len(buffers) = 1
       THEN asm' = "output" /\ UNCHANGED buffers
       ELSE buffers' = SubSeq(buffers, 1, Len(buffers) - 1) /\ UNCHANGED asm
  /\ UNCHANGED <<exprs, s_sym_table, calls, parsed, condVars, s_macro_name, named, parseVars, outVars>>

-----------------------------------------------------------------------------
(***************************************************************************)
(* Named buffers, macros and nested sources.                               *)
(***************************************************************************)
Store(name, content) == [n \in DOMAIN named \cup {name} |->
                           IF n = name THEN content ELSE named[n]]

\* get_named_buffer: a buffer that is not known yet is read from its file.
Exists(name) == name \in DOMAIN named \cup DOMAIN Files
Content(name) == IF name \in DOMAIN named THEN named[name] ELSE Files[name]
GetNamedBuffer(name) == named' = Store(name, Content(name))

Reduce(k) == Scan(k, {"INITIAL"})

\* The action of a rule ends the assembler.
Exit ==
  /\ asm' = "failed"
  /\ UNCHANGED <<exprs, s_sym_table, calls, parsed, condVars, s_macro_name, named, parseVars, outVars>>

\* new_named_buffer: neither a macro nor a file of that name is known.
PushMacroState ==
  /\ Reduce("macro")
  /\ IF Item.name \in DOMAIN named THEN Exit
     ELSE /\ s_macro_name' = Item.name
          /\ push_state' = "MACROO"
          /\ named' = Store(Item.name, <<>>)
          /\ UNCHANGED <<exprVars, start, start_stack, chains, parseVars, outVars>>

\* The scanner hands the text of a macro over, directives included.
MacroAppend ==
  /\ ScanOther({"endmacro"}, {"MACROO"})
  /\ named' = [named EXCEPT ![s_macro_name] = Append(@, Item)]
  /\ UNCHANGED <<exprVars, condVars, s_macro_name, parseVars, outVars>>

EndMacro ==
  /\ Scan("endmacro", {"MACROO"})
  /\ Pop
  /\ UNCHANGED chains
  /\ ScannerOnly

\* Mutant: any number of nested sources.
IncludeAnyDepth ==
  /\ At("include", {"INITIAL"})
  /\ IF ~Exists(Item.name) THEN Exit /\ buffers' = Consumed
       ELSE /\ GetNamedBuffer(Item.name)
            /\ buffers' = Append(Consumed, Content(Item.name))
            /\ UNCHANGED <<exprVars, condVars, s_macro_name, parseVars, outVars>>

\* asm_include and asm_src_buffer_push.
Include ==
  /\ At("include", {"INITIAL"})
  /\ IF ~Exists(Item.name) \/ Len(buffers) = MAX_SRC_BUFFER_DEPTH
       THEN Exit /\ buffers' = Consumed
       ELSE /\ GetNamedBuffer(Item.name)
            /\ buffers' = Append(Consumed, Content(Item.name))
            /\ UNCHANGED <<exprVars, condVars, s_macro_name, parseVars, outVars>>

AsmError == Reduce("error") /\ Exit

-----------------------------------------------------------------------------
(***************************************************************************)
(* Expressions.                                                            *)
(***************************************************************************)
Arg(n) == yyvsp[Len(yyvsp) - n]           \* the last one is Arg(0)
Popped(n) == SubSeq(yyvsp, 1, Len(yyvsp) - n)
Fresh(n) == Len(exprs) + n                \* the n-th expression created next

ScanFrame == UNCHANGED <<condVars, s_macro_name>>

\* The rule takes n expressions from the value stack and makes one of them.
NewExpr(n, node) ==
  /\ Create(<<node>>)
  /\ yyvsp' = Append(Popped(n), Fresh(1))
  /\ UNCHANGED <<asm, s_sym_table, calls, named, pcVars, atoms, origin, places, outVars>>
  /\ ScanFrame

NewExprNumber == Reduce("number") /\ NewExpr(0, Number(Item.n))
NewExprSymref == Reduce("symref") /\ NewExpr(0, Symref(Item.name))
NewExprOp1 == Reduce("op1") /\ NewExpr(1, Op1(Item.op, Arg(0)))
NewExprOp2 == Reduce("op2") /\ NewExpr(2, Op2(Item.op, Arg(1), Arg(0)))

\* Whether a symbol is defined is decided when the parser gets there.
NewIsDefined ==
  /\ Reduce("defined")
  /\ NewExpr(0, Number(Truth(IsDefined(Item.name))))

\* The value of the expression e is needed now.
Need(e) == ~Resolved(e) /\ Call(e) /\ UNCHANGED <<scanVars, parseVars, outVars>>

\* A place in a file may be counted from its end.
FromEnd(n, length) == IF n < 0 THEN n + length ELSE n
InRange(n, length) == 0 <= n /\ n <= length

\* What skip leaves of the file, if it lies in it.
Skip == IF Item.args = 0 THEN 0 ELSE FromEnd(Value(Arg(Item.args - 1)), Len(Content(Item.name)))
SkipFits == InRange(Skip, Len(Content(Item.name)))

\* The expressions whose values an item needs while the source is read.
NeededNow ==
  CASE Item.k \in {"if", "incword"}             -> <<Arg(0)>>
    [] Item.k = "incbin" /\ ~Exists(Item.name)  -> <<>>
    [] Item.k = "incbin" /\ Item.args = 1       -> <<Arg(0)>>
    [] Item.k = "incbin" /\ Item.args = 2       ->
         IF Resolved(Arg(1)) /\ ~SkipFits THEN <<>> ELSE <<Arg(1), Arg(0)>>
    [] OTHER                                    -> <<>>

Known == \A n \in 1 .. Len(NeededNow) : Resolved(NeededNow[n])

\* The first of them that is not known yet is resolved.
NeedFirst(es) ==
  \E n \in 1 .. Len(es) :
    /\ \A m \in 1 .. n - 1 : Resolved(es[m])
    /\ Need(es[n])

ResolveForParser ==
  /\ \E k \in {"if", "incword", "incbin"} : At(k, {"INITIAL"})
  /\ NeedFirst(NeededNow)

PushIfState ==
  /\ Reduce("if")
  /\ Known
  /\ IF Value(Arg(0)) # 0
       THEN push_state' = "INITIAL" /\ Update([Innermost EXCEPT !.entered = @ + 1])
       ELSE push_state' = "SKIP" /\ UNCHANGED chains
  /\ yyvsp' = Popped(1)
  /\ UNCHANGED <<exprVars, start, start_stack, s_macro_name, named, pcVars,
                 atoms, origin, places, outVars>>

\* new_expr_incword: a word of a file.
NewExprIncword ==
  /\ Reduce("incword")
  /\ Known
  /\ LET file == Content(Item.name)
         offset == FromEnd(Value(Arg(0)), Len(file))
     IN IF ~Exists(Item.name) \/ ~InRange(offset, Len(file) - 2) THEN Exit
        ELSE /\ Create(<<Number(file[offset + 1] + 256 * file[offset + 2])>>)
             /\ yyvsp' = Append(Popped(1), Fresh(1))
             /\ GetNamedBuffer(Item.name)
             /\ UNCHANGED <<asm, s_sym_table, calls, pcVars, atoms, origin, places, outVars>>
             /\ ScanFrame

-----------------------------------------------------------------------------
(***************************************************************************)
(* The program counter, symbols and labels.                                *)
(***************************************************************************)
StatementFrame == ScanFrame /\ UNCHANGED <<asm, calls, named, outVars>>

\* pc_get: the offset s2 is added to the expression; whoever asks next gets
\* the same expression.
PcNodes(s2) ==
  IF s2 = 0 THEN <<>> ELSE <<Number(s2), Op2("PLUS", Fresh(1), s_pc1)>>
PcPointer(s2) == IF s2 = 0 THEN s_pc1 ELSE Fresh(2)

\* pc_set_expr
SetOrg ==
  /\ Reduce("org")
  /\ s_pc1' = Arg(0)
  /\ s_pc2' = 0
  /\ yyvsp' = Popped(1)
  /\ origin' = [org |-> Arg(0), atom |-> Len(atoms)]
  /\ UNCHANGED <<exprs, s_sym_table, parsed, atoms, places>>
  /\ StatementFrame

NewSymbolExpr ==
  /\ Reduce("symbol")
  /\ IF IsDefined(Item.name) THEN Exit
     ELSE /\ Define(Item.name, Arg(0))
          /\ yyvsp' = Popped(1)
          /\ UNCHANGED <<exprs, parsed, pcVars, atoms, origin, places>>
          /\ StatementFrame

\* pc_get was called, to give the place behind the first n atoms.
MarkPlace(pointer, n) ==
  places' = Append(places, [pc |-> pointer, after |-> origin, atom |-> n])

\* Mutant: the label gets the program counter without the offset.
NewLabelStale ==
  /\ Reduce("label")
  /\ IF IsDefined(Item.name) \/ s_pc1 = unset_value THEN Exit
     ELSE /\ Define(Item.name, s_pc1)
          /\ MarkPlace(s_pc1, Len(atoms))
          /\ UNCHANGED <<exprs, parsed, yyvsp, pcVars, atoms, origin>>
          /\ StatementFrame

NewLabel ==
  /\ Reduce("label")
  /\ IF IsDefined(Item.name) \/ s_pc1 = unset_value THEN Exit
     ELSE /\ Create(PcNodes(s_pc2))
          /\ s_pc1' = PcPointer(s_pc2)
          /\ s_pc2' = 0
          /\ Define(Item.name, PcPointer(s_pc2))
          /\ MarkPlace(PcPointer(s_pc2), Len(atoms))
          /\ UNCHANGED <<yyvsp, atoms, origin>>
          /\ StatementFrame

\* pc_add: without an origin nothing is counted.
PcAdd(n) ==
  /\ s_pc2' = IF s_pc1 = unset_value THEN s_pc2 ELSE Wrap(s_pc2 + n)
  /\ UNCHANGED s_pc1

-----------------------------------------------------------------------------
(***************************************************************************)
(* Atoms: what a statement will put out.                                   *)
(***************************************************************************)
NewAtom(n, atom) ==
  /\ atoms' = Append(atoms, atom)
  /\ yyvsp' = Popped(n)
  /\ UNCHANGED <<s_sym_table, origin>>
  /\ StatementFrame

\* new_op, but for branches.
NewOp ==
  /\ Reduce("op")
  /\ Item.type # "I8"
  /\ LET n == IF Item.type = "NONE" THEN 0 ELSE 1
     IN NewAtom(n, [type |-> Item.type, code |-> Item.code,
                    args |-> SubSeq(yyvsp, Len(yyvsp) - n + 1, Len(yyvsp))])
  /\ PcAdd(OpSize[Item.type])
  /\ UNCHANGED <<exprs, parsed, places>>

\* Mutant: the distance counts from the branch itself.
NewBranchFromStart ==
  /\ Reduce("op")
  /\ Item.type = "I8"
  /\ IF s_pc1 = unset_value THEN Exit
     ELSE LET nodes == PcNodes(s_pc2)
              distance == Fresh(Len(nodes) + 1)
          IN /\ Create(Append(nodes, Op2("MINUS", Arg(0), PcPointer(s_pc2))))
             /\ s_pc1' = PcPointer(s_pc2)
             /\ s_pc2' = OpSize.I8
             /\ MarkPlace(PcPointer(s_pc2), Len(atoms) + 1)
             /\ NewAtom(1, [type |-> "I8", code |-> Item.code,
                            args |-> <<distance>>])

\* new_op for a branch: its argument becomes the distance from the address
\* behind it.
NewBranch ==
  /\ Reduce("op")
  /\ Item.type = "I8"
  /\ IF s_pc1 = unset_value THEN Exit
     ELSE LET behind == Wrap(s_pc2 + OpSize.I8)
              nodes == PcNodes(behind)
              distance == Fresh(Len(nodes) + 1)
          IN /\ Create(Append(nodes, Op2("MINUS", Arg(0), PcPointer(behind))))
             /\ s_pc1' = PcPointer(behind)
             /\ s_pc2' = 0
             /\ MarkPlace(PcPointer(behind), Len(atoms) + 1)
             /\ NewAtom(1, [type |-> "I8", code |-> Item.code,
                            args |-> <<distance>>])

\* exprs_to_byte_exprs and exprs_to_word_exprs for a list of expressions.
NewExprs ==
  /\ \E k \in {"byte", "word"} : Reduce(k)
  /\ NewAtom(Item.n, [type |-> Item.k,
                      args |-> SubSeq(yyvsp, Len(yyvsp) - Item.n + 1, Len(yyvsp))])
  /\ PcAdd(IF Item.k = "byte" THEN Item.n ELSE 2 * Item.n)
  /\ UNCHANGED <<exprs, parsed, places>>

\* new_res with pc_add_expr: the length need not be known yet.
NewRes ==
  /\ Reduce("res")
  /\ NewAtom(2, [type |-> "res", args |-> <<Arg(1), Arg(0)>>])
  /\ UNCHANGED places
  /\ IF s_pc1 = unset_value
       THEN UNCHANGED <<pcVars, exprs, parsed>>
       ELSE /\ Create(<<Op2("PLUS", Arg(1), s_pc1)>>)
            /\ s_pc1' = Fresh(1)
            /\ UNCHANGED s_pc2

\* new_incbin: a part of a file; without a length it is empty.
NewIncbin ==
  /\ Reduce("incbin")
  /\ Known
  /\ LET rest == Len(Content(Item.name)) - Skip
         length == IF Item.args = 2 THEN FromEnd(Value(Arg(0)), rest) ELSE 0
     IN IF ~Exists(Item.name) \/ ~SkipFits \/ ~InRange(length, rest) THEN Exit
        ELSE /\ atoms' = Append(atoms, [type |-> "incbin", name |-> Item.name,
                                        skip |-> Skip, length |-> length,
                                        args |-> <<>>])
             /\ yyvsp' = Popped(Item.args)
             /\ GetNamedBuffer(Item.name)
             /\ PcAdd(length)
             /\ UNCHANGED <<exprVars, origin, places, outVars>>
             /\ ScanFrame

-----------------------------------------------------------------------------
(***************************************************************************)
(* output_atoms.                                                           *)
(***************************************************************************)
Atom == atoms[Len(ends) + 1]
AtAtom == asm = "output" /\ calls = <<>> /\ Len(ends) < Len(atoms)

Limits == [NONE |-> 0 .. 0, U8 |-> 0 .. 255, I8 |-> -128 .. 127,
           UI8 |-> -128 .. 255, U16 |-> 0 .. 65535]

\* The n-th argument has a value that ends the assembler.  The values of
\* .BYTE and .WORD are reported, but put out all the same.
Invalid(n) ==
  LET v == Value(Atom.args[n])
  IN \/ Atom.type = "res" /\ v \notin (IF n = 1 THEN Limits.U16 ELSE Limits.UI8)
     \/ Atom.type \in DOMAIN Limits /\ v \notin Limits[Atom.type]

BufferFits == Atom.type = "incbin" => Atom.skip <= 65535 /\ Atom.length <= 65535

\* Arguments are resolved one by one, and checked before the next.
ResolveForOutput ==
  /\ AtAtom
  /\ \A n \in 1 .. Len(Atom.args) : Resolved(Atom.args[n]) => ~Invalid(n)
  /\ NeedFirst(Atom.args)

OutputFails ==
  /\ AtAtom
  /\ BufferFits => \E n \in 1 .. Len(Atom.args) : Resolved(Atom.args[n]) /\ Invalid(n)
  /\ asm' = "failed"
  /\ UNCHANGED <<exprs, s_sym_table, calls, parsed, scanVars, parseVars, outVars>>

LowByte(v) == v % 256

\* The bytes of a word, as / and % of C give them.
WordBytes(v) == <<LowByte(Remainder(v, 256)), LowByte(Quotient(v, 256))>>

Bytes ==
  LET v(n) == Value(Atom.args[n])
  IN CASE Atom.type = "NONE"   -> <<Atom.code>>
       [] Atom.type \in {"U8", "I8", "UI8"} -> <<Atom.code, LowByte(v(1))>>
       [] Atom.type = "U16"    -> <<Atom.code>> \o WordBytes(v(1))
       [] Atom.type = "res"    -> [n \in 1 .. v(1) |-> LowByte(v(2))]
       [] Atom.type = "byte"   -> [n \in 1 .. Len(Atom.args) |-> LowByte(v(n))]
       [] Atom.type = "word"   ->
            [n \in 1 .. 2 * Len(Atom.args) |->
               WordBytes(v((n + 1) \div 2))[((n + 1) % 2) + 1]]
       [] Atom.type = "incbin" ->
            SubSeq(named[Atom.name], Atom.skip + 1, Atom.skip + Atom.length)

OutputAtom ==
  /\ AtAtom
  /\ BufferFits
  /\ \A n \in 1 .. Len(Atom.args) : Resolved(Atom.args[n]) /\ ~Invalid(n)
  /\ out' = out \o Bytes
  /\ ends' = Append(ends, Len(out'))
  /\ UNCHANGED <<exprVars, scanVars, parseVars>>

OutputDone ==
  /\ asm = "output"
  /\ Len(ends) = Len(atoms)
  /\ asm' = "done"
  /\ UNCHANGED <<exprs, s_sym_table, calls, parsed, scanVars, parseVars, outVars>>

-----------------------------------------------------------------------------
ResolveStep == Resolve /\ UNCHANGED <<scanVars, parseVars, outVars>>

NextParser ==
  \/ PushState
  \/ ScanIf
  \/ ScanElif
  \/ ScanElse
  \/ ScanEndif
  \/ SkipItem
  \/ EndOfBuffer
  \/ PushMacroState
  \/ MacroAppend
  \/ EndMacro
  \/ Include
  \/ AsmError
  \/ NewExprNumber
  \/ NewExprSymref
  \/ NewExprOp1
  \/ NewExprOp2
  \/ NewIsDefined
  \/ ResolveForParser
  \/ PushIfState
  \/ NewExprIncword
  \/ SetOrg
  \/ NewSymbolExpr
  \/ NewLabel
  \/ NewOp
  \/ NewBranch
  \/ NewExprs
  \/ NewRes
  \/ NewIncbin

NextAssembler ==
  \/ NextParser
  \/ ResolveStep
  \/ ResolveForOutput
  \/ OutputFails
  \/ OutputAtom
  \/ OutputDone

Ended == asm \in {"done", "failed", "crashed"}

SpecAssembler ==
  /\ InitAssembler
  /\ [][NextAssembler \/ (Ended /\ UNCHANGED avars)]_avars
  /\ WF_avars(NextAssembler)
-----------------------------------------------------------------------------
(***************************************************************************)
(* Properties.                                                             *)
(***************************************************************************)
\* The types of all variables; at most MAX_SRC_BUFFER_DEPTH sources are open.
AsmTypeOK ==
  /\ ExprTypeOK
  /\ Len(buffers) \in 1 .. MAX_SRC_BUFFER_DEPTH
  /\ start \in {"INITIAL", "SKIP", "SKIP_ALL", "MACROO"}
  /\ start_stack \in Seq({"INITIAL", "SKIP", "SKIP_ALL"})
  /\ push_state \in {"none", "INITIAL", "SKIP", "MACROO"}
  /\ yyvsp \in Seq(Pointer)
  /\ s_pc1 \in Pointer \cup {unset_value}
  /\ s_pc2 \in Word32
  /\ \A n \in 1 .. Len(atoms) : atoms[n].args \in Seq(Pointer)
  /\ out \in Seq(0 .. 255)
  /\ Len(ends) <= Len(atoms)

\* Of the branches of an .IF, with any number of .ELIF and one .ELSE after
\* them, at most one is assembled, exactly one when .ELSE has come, and none
\* where the .IF itself is skipped, whatever is nested in them.
OneBranchPerIf ==
  \A n \in 1 .. Len(chains) :
    LET c == chains[n]
    IN /\ ~c.live => c.entered = 0
       /\ c.ordered => /\ c.entered <= 1
                       /\ c.live /\ c.closed => c.entered = 1

\* The first n atoms are this many bytes.
End(n) == IF n = 0 THEN 0 ELSE ends[n]

\* The address of the byte behind p.atom atoms.
Address(p) == Wrap(Value(p.after.org) + End(p.atom) - End(p.after.atom))

\* When all is put out, a label, or the program counter of a branch, is the
\* address of the byte that follows it: what pc_add counted for an atom while
\* the source was read is what output_atoms wrote for it.
PcIsPosition ==
  asm = "done" =>
    \A n \in 1 .. Len(places) :
      Resolved(places[n].pc) => Value(places[n].pc) = Address(places[n])

Signed(byte) == IF byte < 128 THEN byte ELSE byte - 256

\* A branch that was put out jumps to the value of its argument.
BranchesLand ==
  asm = "done" =>
    \A n \in 1 .. Len(places) :
      LET p == places[n]
          atom == atoms[p.atom]
          target == parsed[atom.args[1]].arg1
      IN p.atom > p.after.atom /\ atom.type = "I8" =>
           Wrap(Address(p) + Signed(out[ends[p.atom]])) = Value(target)

\* A word that .WORD lets pass has its two's complement put out, as a byte
\* that .BYTE lets pass has.
WordsAreTwosComplement ==
  \A n \in 1 .. Len(ends) :
    atoms[n].type = "word" =>
      \A m \in 1 .. Len(atoms[n].args) :
        LET v == Value(atoms[n].args[m])
            at == End(n - 1) + 2 * m
        IN v \in -32768 .. 65535 =>
             out[at - 1] + 256 * out[at] = v % 65536

\* The assembler is called again in the same process, and the scanner keeps its
\* start condition, the stack of them and the flag from one call to the next: a
\* call that succeeds leaves them as they were at first.
ScannerAtRest ==
  asm = "done" => start = "INITIAL" /\ start_stack = <<>> /\ push_state = "none"

\* How many conditionals are open behind the item i, of d in front of it.
Opened(i, d) ==
  CASE i.k = "IF"    -> d + 1
    [] i.k = "ENDIF" -> d - 1
    [] OTHER         -> d

\* h is the number of open conditionals after the first n items, from a to b;
\* text has no macro, and .ELIF, .ELSE and .ENDIF only where one is open.
Nests(text, h, a, b) ==
  /\ h[0] = a
  /\ \A n \in 1 .. Len(text) :
       /\ text[n].k # "macro"
       /\ text[n].k \in {"ELIF", "ELSE", "ENDIF"} => h[n - 1] > 0
       /\ h[n - 1] \in Nat
       /\ h[n] = Opened(text[n], h[n - 1])
  /\ h[Len(text)] = b

\* Text that closes each conditional it opens: it leaves the scanner at rest.
SelfContained(text) ==
  LET h[n \in 0 .. Len(text)] == IF n = 0 THEN 0 ELSE Opened(text[n], h[n - 1])
  IN Nests(text, h, 0, 0)

\* The assembler always comes to an end: text that includes itself exhausts
\* the source buffers, and symbols that need themselves the stack.
Assembles == <>Ended
=============================================================================
