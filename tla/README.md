# Verification of prepack6502

prepack6502 reorganises a 6502 program so that a cruncher packs it better: the
opcodes and the different kinds of argument bytes go to tables of their own,
and a small depacker, assembled for the purpose, merges them again on the
target machine.  This project models a call of the tool from its command line
to the crunched files, the assembler inside it with its parser and containers,
and the depacker on the 6502.  It checks them with TLC on small instances, and
proves what matters most with TLAPS for all values of the constants.

## The system and its parts

| part | source | state | operations | interacts with |
|---|---|---|---|---|
| options | `prepack6502.c` 138-310 | a variable for each setting | one case per option, the checks behind the loop | getopt, strtol; sets what all of main uses |
| splitter | `prepack6502.c` 324-438 | program buffer, six tables, used opcodes, end marker, argument table | read, split one instruction, place the end marker, trim | hands the tables to layout and depacker |
| layout and output | `prepack6502.c` 457-709, 812-855 | address of every table, two parts, two files | place tables, compile, write, check ranges | calls the generator twice |
| exomizer | `prepack6502.c` 67-117, 721-739 | a child process, files by name | crunch a file | external program |
| depacker generator | `compiler.c` | none of its own | build the source text, assemble | calls the assembler |
| depacker | `depacker.asm` | registers, twelve zeropage bytes, one byte of its own code, memory | copy the pointers, output an opcode, look its mode up, output arguments | reads the tables, writes the program |
| assembler | `asm/parse.c`, `expr.c`, `pc.c` | symbol table, atoms, lazy expressions, program counter | define, evaluate, emit | scanner, grammar, buffers |
| scanner | `asm/lexyy.c` | stack of start conditions, stack of source buffers | next token, push, pop | told by the parser through flags |
| grammar | `asm/asmtab.c` | stacks of states and values, a token of look-ahead | shift, reduce, refuse | calls the scanner, its rules call `parse.c` |
| containers | `asm/vec.c`, `membuf.c`, `chnkpool.c` | arrays, buffers, pools | insert, find, grow, free | used by all of the assembler |
| files by name | `asm/namedbuf.c`, `membufio.c` | buffers by name | create, get, read | include, incbin, macros |
| statistics, usage, logging | `prepack6502.c` 119-136, 471-567, 713-810, `asm/log.c` | none | print | |

The tool is sequential: nothing runs concurrently but the child that crunches a
file, and nothing is persisted but the output files.  What makes it hard is not
interleaving but agreement over a distance: the split loop and the depacker
must traverse six tables in the same order; the loop that gives out addresses,
the depacker compiled for them, and the loop that writes the files must tell
the same story; the scanner looks at flags that the parser sets while it
reduces; the range checks have to catch every overlap; and the 6502 code relies
on flags, carries at page borders and a store instruction it modifies itself.
`PROJECT.json` lists the hazards at their lines.

What makes the parts correct:

- options: what main goes on with is what the command line says, and valid,
  however often and in which order options are given;
- splitter and depacker: the merged tables are the program; the end is found
  exactly once; no table is read behind its end;
- layout: a call that succeeds leaves tables that do not overlap, where the
  depacker expects them;
- exomizer: a call that succeeds has crunched its own files;
- depacker: it returns, has restored the program, and wrote nowhere else;
- assembler: a symbol has the value of its definition whatever the order; the
  program counter equals the number of bytes that will be output;
- scanner and parser: a text is recognised as what it means; the stack of start
  conditions follows the nesting of `.IF`; no token is read in a wrong state;
- containers: a vector is a set, a buffer is a string of bytes, the elements of
  a pool do not overlap, and all of them are given back.

## The modules

| module | what it is |
|---|---|
| `Opcodes` | the addressing modes with the values the code gives them, and the tables the argument bytes of a mode belong to. The table `opcode_to_mode` is a constant |
| `Splitter` | main from reading the file to the trimmed argument table |
| `Unsplitter` | extends `Splitter` by the depacker as it sees the tables: how many bytes were taken from each, what is written |
| `Extraction` | the promise, as an abstract specification: the program appears byte by byte, then at most three bytes are trashed, then it is finished |
| `UnsplitterTheorems` | the steps of the inductive invariant, and the theorems |
| `TableOrder` | the order of the tables, and which orders and addresses main accepts: what `Layout` relies on and `Options` is checked for |
| `Layout` | extends `Splitter` by the table addresses, the compiled depacker, the files and the final checks |
| `LayoutTheorems` | the proofs about the layout, as part of `Depacker`'s specification, which is the one the run checks |
| `Depacker` | extends `Layout` by memory and processor: the files are loaded and the depacker is called |
| `DepackerTheorems` | the proof that the depacker in memory restores the program, writes nowhere else and implements `Unsplitter` |
| `DepackerShape` | the length of the depacker and the places of its data bytes: what `Layout` relies on and `Generator` checks |
| `Options` | the loop over the words of the command line, and the checks behind it |
| `Exomizer` | extends `Options` by the files: input, outputs, and the child that crunches each of them |
| `ExomizerTheorems` | the proofs about the options and the files |
| `Expressions` | the expressions of the assembler: constructors, symbol table, and the lazy evaluation that overwrites an expression by its value |
| `ExpressionsTheorems` | the proofs about them |
| `Assembler` | extends `Expressions` by the scanner with its start conditions and source buffers, the actions of the grammar, the program counter, and the output of the atoms |
| `AssemblerTheorems` | the proofs about the assembler, and about the depacker as a source of it |
| `Statements` | how a statement of the assembler is written as the items `Assembler` takes and `Parser` makes |
| `Generator` | extends `Assembler` by what `gen_decruncher` gives it: the definitions and depacker.asm |
| `GrammarTables` | the tables of the generated parser, as they are in the file |
| `Lexemes` | which token the scanner makes of a word, a directive or a sign |
| `Parser` | the automaton that runs the tables, the tokens it is given, and what each rule makes |
| `OpcodeTable` | the table `opcode_to_mode` of the program, with its 256 entries |
| `Automaton` | extends `Parser` by what its tables mean for its stacks: which states can lie under a state, and of which kind the value of a symbol is |
| `ParserTheorems` | the proofs about the parser |
| `KeySet`, `Vec` | a set of keys that answers truly; the sorted vector with its search, step by step |
| `ChunkPool` | allocation in chunks and the walk that frees them |
| `ByteString`, `Membuf` | a string of bytes; the buffer that grows by doubling in memory that holds anything |
| `Containers`, `ContainersTheorems` | vector, pool and buffer together, of which a behaviour uses one; the proofs about them |
| `MCUnsplitter`, `MCLayout`, `MCDepacker`, `MCExomizer`, `MCExpressions`, `MCAssembler`, `MCGenerator`, `MCParser`, `MCContainers` | instances for TLC |

How state and actions correspond to the code:

- The arrays `data_xxx` with `count_xxx` are the sequences `data["x"]`, by the
  letters of the table order (`o` opcodes, `l` and `h` low and high bytes of
  addresses, `i` immediates, `r` branch distances, `z` zeropage addresses).
  `used_opcodes` is the set of opcodes whose flag is set.
- `program_data` keeps the program and the two bytes behind it, because that is
  what the split loop can read when the last instruction is cut off.  These are
  the two header bytes, when the program is shorter than they are, or bytes
  nobody wrote.
- An iteration of a loop is an action (`SplitNone`, `SplitOne`, `SplitAbs`,
  `PlaceTable`, `WriteTable`, ...), a scan without effects on the way is one
  action (`PlaceEofMarker`, `TrimArgtable`).
- `starts` in `Splitter` is an auxiliary variable: no action reads it.
- In `Layout`, a byte of the compiled depacker is `CODE`, which is no byte,
  except those the depacker treats as data: the high byte of its store
  instruction and the twelve bytes at its end.  A depacker that took an
  instruction for a table byte would be noticed.  `CompileFails` has the three
  operands the assembler can refuse; operands of `.BYTE` that do not fit are
  only reported by it, and truncated, which is what `HighByte` does.  Main's
  comparison of the length with the one measured before is part of `Compile`;
  it cannot fail in `Layout`, where both come from `DepackerLength`, and that it
  cannot in the code is what `AssembledAsLaidOut` says in the run `generate`.
- `ReadFails` is the end of main for a file that is too short for its header or
  that cannot be read, which may happen to any file.
- In `Depacker` a step is what lies between two labels of `depacker.asm`.
  Labels are the values of `pc`.  The zero flag is kept where a branch depends
  on it.  `ret` is where the `rts` of `copy` returns to, which matters only if
  the branch of the main loop falls through.
- In `Options` a word of the command line has a name and perhaps an argument.
  Texts are sequences of characters, since numbers are read from them; names of
  files are sequences of parts, since only their extension is looked at.  An
  action is a case of the switch.  `-O` counts its characters at their places
  in the order that is set, as the code does.  `Strtol` knows what a number may
  start with: white space, of which there is one character, `"blank"`, a sign,
  and the prefix of its base.
- In `Exomizer` the contents of a file are tags that say how it came about
  (`<<"crunched", "part", "1">>`), and `program` and `sizes` are tags too.  The
  child is a process of its own; main waits for it.  What `waitpid` leaves in
  `status` when there is no child is any value.
- In `Expressions` the recursion of `resolve_expr2` is a stack of calls
  (`calls`), so that a recursion without end is one that fills it
  (`MAX_DEPTH`).  A call for an argument that is a number already returns at
  once and is no step.  `parsed` is auxiliary: the expressions as they were
  before their values replaced them.
- In `Assembler` a source is a sequence of items.  An item is a directive on
  which the scanner acts by itself (`IF`, `ELIF`, `ELSE`, `ENDIF`, `endmacro`),
  or a rule of the grammar with an action (`symbol`, `label`, `op`, `byte`,
  `if`, ...); the rule takes its expressions from the value stack.  An item
  starts to matter when it is scanned, so the same item is assembled, skipped
  or made part of a macro.  The rules that set a flag for the scanner are
  reduced before the next token is read, which `Parser` checks
  (`NothingReadAhead`); that is why the flag is acted on (`PushState`) before
  the next item.  `origin`, `places`, `ends` and `chains` are auxiliary.
- A source of the assembler, or a file it includes, is a text: a sequence of
  items after which the grammar is where a statement may start (`Text`, by what
  each item `Reads`), which holds for the parts that are skipped and for the
  bodies of macros too, since the parser comes to the same place behind them
  (`SourceAssumption`).  A text the grammar does not accept stops at a syntax
  error, which is the matter of `Parser`.  `BinaryName` are the names that
  `.INCWORD` and `.INCBIN` take; such a file is bytes and never scanned.
- `Parser` runs the tables as they are: a step is a shift, a reduction, a call
  of the scanner, or a syntax error.  `items` is what the rules did, in the
  form that `Assembler` takes.  The mnemonics of one shape share an operator
  with their opcodes in the order of the rules.  A text is a sequence of
  lexemes; a conditional is the branch that is not skipped.
- `Vec`, `ChunkPool` and `Membuf` have an action per call, and one per
  iteration where the call has a loop.  `given`, `called` and `live` in
  `ChunkPool` are auxiliary.
- An `i32` is a number modulo `2 * LIMIT`.  Division truncates as in C; division
  by zero, and of the least number by -1, ends the process.

## The runs

| run | what it asks | result |
|---|---|---|
| `unsplit` | are the merged tables the program, for every short program and at the limits; does the tool keep its promise | holds |
| `depack` | does success mean separate ranges and files that hold every table at its address; does the 6502 program loaded from these files restore the program, write only its own memory, and implement `Unsplitter`; do main and the depacker end | holds |
| `depack_top` | depacker.asm says its branch is always taken | violated by a program at the end of the memory |
| `layout_case` | README.md says every character of the accepted list names a table | violated: an upper case letter is accepted and its table is lost |
| `invoke` | are the settings valid and those of the command line; are the files written and crunched when main succeeds | holds |
| `resolve` | does lazy evaluation, asked for anything at any time, give the values expressions mean, and give up only where there is none | holds |
| `assemble` | are labels, branches and the program counter what is put out; is just one branch of each `.IF` assembled; does the assembler always end | holds |
| `words` | parse.c accepts words from -32768 on: are they put out as such | violated: `.WORD(-1)` gives `$ff $00` |
| `generate` | is the assembled depacker what the layout relies on, is it refused exactly when `Layout` says, does it leave the scanner as it was for the next call | holds |
| `parse` | do the tables of the parser recognise each statement as what it means; does each rule find the arguments it takes; does the splitter split what the assembler puts out; is nothing read ahead of a rule that changes the scanner; does the parser end | holds |
| `parse_names` | are different instructions different opcodes | violated: `bvs` is `bcs` |
| `containers` | is the vector a set and the buffer a string of bytes; do elements of a pool keep apart, are they all given back; does every call return, but those for a length that doubling never comes to | holds |

Bounds.  In `unsplit` and `depack` a byte has 22 values and a page 22 bytes.
22 is the least size for which the offsets of the pointers (up to 10) are below
the sign bit, as they are on the 6502.  Memory is `PAGE * PAGE` bytes in
`Layout` and `Depacker`, so a 16-bit address is an address of the model, and
the depacker has its real length of 68 to 77 bytes.  The programs cover every
mode, instructions that lack one or two argument bytes, programs that use all
opcodes (with and without a cut off end), all but one, and only opcode 0, the
empty program, and programs at the size limit.  `unsplit` takes all programs of
up to four bytes over four opcodes; the agreement of the two loops is decided
instruction by instruction, and the proof removes the bound.  The addresses in
`depack` make ranges touch, overlap, contain each other and end exactly at the
limit, make tables, program and store cross pages, and let a program end at the
last byte.

`invoke` has the real page of 256 bytes, ints of 18 bits and longs of 21, so
that there are numbers that fit a long and not an int, and some that do not fit
a long.  It takes every line of one word, every line of two and of three over
the options that influence each other, and all four formats of numbers on both
sides of each limit; and lines about files whose names have an extension or
not, coincide or not, on disks with nothing, with the input, and with files an
earlier call left.

`resolve` has a pool of four expressions, two leaves, one over them and one over
all, so that arguments are shared, over a word of 8 values, and depth 7 for
what needs at most five calls without a circle.  `assemble` takes every sequence
of up to four of ten statements after an origin and a macro, sources written
for what these do not reach, and all 7776 sequences of five conditional
directives; words have 18 bits, so that everything a 16-bit operand can and
cannot hold occurs; three nested sources suffice for a macro in a macro and for
one too many.  `generate` takes all kinds of end markers and addresses on both
sides of each limit.

`parse` takes every instruction in every form, and every form an instruction
does not have; every two operators in every nesting, with the parentheses they
need and no others; every two statements, and texts that are none.  What
follows a rule is decided by one token, and how rules nest by two of them, so
that longer texts show nothing new; that the stack does not grow with the text
is checked with one text that has every instruction.

`containers`: a vector of up to four keys has every shape of the search (no,
one, two and four elements, a hit and a miss at each place); three chunks of
seven bytes hold elements that fit once, twice, three times and seven times,
with rests; a buffer with ints of four bits takes lengths up to 7, of which
those above 4 are lengths that doubling never comes to.

Fairness.  The programs are sequential and run alone, so weak fairness of the
whole next-state relation says no more than that they do not stop by
themselves; a container has it for the steps of a call that was made, not for
calls.  `Returns`, `Assembles`, `Parses` and `ContainersReturn` need it.

The four violations.  `-O` finds a character with `strcasestr`, so `O` passes as
`o`, but the layout loop has lower case labels only: `table_op` stays
uninitialised, is compiled into the depacker, and the table is written to no
file.  The branch behind `jsr copy` is not taken when the copied byte was
stored at `$ffff`, since then `inc smc_out+2` leaves zero: the depacker falls
into `copy` and returns early.  Main accepts such a program because it compares
only the length of the program with the end of the memory, not the length of
what the depacker writes.  `.WORD` splits its value with `/` and `%`, which
round towards zero, so that a negative value gets a high byte that is too large
by one unless its low byte is zero.  And the scanner takes the word `bvs` for
`bcs`, so that the rule for it, with the opcode `$70`, is never used.
depacker.asm has no `.WORD` and no `bvs`.

What the caller has to provide.  The depacker is called only for programs
above the zeropage and the stack, since README.md leaves it to the user that
the ranges in memory do not overlap.  In `depack` every accepted program ends,
with what is trashed behind it, inside the memory; `depack_top` shows why.
`CrunchesItsFiles` supposes that the names of the files are apart, and that
`fork` succeeded:

- `-o x -p x.prg` crunches both parts to `x.exo`, and so does `-s` with an input
  `a.prg` and an output `a`;
- with `-s` and an output that is the input, the output is what is crunched as
  the input;
- after a `fork` that failed, the status is whatever was on the stack, and a
  crunched file of an earlier call is taken for the new one.

Found on the way, and part of the models:

- `-h` is listed by the usage (`prepack6502.c:121`) but missing in the short
  options (`:160`): only `--help` ends with success.
- A number that does not fit an int may be read as a valid address.
- An `.ENDIF` with no condition open ends the process, and so does `.INCLUDE` of a
  file that cannot be read; the dot of a directive that does not exist is skipped
  as an unknown character, so that `.nop` is `nop`.
- Conditions have to be comparisons: `.IF(1)` is a syntax error.  The end of a
  line is no token, so `lsr` followed by a line that starts with a label takes
  the label for its operand.  `jmp (a)` is assembled as `jmp a`, and an address
  in parentheses before `,y` is an indirect one.  A syntax error is never
  recovered from, and part of the refused line may be assembled by then.
- `cpx #` and `cpy #` take 0 to 255, the other immediates negative numbers too.
- `.incbin` without a length, of a file, takes nothing.
- The chunk pool that was freed is left with negative sizes and must be
  initialised again.  `membuf_atmost` makes the length that of the memory, so
  that bytes nobody wrote may become contents; nothing in the program calls it.
- `membuf_atleast` doubles the size until it is enough.  Beyond 2^30 bytes the
  shift overflows (`Wrapped`: a bit shifted out of an int is lost, as gcc does
  it), the size becomes negative and then zero, and the loop has no end.
  `ContainersReturn` says so: such a call stays where it is (`Endless`), every
  other one returns.  What is assumed is that the length itself, a sum of two,
  fits an int.

## The proofs

`UnsplitterTheorems` proves for every size of a byte of at least 22, every
opcode table, every buffer size and margin of at least two, and every set of
programs: the type invariant, all safety properties of the run `unsplit`, and
that the specification implements `Extraction`.  The assumptions are the named
ones of `Opcodes` and `Splitter`; TLC evaluates them for the instances.

The safety properties are not inductive: that the depacker outputs the right
byte depends on where the split loop put it, possibly long before.  The
inductive invariant `IInv` therefore remembers, for each instruction, its
position in the program and the lengths of the tables before it (`starts`).
`Instruction(k)` says that the bytes of the k-th instruction are found in the
tables just behind those lengths, `Balanced(k)` that the lengths add up to the
position, and `Retraces` that the depacker is at such a start, or within such an
instruction, with its counters equal to the remembered lengths.  Each action
has a lemma that it preserves the invariant; the three split actions share one,
`SplitStep`.  TLC checked `IInv` as an invariant before the proof was written.

`ExpressionsTheorems` proves for every word size, every pool of expressions and
every depth of the stack that the types are right and that each number which
replaced an expression is explained by its arguments (`AllExplained`).  This
invariant is inductive together with the types: an explanation depends only on
numbers and on definitions of symbols, and `Keeps` says that neither changes;
`ReturnHolds` is the step that makes a number, and the arithmetic lemmas show
that it is a word.  The assumptions are that the pool is well formed and that a
word holds at least -2 to 1.

From it follows that the numbers are those that a complete lazy evaluation
gives with the symbols as they are now (`ValuesCorrect`), and that only an
expression without a value stops the assembler (`FailsCorrect`).  The meaning is
a recursive function of the depth, and what it is in full is a fixed point of
one step of evaluation (`Gives`): every step but the last gives a value to one
more expression, so that as many steps as there are expressions are enough
(`FixPoint`).  These are inductions over the depth; they rest on `Inductive`,
which is proved from the library's fact that `<` is well-founded, with a set in
place of a predicate.  The invariant `MInv` adds that each call of
`resolve_expr2` is for an expression the caller needs (`CallsNeeded`): if the
one has no value down to some depth, the other has none one level further up.
A chain of needs from an expression with a value is thus no longer than the pool
(`ChainEnds`), which is why `FailsCorrect` has the hypothesis that the stack has
room for a call for each expression of the pool: with less room the program
dies over expressions that do have a value.

`AssemblerTheorems` proves for every set of sources and included files, every
word size above 65535, every depth of the stack of calls and every number of
nested buffers that the types are right (`AsmTypeCorrect`), that of the branches
of an `.IF` at most one is assembled, one if there is an `.ELSE`, and none where
the `.IF` is skipped (`OneBranchCorrect`), that a label and the program counter
of a branch are the address of the byte behind them (`PlacesCorrect`), and that
a branch is put out with the distance to its target (`BranchesCorrect`).  The invariant `AsmInv` has parts:

- `ScanInv`: what is left of each open buffer is still a text (`Path`, `Nested`,
  `MacrosOK`), so the items on the value stack are those a rule takes; and the
  stack of start conditions is as high as the conditionals are nested, each
  entry saying how far its `.IF` has come (`Levels`, `Linked`).
- `ValueInv`: whatever refers to an expression refers to one that exists, each
  atom has the arguments its type needs, and the marks are in their order.
- `PcMeans`: the program counter at a mark is an expression that may get its
  number only later, from definitions that come behind it, while the bytes are
  counted when the atoms are put out.  The invariant therefore speaks of any
  assignment `V` of numbers to expressions that adds up as the expressions say
  (`Obeys`) and any count `f` of bytes that adds up as the atoms say (`Adds`):
  for each of these, the mark lies as many bytes behind its `.ORG` as `f` counts.
  A step of the assembler adds expressions and atoms and so leaves fewer such
  `V` and `f`, which is why it is inductive although no number is known.
- `OutInv` and `PutOut`: an atom that was put out has as many bytes as counted.

When all is put out, the numbers of the program are such a `V` (`ValuesObey`),
the lengths of the output such an `f` (`AllPutOut`), and `PcMeans` for these is
what the theorems say.  Program counters wrap around like an `i32`, so that the
steps about them are congruences (`WrapSum`, `WrapBoth`).  The size above 65535
is needed because a checked operand of 16 bits has to be a number as it stands
(`LimitAssumption`).  TLC checked the parts on the instances of the run
`assemble` before they were proved.

That the scanner is at rest after a successful call (`RestCorrect`) needs a
condition on the text: one that leaves an `.IF` open would end the parser in
whatever start condition it is, and main calls the assembler twice.  `SelfContained`
is that condition; it excludes macros, too, whose text need not be closed in itself.
The invariant `RestInv` says of each open source how many conditionals it closes
that were open when it included the next one (`Openings`), and that the condition
below all others on the stack is the initial one (`Bottom`).  Text that is included
where some are open closes its own (`NestShift`), and where the main source
ends none is left, which together with the modes of the scanner leaves nothing
on the stack.  depacker.asm and the definitions in front of it are put together from
parts that are texts and self-contained (`DepackerAssumption`, closed formulas that TLC
evaluates for the calls of the run `generate`).  Two such parts in a row are one again
(`PartsJoin`), so the theorems about the assembler hold for the depacker
(`DepackerLeavesRest`, `DepackerPlaced`).

`ParserTheorems` proves for every set of texts and every limit of the stack
that the stacks of the parser keep their types and their common height
(`ParserTypeCorrect`), that each rule finds in its place on the value stack a
value of the kind it reads, so that each statement takes the expressions that
are there and leaves none (`ArgumentsAreThere`), that an instruction has the
opcode of the mode and as many bytes as the splitter's table says
(`InstructionsSplit`), and that the rules that change the state of the scanner
are reduced before it is asked again (`ScannerToldInTime`).  A theorem about
the parser is one about its tables, thousands of numbers, which a proof cannot
go through one by one.  `Automaton` says once what has to be known of them.  It computes the pairs
of states of which one can lie under the other (`Edges`): what a shift puts on a
state and, going back as many states as a rule is long, what is entered when the
rule is reduced, until nothing new comes (two rounds are enough, one is not).  What
it then assumes of the tables - every edge is there (`ShiftAssumption`,
`ReduceAssumption`), a state is entered by one symbol, a rule reads no value that lies
deeper than the rule is long, and finds the right kind there (`ReadsAssumption`),
... - has no parameter: each is a closed formula about the numbers in the file, true
or false once and for all, which TLC evaluates when it starts the runs `parse`
and `parse_names`.  (One more conjunct, of `TokenAssumption`, is that the words the
model writes are strings, which the provers cannot see.)

With them the invariant `PInv` is short: each state on the stack and the next are
an edge (`StatesFit`), each value is of the kind of the symbol of its state
(`ValuesFit`), the value of the token that was read is of its kind, and the items
so far leave no expression but those whose values are on the stack (`ItemsFit`).
`StackBeneath` follows the edges down from the top; as no edge leads to the
initial state as deep as a rule reaches, the stack is higher than the rule
(`StackHigh`) and the value the rule reads is what it takes it for (`Operand`).
Each action of the rules is then a step of its own.

`ContainersTheorems` proves for every set of keys and every capacity that the vector
implements `KeySet`.  The inductive invariant is that of a binary search
(`Narrowed`): what lies in front of `lo` is less and what lies behind `hi` is
greater than the key that is looked for, and nothing is looked for without the
flag; from it, the place made of a negative result keeps the order
(`FindTells`).

It proves for all sizes of elements, chunks and their table
that elements keep apart and that all are given back, the last one first.  The
invariant links each element to the one before (`Chain`): in its chunk just
below it, or, for the first of a chunk, the last one of the chunk before; all
positions are multiples of the size (`Sized`), and while the pool is freed,
`Current` says which element the walk is at.

It proves of the buffer, for every width of an int, every contents of fresh
memory and every place a buffer moves to that it implements `ByteString`: the
size that is looked for stays below twice the length that was asked for
(`FitsTwice`), so doubling overflows for no length that half of the range of an
int can hold, and the lemmas about memory say which bytes a copy changes.  That
the call for a longer one (`TooLong`) never returns is liveness, and stays with
the run.
A behaviour of `Containers` uses one of the three and is step by step one of its
specification (`ContainersImplement`), so that all of this holds for what the run
`containers` checks (`ContainersTypeCorrect`, `ContainersCorrect`).

`LayoutTheorems` proves for every order of the tables that main accepts, every
address, every program and both kinds of output that the tables keep apart
(`RangesApart`) and that the files hold them where the depacker looks
(`FilesHoldTables`); it takes the assumptions of `Opcodes`, `Splitter` and
`Layout`, and that the sizes are those of `DepackerShape`.  An order that has
each of nine characters in nine places has none of them twice
(`EntriesDiffer`), so a table is placed once.  The layout invariant `LayInv` says that
each table placed so far lies within its part, below the address that is next,
and that any two are apart or in different parts; the final range checks
separate the parts.  The files are written by a second loop over the same
order; `Routed` says that there is one sequence of addresses that both loops
follow, of which the first loop has placed its tables and the second has written
up to the one it is at.

`DepackerTheorems` proves for every size of a page from 22 on, every opcode
table, program, setting and accepted call that the 6502 code restores the
program (`UnpackedCorrect`), writes only its pointers, one byte of its own code
and the program (`WritesCorrect`), takes the branch it says is always taken
(`BranchCorrect`), and implements `Unsplitter` (`DepackerRefines`), so that its
memory keeps the promise of `Extraction` (`DepackerExtracts`).

The argument needs no second invariant about tables and instructions.  The
refinement mapping reads off the memory how many bytes were taken from each
table (its pointer, less the address of the table) and what was written (the
bytes from the load address up to the store instruction), and the invariant of
`Unsplitter`, proved for its own variables, is asked for these.  What remains
is `CpuInv`: the tables and the addresses behind the depacker are still in
memory, as many pointers are copied as the loop counter says, and each piece of
code finds in the registers what the piece before left there.  The lemmas about
`Distance` say how a word that wraps around counts bytes; `MemoryAfter` says
which bytes one call of `read_and_output` changes, and that the layout keeps
these apart from everything that is still read.  Each action of the depacker
then has two lemmas: that it keeps `CpuInv`, and that it is a step of
`Unsplitter` or none of it.  Of main, the proof needs `MainInv`: the layout
invariant, that both parts lie above the second page (`PartsAbove`), and that
the compiled depacker is the one for the tables as they are.

The theorems suppose `Intended`: every table has an address, and what is
written ends in memory.  Both conditions are those of the violated runs
`layout_case` and `depack_top`; without them the theorems are false.
`MeantIsIntended` derives them from the call alone: an order in the letters
README.md lists, and a program with three bytes of memory behind it;
`TrashBounded` says why three are enough.

`ExomizerTheorems` proves for every command line, of any length, that the settings
main goes on with are valid (`SettingsValid`).  They are at every word
(`OptInv`), since an option that is refused ends the loop.  The step that needs
an argument is `-O`: the new order is looked up in the one that is set, so it is
judged for itself only because that one has each character once; a counting
argument then shows that the new one has (`OrderAccepted`).  The assumption
`LineAssumption` says what a word of the command line is, `IntAssumption` that an
int holds every address and a long every int.

The settings are also those of the command line (`SettingsAsGiven`).  `GivenInv`
says at every word what each setting is in terms of the words before it; `Effect`
gathers what one option does to all the settings, and `LastNext` that an option
stands behind all those like it.  That an order is accepted if it is valid is the
other direction of the counting argument (`OrderPasses`).  What strtol makes of a
text and the numerals it is given are recursive functions over the places of the
text; that a numeral in any of the four formats is read as its number, for any
number that fits in an int and any size of an int (`FormatsRead`), is proved for
sets of places, as `<` is well-founded (`Least`, `Inductive`, `Iterated`), since
induction over an operator is beyond the provers.  Whatever the text is, what main
keeps of it fits in an int (`NumberInt`), on which `ExoTypeOK` rests, with
`CallInv`: no file is ever removed, so those to crunch are there.

It proves too, for all contents of the files and every way a child process ends,
that a successful call crunched its own files (`CrunchesItsFiles`).  The property
is about the last state only; `FileInv` says what is known on the way: behind the
output every file of the call has its contents, the queue is what is left of the
files to crunch, one size was returned for each of the others and its crunched
file is there, and the child that ended with success has written the next one.
That each of these stays true while others are written is where the names have
to be apart (`ApartFacts`, `OthersStay`), and that a status is the child's is
where `fork` has to succeed.

Only model-checked: that depacker.asm assembles to what the layout relies on
and when it is refused (`AssembledAsLaidOut` and `RefusedIfTooLarge`, which are
about one text, so that a proof could only run the assembler on it); that the parser
takes a statement for what it means (`ParsesAsMeant`, which compares given texts
with what is meant by them, so that a proof could only run the parser on each);
and everything about liveness, which is beyond the prover as is `ENABLED`.

## What is not modelled

- Printed output: statistics, memory map, usage, logging, `.ECHO`.
- The tables of the scanner that flex generated: how characters become words,
  numbers and strings.  `Lexemes` starts from the longest match.
- The build with `DISABLE_EXOMIZER`, which has neither `-e` nor `-s`.
- `getopt_long` beyond what main relies on: `--`, abbreviated long options.
- Errors that only show when a file is closed: main ignores them.
- What exomizer makes of a file.
- The C strings of `namedbuf.c`; `write_file`, which nothing calls.  A pointer to
  a named buffer goes stale when another one is inserted before it; no caller
  keeps one that long, since a macro is copied without another rule in between
  and the source is inserted first.
- Interrupts on the 6502, and a second call of the depacker, which would start
  from the store instruction the first call modified.

## Plan

1. Splitter, unsplitter and their promise; the invariant proved (done).
2. Layout and files; the depacker in memory as an implementation of the
   unsplitter (done, with proofs).
3. Layout and options proved: ranges apart, files at their addresses, settings
   valid and as given (done).
4. Containers (done, with proofs).
5. Assembler: expressions, scanner, program counter, output, with proofs of
   all its properties; the depacker assembled, checked (done).
6. The parser from its tables, all mnemonics, the real opcode table; options
   and exomizer (done, with proofs).
7. Open for proof: `AssembledAsLaidOut` and `RefusedIfTooLarge` for all operands.
