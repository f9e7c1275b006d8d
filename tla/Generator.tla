------------------------------ MODULE Generator ------------------------------
(***************************************************************************)
(* gen_decruncher: the definitions it puts in front of depacker.asm, and   *)
(* depacker.asm itself, given to the assembler.                            *)
(***************************************************************************)
EXTENDS Assembler, Statements, DepackerShape, SequencesExt

CONSTANT Calls   \* arguments of gen_decruncher

VARIABLE call    \* those of this call

\* eof_marker is this if all opcodes are used.
NO_MARKER == 256

LoName ==
  <<"ADDR_TABLE_ABS_LO_LO", "ADDR_TABLE_ABS_HI_LO", "ADDR_TABLE_IMM_LO",
    "ADDR_TABLE_REL_LO", "ADDR_TABLE_ZP_LO", "ADDR_TABLE_OP_LO">>
HiName ==
  <<"ADDR_TABLE_ABS_LO_HI", "ADDR_TABLE_ABS_HI_HI", "ADDR_TABLE_IMM_HI",
    "ADDR_TABLE_REL_HI", "ADDR_TABLE_ZP_HI", "ADDR_TABLE_OP_HI">>

\* Mutant: the high byte of the end wraps around.
DestinationWrapped(c) ==
  Symbol("ADDR_DEST_LO", Num(c.destination % 256)) \o
  Symbol("ADDR_DEST_AND_FF00", Num(c.destination - (c.destination % 256))) \o
  Symbol("ADDR_DEST_END_LO", Num(c.destination_end % 256)) \o
  Symbol("ADDR_DEST_END_HI", Num((c.destination_end \div 256) % 256))

Destination(c) ==
  Symbol("ADDR_DEST_LO", Num(c.destination % 256)) \o
  Symbol("ADDR_DEST_AND_FF00", Num(c.destination - (c.destination % 256))) \o
  Symbol("ADDR_DEST_END_LO", Num(c.destination_end % 256)) \o
  Symbol("ADDR_DEST_END_HI", Num(c.destination_end \div 256))

Definitions(c) ==
  Symbol("EOF_MARKER", Num(c.eof_marker)) \o
  Symbol("ZP_TEMP", Num(c.zpaddr)) \o
  Symbol("ADDR_BASE", Num(c.program_base)) \o
  Destination(c) \o
  Symbol("ADDR_TABLE_ARGTABLE", Num(c.table_argtable)) \o
  FlattenSeq([n \in 1 .. 6 |->
    Symbol(LoName[n], Num(c.tables[n] % 256)) \o
    Symbol(HiName[n], Num(c.tables[n] \div 256))])

-----------------------------------------------------------------------------
Ldx(e) == OpArg("UI8", 162, e)
LdyNum(e) == OpArg("UI8", 160, e)
CmpNum(e) == OpArg("UI8", 201, e)
CpxNum(e) == OpArg("U8", 224, e)
CpyNum(e) == OpArg("U8", 192, e)
LdaAbs(e) == OpArg("U16", 173, e)
LdaAbsX(e) == OpArg("U16", 189, e)
LdaZpXInd(e) == OpArg("U8", 161, e)
StaZpX(e) == OpArg("U8", 149, e)
StaAbsY(e) == OpArg("U16", 153, e)
IncZpX(e) == OpArg("U8", 246, e)
IncAbs(e) == OpArg("U16", 238, e)
Jsr(e) == OpArg("U16", 32, e)
Bpl(e) == OpArg("I8", 16, e)
Bmi(e) == OpArg("I8", 48, e)
Bne(e) == OpArg("I8", 208, e)
Beq(e) == OpArg("I8", 240, e)
Dex == Op0(202)
Inx == Op0(232)
Iny == Op0(200)
Tax == Op0(170)
Rts == Op0(96)

\* From the entry to the main loop.
CopyLoop ==
  Ldx(Apply2("MINUS", Apply2("MULT", Num(2), Num(6)), Num(1))) \o
  Label("copyloop") \o
  LdaAbsX(Sym("table_of_tables")) \o
  StaZpX(Sym("ZP_TEMP")) \o
  Dex \o
  Bpl(Sym("copyloop")) \o
  LdyNum(Sym("ADDR_DEST_LO"))

\* Ask for the end before the byte is read, if there is no end marker.
LongEndCheck ==
  If(Apply2("GT", Sym("EOF_MARKER"), Num(255))) \o
    CpyNum(Sym("ADDR_DEST_END_LO")) \o
    Bne(Sym("noeof")) \o
    LdaAbs(Apply2("PLUS", Sym("smc_out"), Num(2))) \o
    CmpNum(Sym("ADDR_DEST_END_HI")) \o
    Beq(Sym("go_rts")) \o
    Label("noeof") \o
  Endif

\* Mutant: zero is compared with like any other marker.
ShortEndCheckLonger ==
  If(Apply2("LT", Sym("EOF_MARKER"), Num(256))) \o
    CpxNum(Sym("EOF_MARKER")) \o
    Beq(Sym("go_rts")) \o
  Endif

ShortEndCheck ==
  If(Apply2("LT", Sym("EOF_MARKER"), Num(256))) \o
    If(Apply2("NEQ", Sym("EOF_MARKER"), Num(0))) \o
      CpxNum(Sym("EOF_MARKER")) \o
    Endif \o
    Beq(Sym("go_rts")) \o
  Endif

MainLoop ==
  Label("mainloop") \o
  LongEndCheck \o
  Ldx(Num(10)) \o
  Jsr(Sym("read_and_output")) \o
  Tax \o
  ShortEndCheck \o
  Jsr(Sym("copy")) \o
  Bne(Sym("mainloop"))

Copy ==
  Label("copy") \o
  LdaAbsX(Sym("ADDR_TABLE_ARGTABLE")) \o
  Bmi(Sym("go_rts")) \o
  Tax \o
  Bne(Sym("read_and_output")) \o
  Jsr(Sym("read_and_output")) \o
  Inx \o
  Inx

ReadAndOutputCode ==
  Label("read_and_output") \o
  LdaZpXInd(Sym("ZP_TEMP")) \o
  IncZpX(Apply2("PLUS", Sym("ZP_TEMP"), Num(0))) \o
  Bne(Sym("no_inc")) \o
  IncZpX(Apply2("PLUS", Sym("ZP_TEMP"), Num(1))) \o
  Label("no_inc") \o
  Label("smc_out") \o
  StaAbsY(Sym("ADDR_DEST_AND_FF00")) \o
  Iny \o
  Bne(Sym("go_rts")) \o
  IncAbs(Apply2("PLUS", Sym("smc_out"), Num(2))) \o
  Label("go_rts") \o
  Rts

TableOfTables ==
  Label("table_of_tables") \o
  FlattenSeq([n \in 1 .. 6 |-> Byte(2, Sym(LoName[n]) \o Sym(HiName[n]))])

DepackerAsm ==
  Org(Sym("ADDR_BASE")) \o CopyLoop \o MainLoop \o Copy \o
  ReadAndOutputCode \o TableOfTables

\* All parts are texts for module Assembler that close their conditionals, and
\* so is the whole: what is proved there of such texts holds for it.
ASSUME DepackerAssumption ==
  \A part \in {Definitions(c) : c \in Calls} \cup
             {Org(Sym("ADDR_BASE")), CopyLoop, MainLoop, Copy, ReadAndOutputCode, TableOfTables} :
    Text(part) /\ SelfContained(part)

-----------------------------------------------------------------------------
InitGenerator ==
  /\ call \in Calls
  /\ buffers = <<Definitions(call) \o DepackerAsm>>
  /\ InitAsm

NextGenerator == NextAssembler /\ UNCHANGED call

gvars == <<avars, call>>

SpecGenerator ==
  /\ InitGenerator
  /\ [][NextGenerator \/ (Ended /\ UNCHANGED gvars)]_gvars
  /\ WF_gvars(NextGenerator)

-----------------------------------------------------------------------------
(***************************************************************************)
(* Properties.                                                             *)
(***************************************************************************)
Length == DepackerLength(call.eof_marker, NO_MARKER)

\* The assembled depacker has the length main laid the tables out for, which
\* is that of another call with other addresses, and the bytes the depacker
\* changes or takes for addresses are where Layout says.
AssembledAsLaidOut ==
  asm = "done" =>
    /\ Len(out) = Length
    /\ out[SmcOffset(Length) + 1] = call.destination \div 256
    /\ \A n \in 1 .. 6 :
         out[TablesOffset(Length) + 2 * n - 1] + 256 * out[TablesOffset(Length) + 2 * n]
           = call.tables[n] % 65536

\* The assembler refuses the depacker, if the end of the program does not fit
\* into a byte where it is compared, or if it is itself or the argument table
\* outside of the memory, and only then.
Refused ==
  \/ call.eof_marker = NO_MARKER /\ call.destination_end > 65535
  \/ call.program_base + TablesOffset(Length) > 65535
  \/ call.table_argtable \notin 0 .. 65535

RefusedIfTooLarge ==
  Ended => IF Refused THEN asm = "failed" ELSE asm = "done"
=============================================================================
