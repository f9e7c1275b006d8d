------------------------------ MODULE Lexemes ------------------------------
(***************************************************************************)
(* The tokens of the assembler as text: which token the scanner makes of   *)
(* what it finds.                                                          *)
(*                                                                         *)
(* A lexeme is what the longest match of a pattern covers, without         *)
(* distinction of case: a directive (".org"), a word ("lda", "label"), a   *)
(* number, a string in quotes, or a sign.  Blanks, comments and ends of    *)
(* lines are none.                                                         *)
(***************************************************************************)
EXTENDS Integers, TLC

Directive == [
  if |-> "IF", include |-> "INCLUDE", macro |-> "MACRO", defined |-> "DEFINED",
  org |-> "ORG", error |-> "ASMERROR", echo |-> "ECHO", incbin |-> "INCBIN",
  incword |-> "INCWORD", res |-> "RES", word |-> "WORD", byte |-> "BYTE"]

\* Words that are mnemonics.
MemoryWord == [
  lda |-> "LDA", ldx |-> "LDX", ldy |-> "LDY", sta |-> "STA", stx |-> "STX",
  sty |-> "STY", and |-> "AND", ora |-> "ORA", eor |-> "EOR", adc |-> "ADC",
  sbc |-> "SBC", cmp |-> "CMP", cpx |-> "CPX", cpy |-> "CPY"]

ImpliedWord == [
  tsx |-> "TSX", txs |-> "TXS", pha |-> "PHA", pla |-> "PLA", php |-> "PHP",
  plp |-> "PLP", sei |-> "SEI", cli |-> "CLI", nop |-> "NOP", tya |-> "TYA",
  tay |-> "TAY", txa |-> "TXA", tax |-> "TAX", clc |-> "CLC", sec |-> "SEC",
  rts |-> "RTS"]

JumpWord == [
  jsr |-> "JSR", jmp |-> "JMP", beq |-> "BEQ", bne |-> "BNE", bcc |-> "BCC",
  bcs |-> "BCS", bpl |-> "BPL", bmi |-> "BMI", bvc |-> "BVC", bvs |-> "BCS"]

ModifyWord == [
  inx |-> "INX", dex |-> "DEX", iny |-> "INY", dey |-> "DEY", inc |-> "INC",
  dec |-> "DEC", lsr |-> "LSR", asl |-> "ASL", ror |-> "ROR", rol |-> "ROL"]

Register == [x |-> "X", y |-> "Y"]

Word == MemoryWord @@ ImpliedWord @@ JumpWord @@ ModifyWord @@ Register

Sign ==
  "<" :> "LT" @@ ">" :> "GT" @@ "==" :> "EQ" @@ "!=" :> "NEQ" @@ "!" :> "LNOT" @@
  "&&" :> "LAND" @@ "||" :> "LOR" @@ "(" :> "LPAREN" @@ ")" :> "RPAREN" @@
  "," :> "COMMA" @@ ":" :> "COLON" @@ "#" :> "HASH" @@ "+" :> "PLUS" @@
  "-" :> "MINUS" @@ "*" :> "MULT" @@ "/" :> "DIV" @@ "%" :> "MOD" @@ "=" :> "ASSIGN"

\* Conditionals are not lexemes of the parser, but for their ends.
Lexeme ==
       [t : {"directive"}, v : STRING \ {"else", "elif"}]
  \cup [t : {"word", "quoted"}, v : STRING]
  \cup [t : {"sign"}, v : DOMAIN Sign]
  \cup [t : {"number"}, n : Int]

\* Any other word is the name of a symbol.
WordToken(v) == IF v \in DOMAIN Word THEN Word[v] ELSE "SYMBOL"

\* The dot of what is no directive is skipped as an unknown character.
Token(lexeme) ==
  CASE lexeme.t = "directive" ->
         IF lexeme.v \in DOMAIN Directive THEN Directive[lexeme.v] ELSE WordToken(lexeme.v)
    [] lexeme.t = "word"      -> WordToken(lexeme.v)
    [] lexeme.t = "sign"      -> Sign[lexeme.v]
    [] lexeme.t = "number"    -> "NUMBER"
    [] lexeme.t = "quoted"    -> "STRING"

\* What is stored in yylval.
Value(lexeme) == IF lexeme.t = "number" THEN lexeme.n ELSE lexeme.v
=============================================================================
