--------------------------- MODULE GrammarTables ---------------------------
(***************************************************************************)
(* The tables of the generated parser: what it does in which state.        *)
(*                                                                         *)
(* Arrays of the code start at 0, sequences at 1: Entry reads an array.    *)
(***************************************************************************)
EXTENDS Integers, Sequences

Entry(array, i) == array[i + 1]

-----------------------------------------------------------------------------
(***************************************************************************)
(* Symbols.                                                                *)
(***************************************************************************)
\* The tokens in the order of their numbers.
yytokentype == <<
  "INCLUDE", "IF", "DEFINED", "MACRO", "MACRO_STRING", "ORG", "ASMERROR",
  "ECHO", "INCBIN", "INCWORD", "RES", "WORD", "BYTE", "LDA", "LDX", "LDY",
  "STA", "STX", "STY", "AND", "ORA", "EOR", "ADC", "SBC", "CMP", "CPX",
  "CPY", "TSX", "TXS", "PHA", "PLA", "PHP", "PLP", "SEI", "CLI", "NOP",
  "TYA", "TAY", "TXA", "TAX", "CLC", "SEC", "RTS", "JSR", "JMP", "BEQ",
  "BNE", "BCC", "BCS", "BPL", "BMI", "BVC", "BVS", "INX", "DEX", "INY",
  "DEY", "INC", "DEC", "LSR", "ASL", "ROR", "ROL", "SYMBOL", "STRING",
  "LAND", "LOR", "LNOT", "LPAREN", "RPAREN", "COMMA", "COLON", "X", "Y",
  "HASH", "PLUS", "MINUS", "MULT", "DIV", "MOD", "LT", "GT", "EQ", "NEQ",
  "ASSIGN", "NUMBER", "vNEG">>

\* Symbols 0 to 2 are the end of the text, the error token and the token for
\* what the scanner does not know.
yytranslate ==
  [t \in {yytokentype[i] : i \in 1 .. Len(yytokentype)} \cup {"$end"} |->
     IF t = "$end" THEN 0 ELSE 2 + CHOOSE i \in 1 .. Len(yytokentype) : yytokentype[i] = t]

YYNTOKENS == 90
YYFINAL == 212
YYLAST == 591
YYPACT_NINF == -202

-----------------------------------------------------------------------------
(***************************************************************************)
(* Rules: the symbol each defines, and the number of symbols it consists   *)
(* of.                                                                     *)
(***************************************************************************)
\* n times the value v.
Times(n, v) == [i \in 1 .. n |-> v]

yyr1 ==
  <<0, 90, 91, 91>> \o Times(10, 92) \o Times(7, 93) \o <<94, 94>> \o
  Times(143, 95) \o <<96, 97, 98, 99, 100, 101, 102, 103, 104>> \o
  Times(10, 105) \o Times(9, 106)

yyr2 ==
  <<0, 2, 2, 1, 2, 3>> \o Times(6, 4) \o <<1, 1, 1, 6, 4, 4, 4, 6, 8, 3,
  1>> \o Times(85, 2) \o Times(16, 1) \o Times(10, 2) \o <<1, 1, 1, 1>> \o
  Times(8, 2) \o <<1, 2, 2, 2, 2, 1, 2, 2, 2, 2, 1, 2, 2, 2, 2, 1, 2, 2,
  2, 2, 2, 1, 3, 3, 2, 4, 4, 5, 5, 3, 3, 3, 3, 3, 2, 3, 6, 1, 1, 3, 3, 2,
  3, 3, 3, 3, 3, 4>>

-----------------------------------------------------------------------------
(***************************************************************************)
(* States: what to do without a token that says otherwise, and where to    *)
(* look up what to do with one.                                            *)
(***************************************************************************)
\* The rule to reduce, 0 for an error.
yydefact == <<
  0, 0, 0, 0, 13, 0, 0, 0, 0, 0, 0, 0, 0, 0, 0, 0, 0, 0, 0, 0, 0, 0, 0, 0,
  0, 0, 109, 108, 110, 111, 112, 113, 114, 115, 116, 117, 118, 119, 120,
  121, 122, 123, 0, 0, 0, 0, 0, 0, 0, 0, 0, 0, 134, 135, 136, 137, 0, 0,
  146, 151, 156, 161, 0, 0, 3, 12, 14, 0, 0, 0, 0, 0, 0, 0, 0, 0, 0, 0, 184,
  0, 0, 0, 0, 183, 23, 26, 27, 28, 24, 25, 29, 30, 167, 0, 0, 31, 34, 35,
  32, 33, 167, 36, 39, 40, 37, 38, 43, 44, 45, 41, 42, 46, 47, 50, 48, 49,
  167, 53, 51, 52, 54, 57, 58, 59, 55, 56, 60, 61, 62, 65, 66, 67, 63, 64,
  68, 69, 70, 73, 74, 75, 71, 72, 76, 77, 78, 81, 82, 83, 79, 80, 84, 85,
  86, 89, 90, 91, 87, 88, 92, 93, 94, 97, 98, 99, 95, 96, 100, 101, 0, 102,
  104, 103, 105, 107, 106, 124, 125, 126, 127, 128, 129, 130, 131, 132, 133,
  140, 141, 138, 139, 167, 144, 145, 142, 143, 149, 150, 147, 148, 154, 155,
  152, 153, 159, 160, 157, 158, 164, 165, 162, 163, 4, 0, 1, 2, 0, 0, 0, 0,
  0, 0, 0, 0, 0, 0, 0, 0, 0, 22, 0, 0, 0, 166, 180, 170, 0, 0, 0, 0, 0, 0,
  0, 170, 0, 170, 0, 5, 10, 0, 187, 0, 0, 0, 0, 0, 0, 0, 0, 6, 11, 7, 8, 9,
  18, 0, 0, 16, 0, 17, 0, 181, 0, 0, 168, 169, 175, 176, 177, 178, 179, 181,
  0, 0, 188, 189, 190, 191, 192, 186, 185, 0, 0, 21, 0, 0, 0, 171, 172, 193,
  19, 0, 15, 0, 174, 173, 0, 182, 20>>

\* The symbol by which a state is entered.
yystos == <<
  0, 3, 4, 6, 7, 8, 9, 10, 11, 13, 14, 15, 16, 17, 18, 19, 20, 21, 22, 23,
  24, 25, 26, 27, 28, 29, 30, 31, 32, 33, 34, 35, 36, 37, 38, 39, 40, 41,
  42, 43, 44, 45, 46, 47, 48, 49, 50, 51, 52, 53, 54, 55, 56, 57, 58, 59,
  60, 61, 62, 63, 64, 65, 66, 91, 92, 93, 95, 71, 71, 71, 71, 71, 71, 71,
  71, 71, 71, 12, 66, 71, 77, 79, 83, 88, 96, 97, 98, 99, 100, 101, 103,
  104, 105, 71, 83, 96, 97, 99, 100, 102, 105, 96, 97, 99, 100, 101, 97, 98,
  99, 100, 101, 103, 104, 97, 100, 102, 105, 97, 100, 101, 96, 97, 98, 99,
  100, 101, 103, 104, 96, 97, 98, 99, 100, 101, 103, 104, 96, 97, 98, 99,
  100, 101, 103, 104, 96, 97, 98, 99, 100, 101, 103, 104, 96, 97, 98, 99,
  100, 101, 103, 104, 96, 97, 98, 99, 100, 101, 103, 104, 83, 96, 97, 100,
  96, 97, 100, 97, 97, 97, 97, 97, 97, 97, 97, 97, 97, 97, 98, 100, 101,
  105, 97, 98, 100, 101, 97, 98, 100, 101, 97, 98, 100, 101, 97, 98, 100,
  101, 97, 98, 100, 101, 74, 87, 0, 92, 67, 5, 70, 71, 105, 106, 67, 105,
  67, 67, 67, 105, 94, 105, 94, 71, 105, 105, 105, 105, 73, 78, 79, 80, 81,
  82, 105, 105, 73, 105, 73, 105, 72, 71, 106, 105, 106, 83, 84, 85, 86, 68,
  69, 72, 72, 72, 72, 72, 72, 73, 73, 72, 73, 72, 67, 72, 73, 73, 75, 76,
  105, 105, 105, 105, 105, 72, 73, 66, 72, 105, 105, 105, 105, 106, 106,
  105, 105, 105, 73, 73, 75, 75, 76, 72, 72, 73, 72, 105, 76, 72, 105, 72,
  72>>

\* The state to go to after a symbol was reduced.
yydefgoto == <<
  -1, 63, 64, 65, 226, 66, 84, 85, 86, 87, 88, 89, 99, 90, 91, 116, 219>>

\* Where the entries of a state start in yytable; YYPACT_NINF: it has none.
yypact == <<
  339, -67, -28, -14, -202, -10, -6, -5, 1, 4, 5, 9, 8, 22, 23, 41, 48, 59,
  8, 8, 8, 8, 8, 8, 38, 38, -202, -202, -202, -202, -202, -202, -202, -202,
  -202, -202, -202, -202, -202, -202, -202, -202, 78, 78, 78, 78, 78, 78,
  78, 78, 78, 78, -202, -202, -202, -202, 59, 59, 59, 59, 59, 59, -69, 275,
  -202, -202, -202, -8, 7, 16, 78, 17, 25, 30, 78, 78, 78, 27, -202, 78, 78,
  78, 78, -202, -202, -202, -202, -202, -202, -202, -202, -202, 441, 78, 78,
  -202, -202, -202, -202, -202, 451, -202, -202, -202, -202, -202, -202,
  -202, -202, -202, -202, -202, -202, -202, -202, -202, 102, -202, -202,
  -202, -202, -202, -202, -202, -202, -202, -202, -202, -202, -202, -202,
  -202, -202, -202, -202, -202, -202, -202, -202, -202, -202, -202, -202,
  -202, -202, -202, -202, -202, -202, -202, -202, -202, -202, -202, -202,
  -202, -202, -202, -202, -202, -202, -202, -202, -202, -202, -202, -202,
  -202, 78, -202, -202, -202, -202, -202, -202, -202, -202, -202, -202,
  -202, -202, -202, -202, -202, -202, -202, -202, -202, -202, 461, -202,
  -202, -202, -202, -202, -202, -202, -202, -202, -202, -202, -202, -202,
  -202, -202, -202, -202, -202, -202, -202, -202, 78, -202, -202, 31, 37, 7,
  7, 188, 65, 44, 399, 46, 50, -59, 471, -51, 102, -36, 56, -40, 102, -202,
  481, -24, 78, 78, 78, 78, 78, 410, 491, 52, 102, 57, 102, -202, 47, -202,
  -55, 71, 78, 78, 78, 78, 7, 7, -202, -202, -202, -202, -202, -202, 78, 78,
  -202, 78, -202, 62, 68, 73, 80, -202, -202, 70, 70, -202, -202, -202,
  -202, 69, 74, -202, 102, 102, 102, 102, -202, 117, 394, 415, 102, 78, 112,
  124, -202, -202, -202, -202, 78, -202, 426, -202, -202, 431, -202, -202>>

yypgoto == <<
  -202, -202, 134, -202, 122, -202, 140, 393, 404, 242, 154, 172, 184, 559,
  568, -12, -201>>

\* The state to shift to, or the rule to reduce if negative.
yytable ==
  <<92, 100, 100, 92, 67, 210>> \o Times(6, 92) \o <<215, 262, 263, 248,
  250, 279, 211, 77, 77, 265, 266, 235, 236, 237, 238, 239, 251, 252, 253,
  254, 269, 270, 77, 77, 267, 266, 235, 236, 237, 238, 239, 68>> \o
  Times(6, 189) \o <<77, 272, 273, 77, 287, 288, 218, 69, 221, 214, 77,
  70, 225, 227, 227, 71, 72, 230, 231, 232, 233, 77, 73, 78, 78, 74, 75,
  216, 217, 79, 76, 240, 241, 220, 222, 80, 81, 81, 78, 78, 77, 82, 223,
  93, 93, 83, 83, 224, 229, 80, 80, 81, 81, 246, 78, 94, 82, 78, 247, 93,
  83, 83, 79, 281, 78, 80, 258, 81, 260, 93, 81, 168, 261, 268, 82, 78,
  83, 81, 273, 83, 93, 94, 272, 255, 256, 292, 83, 257, 81, 255, 256, 293,
  82, 282, 78, 296, 297, 83, 294, 93, 237, 238, 239, 95, 101, 295, 243,
  81, 120, 128, 136, 144, 152, 160, 169, 172, 83, 98, 104, 109, 114, 118,
  124, 132, 140, 148, 156, 164, 171, 174, 235, 236, 237, 238, 239, 255,
  105, 110, 302, 119, 125, 133, 141, 149, 157, 165, 303, 213, 228, 245,
  115, 0, 0, 0, 218, 249, 0, 0, 0, 0, 187, 192, 196, 200, 204, 208>> \o
  Times(7, 0) \o <<274, 275, 276, 277, 278, 188, 193, 197, 201, 205, 209,
  0, 0, 0, 0, 0, 283, 284, 285, 286, 218, 218>> \o Times(6, 0) \o <<289,
  290, 0, 291, 97, 103, 108, 0, 0, 123, 131, 139, 147, 155, 163, 235, 236,
  237, 238, 239, 251, 252, 253, 254, 212, 0, 0, 1, 2, 301, 3, 4, 5, 6, 7,
  8, 304, 9, 10, 11, 12, 13, 14, 15, 16, 17, 18, 19, 20, 21, 22, 23, 24,
  25, 26, 27, 28, 29, 30, 31, 32, 33, 34, 35, 36, 37, 38, 39, 40, 41, 42,
  43, 44, 45, 46, 47, 48, 49, 50, 51, 52, 53, 54, 55, 56, 57, 58, 59, 60,
  61, 62, 1, 2, 0, 3, 4, 5, 6, 7, 8, 0, 9, 10, 11, 12, 13, 14, 15, 16, 17,
  18, 19, 20, 21, 22, 23, 24, 25, 26, 27, 28, 29, 30, 31, 32, 33, 34, 35,
  36, 37, 38, 39, 40, 41, 42, 43, 44, 45, 46, 47, 48, 49, 50, 51, 52, 53,
  54, 55, 56, 57, 58, 59, 60, 61, 62, 96, 102, 106, 113, 117, 121, 129,
  137, 145, 153, 161, 170, 173, 107, 0, 0, 122, 130, 138, 146, 154, 162>>
  \o Times(7, 0) \o <<175, 176, 177, 178, 179, 180, 181, 182, 183, 184, 0,
  0, 0, 0, 185, 190, 194, 198, 202, 206, 0, 0, 0, 0, 0, 186, 191, 195,
  199, 203, 207, 298, 299, 0, 0, 0, 259, 235, 236, 237, 238, 239, 235,
  236, 237, 238, 239, 279, 0, 0, 0, 0, 300, 235, 236, 237, 238, 239, 235,
  236, 237, 238, 239, 305, 0, 0, 0, 0, 306, 235, 236, 237, 238, 239, 235,
  236, 237, 238, 239, 234, 0, 0, 0, 0, 235, 236, 237, 238, 239, 242, 0, 0,
  0, 0, 235, 236, 237, 238, 239, 244, 0, 0, 0, 0, 235, 236, 237, 238, 239,
  264, 0, 0, 0, 0, 235, 236, 237, 238, 239, 271, 0, 0, 0, 0, 235, 236,
  237, 238, 239, 280, 0, 0, 0, 0, 235, 236, 237, 238, 239, 111, 0, 0, 126,
  134, 142, 150, 158, 166, 112, 0, 0, 127, 135, 143, 151, 159, 167>>

\* The symbol or state an entry of yytable is for.
yycheck ==
  <<12, 13, 14, 15, 71, 74, 18, 19, 20, 21, 22, 23, 5, 72, 73, 216, 217,
  72, 87, 12, 12, 72, 73, 78, 79, 80, 81, 82, 83, 84, 85, 86, 72, 73, 12,
  12, 72, 73, 78, 79, 80, 81, 82, 71, 56, 57, 58, 59, 60, 61, 12, 75, 76,
  12, 255, 256, 68, 71, 70, 67, 12, 71, 74, 75, 76, 71, 71, 79, 80, 81,
  82, 12, 71, 66, 66, 71, 71, 70, 71, 71, 71, 93, 94, 67, 67, 77, 79, 79,
  66, 66, 12, 83, 67, 71, 71, 88, 88, 67, 71, 77, 77, 79, 79, 72, 66, 83,
  83, 66, 71, 71, 88, 88, 71, 66, 66, 77, 72, 79, 72, 71, 79, 83, 72, 67,
  83, 66, 88, 79, 76, 88, 71, 83, 75, 68, 69, 73, 88, 72, 79, 68, 69, 73,
  83, 72, 66, 76, 72, 88, 75, 71, 80, 81, 82, 13, 14, 75, 168, 79, 18, 19,
  20, 21, 22, 23, 24, 25, 88, 13, 14, 15, 16, 17, 18, 19, 20, 21, 22, 23,
  24, 25, 78, 79, 80, 81, 82, 68, 14, 15, 76, 17, 18, 19, 20, 21, 22, 23,
  72, 63, 76, 211, 16, -1, -1, -1, 216, 217, -1, -1, -1, -1, 56, 57, 58,
  59, 60, 61>> \o Times(7, -1) \o <<235, 236, 237, 238, 239, 56, 57, 58,
  59, 60, 61, -1, -1, -1, -1, -1, 251, 252, 253, 254, 255, 256>> \o
  Times(6, -1) \o <<263, 264, -1, 266, 13, 14, 15, -1, -1, 18, 19, 20, 21,
  22, 23, 78, 79, 80, 81, 82, 83, 84, 85, 86, 0, -1, -1, 3, 4, 292, 6, 7,
  8, 9, 10, 11, 299, 13, 14, 15, 16, 17, 18, 19, 20, 21, 22, 23, 24, 25,
  26, 27, 28, 29, 30, 31, 32, 33, 34, 35, 36, 37, 38, 39, 40, 41, 42, 43,
  44, 45, 46, 47, 48, 49, 50, 51, 52, 53, 54, 55, 56, 57, 58, 59, 60, 61,
  62, 63, 64, 65, 66, 3, 4, -1, 6, 7, 8, 9, 10, 11, -1, 13, 14, 15, 16,
  17, 18, 19, 20, 21, 22, 23, 24, 25, 26, 27, 28, 29, 30, 31, 32, 33, 34,
  35, 36, 37, 38, 39, 40, 41, 42, 43, 44, 45, 46, 47, 48, 49, 50, 51, 52,
  53, 54, 55, 56, 57, 58, 59, 60, 61, 62, 63, 64, 65, 66, 13, 14, 15, 16,
  17, 18, 19, 20, 21, 22, 23, 24, 25, 15, -1, -1, 18, 19, 20, 21, 22, 23>>
  \o Times(7, -1) \o <<42, 43, 44, 45, 46, 47, 48, 49, 50, 51, -1, -1, -1,
  -1, 56, 57, 58, 59, 60, 61, -1, -1, -1, -1, -1, 56, 57, 58, 59, 60, 61,
  72, 73, -1, -1, -1, 72, 78, 79, 80, 81, 82, 78, 79, 80, 81, 82, 72, -1,
  -1, -1, -1, 72, 78, 79, 80, 81, 82, 78, 79, 80, 81, 82, 72, -1, -1, -1,
  -1, 72, 78, 79, 80, 81, 82, 78, 79, 80, 81, 82, 73, -1, -1, -1, -1, 78,
  79, 80, 81, 82, 73, -1, -1, -1, -1, 78, 79, 80, 81, 82, 73, -1, -1, -1,
  -1, 78, 79, 80, 81, 82, 73, -1, -1, -1, -1, 78, 79, 80, 81, 82, 73, -1,
  -1, -1, -1, 78, 79, 80, 81, 82, 73, -1, -1, -1, -1, 78, 79, 80, 81, 82,
  15, -1, -1, 18, 19, 20, 21, 22, 23, 15, -1, -1, 18, 19, 20, 21, 22, 23>>

-----------------------------------------------------------------------------
\* The state to shift a token to in a state, 0 if there is none.
ShiftOn(state, token) ==
  LET n == Entry(yypact, state) + token
  IN IF 0 <= n /\ n <= YYLAST /\ Entry(yycheck, n) = token THEN Entry(yytable, n) ELSE 0

\* The state after symbol, on top of state.
GoTo(state, symbol) ==
  LET n == Entry(yypgoto, symbol - YYNTOKENS) + state
  IN IF 0 <= n /\ n <= YYLAST /\ Entry(yycheck, n) = state THEN Entry(yytable, n)
     ELSE Entry(yydefgoto, symbol - YYNTOKENS)
=============================================================================
