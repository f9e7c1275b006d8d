------------------------------- MODULE Options -------------------------------
(***************************************************************************)
(* The options of main: what getopt_long makes of the words of the command *)
(* line, one after the other, and the checks at the end.                   *)
(*                                                                         *)
(* A word is the name of an option, short or long, with its argument, if   *)
(* any; a word without a name is no option.  Texts are sequences of        *)
(* characters, names of files sequences of their parts, see Exomizer.      *)
(***************************************************************************)
EXTENDS TableOrder, Integers, SequencesExt

CONSTANTS Lines,     \* the command lines
          Numbers,   \* those of which it is checked how they are read
          INT_MAX, LONG_MAX

\* A word of the command line: the argument is a sequence of none or one text.
Word == [name : STRING, arg : Seq(Seq(STRING))]

ASSUME LineAssumption == Lines \subseteq Seq(Word)
ASSUME IntAssumption ==   \* an address is an int
  INT_MAX \in Nat /\ LONG_MAX \in Nat /\ PAGE * PAGE <= INT_MAX /\ INT_MAX <= LONG_MAX
ASSUME NumbersAssumption == Numbers \subseteq 0 .. INT_MAX

VARIABLES
  line,      \* argv
  optind,
  rest,      \* how many words are no options
  setting,   \* the variables that options set
  opt_pc     \* "options", "accepted", "help", "refused" at a word, or
             \* "unusable" behind the last one

optVars == <<line, optind, rest, setting, opt_pc>>

NULL == <<>>

Defaults ==
  [filename_input |-> NULL, filename_output1 |-> NULL, filename_output2 |-> NULL,
   tempaddr |-> 16 * PAGE, tempaddr2 |-> 0, zpaddr |-> PAGE - 12,
   do_exomize |-> FALSE, exomizer_cmd |-> <<"exomizer">>, do_stats |-> FALSE,
   do_split |-> FALSE, show_memmap |-> FALSE,
   table_order |-> <<"d", "o", ".", "t", "l", "i", "r", "z", "h">>]

OptInit ==
  /\ line \in Lines
  /\ optind = 1
  /\ rest = 0
  /\ setting = Defaults
  /\ opt_pc = "options"

-----------------------------------------------------------------------------
(***************************************************************************)
(* getopt_long, with getopt_opts and longopts of main.                     *)
(***************************************************************************)
ShortArg == [i |-> "required", o |-> "required", p |-> "required", t |-> "required",
             T |-> "required", z |-> "required", O |-> "required", M |-> "no",
             e |-> "optional", s |-> "no"]

LongVal == [help |-> "h", input |-> "i", output |-> "o", output2 |-> "p",
            tempaddr |-> "t", tempaddr2 |-> "T", zpaddr |-> "z", tableorder |-> "O",
            memmap |-> "M", exomize |-> "e", stats |-> "s"]

LongArg == [name \in DOMAIN LongVal |->
              IF name = "help" THEN "no" ELSE ShortArg[LongVal[name]]]

Fits(kind, arg) == (kind = "required" => arg # <<>>) /\ (kind = "no" => arg = <<>>)

\* What getopt_long returns for word w: "?" if there is no such option.
GetoptLong(w) ==
  CASE w.name \in DOMAIN LongVal /\ Fits(LongArg[w.name], w.arg)   -> LongVal[w.name]
    [] w.name \in DOMAIN ShortArg /\ Fits(ShortArg[w.name], w.arg) -> w.name
    [] OTHER                                                       -> "?"

-----------------------------------------------------------------------------
(***************************************************************************)
(* Numbers: strtol, and the int that main keeps of a long.                 *)
(***************************************************************************)
Digits == <<"0", "1", "2", "3", "4", "5", "6", "7", "8", "9",
            "a", "b", "c", "d", "e", "f">>
Capitals == <<"A", "B", "C", "D", "E", "F">>

\* c is no digit if its value is as large as any base.
Value(c) ==
  IF Contains(Digits, c) THEN (CHOOSE n \in 1 .. 16 : Digits[n] = c) - 1
  ELSE IF Contains(Capitals, c) THEN (CHOOSE n \in 1 .. 6 : Capitals[n] = c) + 9
  ELSE 16

HexPrefix(s) == Len(s) > 2 /\ s[1] = "0" /\ s[2] \in {"x", "X"} /\ Value(s[3]) < 16

\* The text behind its leading white space.
Unblanked(text) ==
  LET blanks == {n \in 1 .. Len(text) : \A m \in 1 .. n : text[m] = "blank"}
  IN  SubSeq(text, Cardinality(blanks) + 1, Len(text))

\* The number that the first n digits of d make in base b; it saturates.
Accumulated(d, b) ==
  LET abs[n \in Nat] == IF n = 0 THEN 0
                        ELSE IF abs[n - 1] > LONG_MAX THEN abs[n - 1]
                        ELSE b * abs[n - 1] + Value(d[n])
  IN  abs

\* The digits that text starts with, behind its blanks, sign and prefix.
Strtol(text, base) ==
  LET word == Unblanked(text)
      negative == word # <<>> /\ word[1] = "-"
      s == IF word # <<>> /\ word[1] \in {"-", "+"} THEN Tail(word) ELSE word
      b == IF base # 0 THEN base
           ELSE IF HexPrefix(s) THEN 16
           ELSE IF s # <<>> /\ s[1] = "0" THEN 8 ELSE 10
      d == IF b = 16 /\ HexPrefix(s) THEN SubSeq(s, 3, Len(s)) ELSE s
      read == CHOOSE n \in 0 .. Len(d) :
                /\ \A j \in 1 .. n : Value(d[j]) < b
                /\ n < Len(d) => Value(d[n + 1]) >= b
      abs == Accumulated(d, b)[read]
  IN  IF abs > LONG_MAX THEN IF negative THEN -LONG_MAX - 1 ELSE LONG_MAX
      ELSE IF negative THEN -abs ELSE abs

\* As if an int held every long.
ToInt_Wide(n) == n

\* A long stored in an int.
ToInt(n) == ((n + INT_MAX + 1) % (2 * (INT_MAX + 1))) - (INT_MAX + 1)

\* The text of an option, as an int.
NumberOf(text) ==
  IF text # <<>> /\ text[1] = "$" THEN ToInt(Strtol(Tail(text), 16))
                                  ELSE ToInt(Strtol(text, 0))

-----------------------------------------------------------------------------
(***************************************************************************)
(* One action per case of the switch.                                      *)
(***************************************************************************)
Option(opts) ==
  /\ opt_pc = "options"
  /\ optind <= Len(line)
  /\ line[optind].name # ""
  /\ GetoptLong(line[optind]) \in opts
  /\ optind' = optind + 1
  /\ UNCHANGED <<line, rest>>

opt == GetoptLong(line[optind])
HasArg == line[optind].arg # <<>>
optarg == Head(line[optind].arg)

Filename == [i |-> "filename_input", o |-> "filename_output1", p |-> "filename_output2"]

FileOption ==
  /\ Option({"i", "o", "p"})
  /\ setting' = [setting EXCEPT ![Filename[opt]] = optarg]
  /\ UNCHANGED opt_pc

Address == [t |-> "tempaddr", T |-> "tempaddr2", z |-> "zpaddr"]

\* The second address only has to be below the end.
ValidAddress_Low(o, a) ==
  CASE o = "z" -> ValidZpaddr(a)
    [] o = "T" -> a <= (PAGE - 1) * PAGE
    [] OTHER   -> ValidTempaddr(a)

ValidAddress(o, a) == IF o = "z" THEN ValidZpaddr(a) ELSE ValidTempaddr(a)

AddressOption ==
  /\ Option({"t", "T", "z"})
  /\ setting' = [setting EXCEPT ![Address[opt]] = NumberOf(optarg)]
  /\ opt_pc' = IF ValidAddress(opt, NumberOf(optarg)) THEN opt_pc ELSE "refused"

\* Upper and lower case of a character that is looked up are the same.
Lower(c) ==
  IF \E id \in Id : Upper[id] = c THEN CHOOSE id \in Id : Upper[id] = c ELSE c

\* Upper case is only found in a list that has it.
Found_Case(c) == {n \in 1 .. TABLE_ORDER_LENGTH : setting.table_order[n] = c}

\* Where strcasestr finds c in the order that is set.
Found(c) == {n \in 1 .. TABLE_ORDER_LENGTH : Lower(setting.table_order[n]) = Lower(c)}

\* How many characters of the argument stand for the n-th one of that order.
tcnt(n) == Cardinality({j \in 1 .. Len(optarg) : n \in Found(optarg[j])})

OrderOption ==
  /\ Option({"O"})
  /\ IF /\ \A j \in 1 .. Len(optarg) : Found(optarg[j]) # {}
        /\ \A n \in 1 .. TABLE_ORDER_LENGTH : tcnt(n) = 1
        /\ optarg[1] # "."
        /\ optarg[TABLE_ORDER_LENGTH] # "."
     THEN setting' = [setting EXCEPT !.table_order = optarg] /\ UNCHANGED opt_pc
     ELSE opt_pc' = "refused" /\ UNCHANGED setting

MemmapOption ==
  /\ Option({"M"})
  /\ setting' = [setting EXCEPT !.show_memmap = TRUE]
  /\ UNCHANGED opt_pc

\* Prints the usage and ends with success.
HelpOption ==
  /\ Option({"h"})
  /\ opt_pc' = "help"
  /\ UNCHANGED setting

ExomizeOption ==
  /\ Option({"e"})
  /\ setting' = [setting EXCEPT !.do_exomize = TRUE,
                                !.exomizer_cmd = IF HasArg THEN optarg ELSE @]
  /\ UNCHANGED opt_pc

StatsOption ==
  /\ Option({"s"})
  /\ setting' = [setting EXCEPT !.do_stats = TRUE, !.do_exomize = TRUE]
  /\ UNCHANGED opt_pc

UnknownOption ==
  /\ Option({"?"})
  /\ opt_pc' = "refused"
  /\ UNCHANGED setting

\* getopt_long moves what is no option behind the options.
NoOption ==
  /\ opt_pc = "options"
  /\ optind <= Len(line)
  /\ line[optind].name = ""
  /\ optind' = optind + 1
  /\ rest' = rest + 1
  /\ UNCHANGED <<line, setting, opt_pc>>

EndOfOptions ==
  /\ opt_pc = "options"
  /\ optind > Len(line)
  /\ IF \/ rest # 0
        \/ setting.do_exomize /\ setting.filename_output1 = NULL
        \/ setting.do_stats /\ setting.filename_input = NULL
     THEN opt_pc' = "unusable" /\ UNCHANGED setting
     ELSE /\ opt_pc' = "accepted"
          /\ setting' = [setting EXCEPT !.do_split = (setting.filename_output2 # NULL)]
  /\ UNCHANGED <<line, optind, rest>>

NextOption ==
  \/ FileOption
  \/ AddressOption
  \/ OrderOption
  \/ MemmapOption
  \/ HelpOption
  \/ ExomizeOption
  \/ StatsOption
  \/ UnknownOption
  \/ NoOption
  \/ EndOfOptions

-----------------------------------------------------------------------------
(***************************************************************************)
(* Properties.                                                             *)
(***************************************************************************)
OptTypeOK ==
  /\ line \in Lines
  /\ optind \in 1 .. Len(line) + 1
  /\ rest \in 0 .. Len(line)
  /\ DOMAIN setting = DOMAIN Defaults
  /\ \A a \in {"tempaddr", "tempaddr2", "zpaddr"} : setting[a] \in -INT_MAX - 1 .. INT_MAX
  /\ \A c \in {"do_exomize", "do_stats", "do_split", "show_memmap"} : setting[c] \in BOOLEAN
  /\ opt_pc \in {"options", "accepted", "help", "refused", "unusable"}

\* Whatever options were given, how often and in which order, those main goes
\* on with are the ones the layout relies on, and exomizer gets files.
SettingsValid ==
  opt_pc = "accepted" =>
    /\ ValidOrder(setting.table_order)
    /\ ValidTempaddr(setting.tempaddr)
    /\ setting.tempaddr2 = 0 \/ ValidTempaddr(setting.tempaddr2)
    /\ ValidZpaddr(setting.zpaddr)
    /\ setting.do_split <=> setting.filename_output2 # NULL
    /\ setting.do_exomize => setting.filename_output1 # NULL
    /\ setting.do_stats => setting.do_exomize /\ setting.filename_input # NULL

\* The places of options os among the words that were read.
Given(os) == {n \in 1 .. optind - 1 : line[n].name # "" /\ GetoptLong(line[n]) \in os}
GivenWithArg(os) == {n \in Given(os) : line[n].arg # <<>>}
LastArg(places, default) == IF places = {} THEN default ELSE Head(line[Max(places)].arg)

\* Of an option that is given more than once the last one counts, whatever
\* else is given in between.
LastOneCounts ==
  opt_pc \in {"options", "accepted"} =>
    /\ \A o \in {"i", "o", "p"} : setting[Filename[o]] = LastArg(Given({o}), NULL)
    /\ setting.table_order = LastArg(Given({"O"}), Defaults.table_order)
    /\ setting.exomizer_cmd = LastArg(GivenWithArg({"e"}), Defaults.exomizer_cmd)
    /\ setting.do_exomize <=> Given({"e", "s"}) # {}
    /\ setting.do_stats <=> Given({"s"}) # {}

\* An order is accepted or not for itself, although it is compared with the
\* one that was accepted before it.
OrderJudgedAlone ==
  \A n \in Given({"O"}) :
    opt_pc = "refused" /\ n = optind - 1 <=> ~ValidOrder(Head(line[n].arg))

\* What is left of n without its last k digits.
Shortened(n, b) ==
  LET left[k \in Nat] == IF k = 0 THEN n ELSE left[k - 1] \div b
  IN  left

Numeral(n, b) ==
  LET left == Shortened(n, b)
      length == CHOOSE k \in 1 .. n + 1 : left[k] = 0 /\ (k > 1 => left[k - 1] # 0)
  IN  [j \in 1 .. length |-> Digits[(left[length - j] % b) + 1]]

\* README.md, line 69: 2048, 0x800, $800, 04000.
Formats(n) ==
  {Numeral(n, 10), <<"0", "x">> \o Numeral(n, 16), <<"$">> \o Numeral(n, 16),
   <<"0">> \o Numeral(n, 8)}

\* A number is the same in all four formats.
ReadAsMeant ==
  \A o \in {"t", "T", "z"} : \A n \in Given({o}), number \in Numbers :
    n = Max(Given({o})) /\ Head(line[n].arg) \in Formats(number) =>
      setting[Address[o]] = number

\* The settings are what the command line says.
SettingsAsGiven == LastOneCounts /\ OrderJudgedAlone /\ ReadAsMeant
=============================================================================
