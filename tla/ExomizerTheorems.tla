--------------------------- MODULE ExomizerTheorems ---------------------------
(***************************************************************************)
(* What is proved of the options and of the files: the settings main goes  *)
(* on with are valid, and they are those of the command line, whatever it  *)
(* gives, how often and in which order; and a call that succeeds left in   *)
(* each file what it is for, whatever the files held and the child         *)
(* processes did.                                                          *)
(***************************************************************************)
EXTENDS Exomizer, FiniteSetTheorems, SequenceTheorems, NaturalsInduction,
        WellFoundedInduction, TLAPS

-----------------------------------------------------------------------------
(***************************************************************************)
(* The order of the tables.  A new order is compared with the one that is  *)
(* set: every character of it is looked up there, and every entry there    *)
(* has to be found once.  This judges the new order for itself, as the one *)
(* that is set holds each character of the list once, in either case.      *)
(***************************************************************************)
Listed == Id \cup {"."}
Places == 1 .. TABLE_ORDER_LENGTH

LEMMA UpperDiffers ==
  /\ \A a, b \in Id : Upper[a] = Upper[b] => a = b
  /\ \A a \in Id, x \in Listed : Upper[a] # x
  BY DEF Id, Table, Upper, Listed

\* Two characters that are the same in lower case are found for each other.
LEMMA LowerFacts ==
  ASSUME NEW c, NEW x \in Listed
  PROVE  Lower(c) = x <=> SameLetter(c, x)
<1>1. CASE \E id \in Id : Upper[id] = c
  <2>1. PICK a \in Id : Upper[a] = c
    BY <1>1
  <2>2. Lower(c) = a
    BY <2>1, UpperDiffers DEF Lower
  <2> QED BY <2>1, <2>2, UpperDiffers DEF SameLetter, Listed
<1>2. CASE ~\E id \in Id : Upper[id] = c
  BY <1>2 DEF Lower, SameLetter
<1> QED BY <1>1, <1>2

\* There are as many characters as places.
LEMMA PlacesCount ==
  /\ IsFiniteSet(Places) /\ Cardinality(Places) = TABLE_ORDER_LENGTH
  /\ IsFiniteSet(Listed) /\ Cardinality(Listed) = TABLE_ORDER_LENGTH
<1>1. IsFiniteSet(1 .. 9) /\ Cardinality(1 .. 9) = 9
  <2>1. 1 \in Int /\ 9 \in Int /\ ~(1 > 9) /\ 9 - 1 + 1 = 9
    OBVIOUS
  <2>2. IsFiniteSet(1 .. 9) /\ Cardinality(1 .. 9) = IF 1 > 9 THEN 0 ELSE 9 - 1 + 1
    BY <2>1, FS_Interval, Zenon
  <2> QED BY <2>1, <2>2
<1> DEFINE f == [n \in 1 .. 9 |-> CASE n = 1 -> "d" [] n = 2 -> "o" [] n = 3 -> "."
                                     [] n = 4 -> "t" [] n = 5 -> "l" [] n = 6 -> "i"
                                     [] n = 7 -> "r" [] n = 8 -> "z" [] OTHER -> "h"]
<1>2. f \in [1 .. 9 -> Listed]
  BY DEF Listed, Id, Table
<1>3. \A m, n \in 1 .. 9 : f[m] = f[n] => m = n
  OBVIOUS
<1>4. \A x \in Listed : \E n \in 1 .. 9 : f[n] = x
  <2>1. /\ f[1] = "d" /\ f[2] = "o" /\ f[3] = "." /\ f[4] = "t" /\ f[5] = "l"
        /\ f[6] = "i" /\ f[7] = "r" /\ f[8] = "z" /\ f[9] = "h"
    OBVIOUS
  <2> HIDE DEF f
  <2> QED BY <2>1 DEF Listed, Id, Table
<1> HIDE DEF f
<1>5. f \in Bijection(1 .. 9, Listed)
  BY <1>2, <1>3, <1>4 DEF Bijection, Injection, Surjection, IsInjective
<1>6. ExistsBijection(1 .. 9, Listed)
  BY <1>5 DEF ExistsBijection
<1> QED BY <1>1, <1>6, FS_NatBijection, FS_CountingElements
     DEF Places, TABLE_ORDER_LENGTH

\* The places of a valid order hold different characters of the list.
LEMMA OrderFacts ==
  ASSUME NEW order, ValidOrder(order)
  PROVE  /\ \A n \in Places : Lower(order[n]) \in Listed
         /\ \A m, n \in Places : Lower(order[m]) = Lower(order[n]) => m = n
         /\ \A x \in Listed : \E n \in Places : Lower(order[n]) = x
<1> DEFINE h == [x \in Listed |-> CHOOSE n \in Places : Lower(order[n]) = x]
<1>1. \A x \in Listed : \E n \in Places : Lower(order[n]) = x
  BY LowerFacts DEF ValidOrder, Listed, Places
<1>2. \A x \in Listed : h[x] \in Places /\ Lower(order[h[x]]) = x
  BY <1>1
<1>3. h \in [Listed -> Places] /\ \A x, y \in Listed : h[x] = h[y] => x = y
  BY <1>2
<1> HIDE DEF h
<1>4. h \in Injection(Listed, Places)
  BY <1>3 DEF Injection, IsInjective
<1>5. h \in Surjection(Listed, Places)
  BY <1>4, PlacesCount, FS_Injection
<1>6. \A n \in Places : \E x \in Listed : h[x] = n
  BY <1>5 DEF Surjection
<1> QED BY <1>1, <1>2, <1>6

\* An order that passes the comparison is valid.
LEMMA OrderAccepted ==
  ASSUME ValidOrder(setting.table_order), NEW order \in Seq(STRING),
         \A j \in 1 .. Len(order) : Found(order[j]) # {},
         \A n \in Places : Cardinality({j \in 1 .. Len(order) : n \in Found(order[j])}) = 1,
         order[1] # ".", order[TABLE_ORDER_LENGTH] # "."
  PROVE  ValidOrder(order)
<1> DEFINE L == Len(order)
           hits(n) == {j \in 1 .. L : n \in Found(order[j])}
           F == [j \in 1 .. L |-> CHOOSE n \in Places : n \in Found(order[j])]
<1>0. L \in Nat
  OBVIOUS
<1>1. \A c : Found(c) = {n \in Places : Lower(setting.table_order[n]) = Lower(c)}
  BY DEF Found, Places
<1>2. \A j \in 1 .. L : F[j] \in Places /\ F[j] \in Found(order[j])
  BY <1>1
<1>3. IsFiniteSet(1 .. L) /\ Cardinality(1 .. L) = L
  <2>1. 1 \in Int /\ L \in Int /\ (1 > L => L = 0) /\ L - 1 + 1 = L
    BY <1>0
  <2>2. IsFiniteSet(1 .. L) /\ Cardinality(1 .. L) = IF 1 > L THEN 0 ELSE L - 1 + 1
    BY <2>1, FS_Interval, Zenon
  <2> QED BY <2>1, <2>2
<1>4. \A n \in Places : \E j \in 1 .. L : hits(n) = {j}
  <2> SUFFICES ASSUME NEW n \in Places PROVE \E j \in 1 .. L : hits(n) = {j}
    OBVIOUS
  <2>1. IsFiniteSet(hits(n))
    BY <1>3, FS_Subset
  <2>2. \E j : hits(n) = {j}
    BY <2>1, FS_Singleton
  <2> QED BY <2>2
<1>5. \A i, j \in 1 .. L : F[i] = F[j] => i = j
  BY <1>2, <1>4
<1>6. \A n \in Places : \E j \in 1 .. L : F[j] = n
  <2> SUFFICES ASSUME NEW n \in Places PROVE \E j \in 1 .. L : F[j] = n
    OBVIOUS
  <2>1. PICK j \in 1 .. L : n \in Found(order[j])
    BY <1>4
  <2>2. Lower(setting.table_order[n]) = Lower(setting.table_order[F[j]])
    BY <1>1, <1>2, <2>1
  <2> QED BY <1>2, <2>2, OrderFacts
<1>7. Len(order) = TABLE_ORDER_LENGTH
  <2>1. F \in [1 .. L -> Places]
    BY <1>2
  <2> HIDE DEF F
  <2>2. F \in Injection(1 .. L, Places) /\ F \in Surjection(1 .. L, Places)
    BY <1>5, <1>6, <2>1 DEF Injection, Surjection, IsInjective
  <2>3. Cardinality(1 .. L) = Cardinality(Places)
    BY <2>2, PlacesCount, FS_Injection
  <2> QED BY <1>3, <2>3, PlacesCount
<1>8. ASSUME NEW x \in Listed
      PROVE  \E j \in 1 .. L : SameLetter(order[j], x)
  <2>1. PICK n \in Places : Lower(setting.table_order[n]) = x
    BY OrderFacts
  <2>2. PICK j \in 1 .. L : n \in Found(order[j])
    BY <1>4
  <2>3. Lower(order[j]) = x
    BY <1>1, <2>1, <2>2
  <2> QED BY <2>3, LowerFacts
<1> QED BY <1>7, <1>8 DEF ValidOrder, Listed

-----------------------------------------------------------------------------
(***************************************************************************)
(* The invariant.  The settings are valid at every word, and so they are   *)
(* when main goes on: an option that is refused may have stored its value, *)
(* but main ends with it.                                                  *)
(***************************************************************************)
\* The variables that are checked when an option is read.
Checked(s) ==
  /\ ValidOrder(s.table_order)
  /\ ValidTempaddr(s.tempaddr)
  /\ s.tempaddr2 = 0 \/ ValidTempaddr(s.tempaddr2)
  /\ ValidZpaddr(s.zpaddr)

\* The ones that are checked behind the last word.
Combined(s) ==
  /\ s.do_split <=> s.filename_output2 # NULL
  /\ s.do_exomize => s.filename_output1 # NULL
  /\ s.do_stats => s.do_exomize /\ s.filename_input # NULL

\* The statistics compare the sizes of crunched files.
StatsCrunch(s) == s.do_stats => s.do_exomize

LEMMA StatsKept ==
  /\ \A s, t : t.do_stats = s.do_stats /\ t.do_exomize = s.do_exomize /\ StatsCrunch(s)
                 => StatsCrunch(t)
  /\ \A s : s.do_exomize = TRUE => StatsCrunch(s)
  BY Zenon DEF StatsCrunch

OptInv ==
  /\ line \in Lines
  /\ optind \in Nat \ {0}
  /\ DOMAIN setting = DOMAIN Defaults
  /\ opt_pc \in {"options", "accepted"} => Checked(setting)
  /\ opt_pc = "options" => StatsCrunch(setting)
  /\ opt_pc = "accepted" => Combined(setting)

LEMMA Keys ==
  DOMAIN Defaults = {"filename_input", "filename_output1", "filename_output2",
                     "tempaddr", "tempaddr2", "zpaddr", "do_exomize", "exomizer_cmd",
                     "do_stats", "do_split", "show_memmap", "table_order"}
  BY DEF Defaults

\* The settings that main starts with are valid.
LEMMA DefaultsValid == Checked(Defaults)
<1> DEFINE order == <<"d", "o", ".", "t", "l", "i", "r", "z", "h">>
<1>1. /\ Defaults.table_order = order /\ Defaults.tempaddr = 16 * PAGE
      /\ Defaults.tempaddr2 = 0 /\ Defaults.zpaddr = PAGE - 12
  BY DEF Defaults
<1>2. ValidOrder(order)
  <2>1. /\ order[1] = "d" /\ order[2] = "o" /\ order[3] = "." /\ order[4] = "t"
        /\ order[5] = "l" /\ order[6] = "i" /\ order[7] = "r" /\ order[8] = "z"
        /\ order[9] = "h" /\ Len(order) = 9
    OBVIOUS
  <2> HIDE DEF order
  <2>2. \A x \in Id \cup {"."} : \E n \in 1 .. 9 : order[n] = x
    BY <2>1 DEF Id, Table
  <2> QED BY <2>1, <2>2 DEF ValidOrder, SameLetter, TABLE_ORDER_LENGTH
<1>3. ValidTempaddr(16 * PAGE)
  <2>1. PAGE \in Nat /\ 17 <= PAGE
    BY PageAssumption
  <2>2. 2 * PAGE <= 16 * PAGE
    BY <2>1
  <2>3. 16 * PAGE <= (PAGE - 1) * PAGE
    BY <2>1
  <2> QED BY <2>2, <2>3 DEF ValidTempaddr
<1>4. ValidZpaddr(PAGE - 12)
  BY PageAssumption DEF ValidZpaddr
<1> QED BY <1>1, <1>2, <1>3, <1>4 DEF Checked

\* An option that needs an argument has one, and it is a text.
Required == {"i", "o", "p", "t", "T", "z", "O"}

LEMMA ArgGiven ==
  ASSUME OptInv, optind <= Len(line), opt \in Required
  PROVE  optarg \in Seq(STRING)
<1>1. line[optind] \in Word
  BY LineAssumption DEF OptInv
<1>2. PICK w \in Word : w = line[optind]
  BY <1>1
<1>3. GetoptLong(w) \in Required
  BY <1>2 DEF opt
<1>4. w.arg # <<>>
  <2>1. CASE w.name \in DOMAIN LongVal /\ Fits(LongArg[w.name], w.arg)
    <3>1. w.name \notin DOMAIN ShortArg
      BY <2>1 DEF LongVal, ShortArg
    <3>2. GetoptLong(w) = LongVal[w.name]
      BY <2>1, <3>1 DEF GetoptLong
    <3>3. w.name \in {"input", "output", "output2", "tempaddr", "tempaddr2", "zpaddr",
                      "tableorder"}
      BY <2>1, <1>3, <3>2 DEF LongVal, Required
    <3>4. LongArg[w.name] = "required"
      BY <3>3 DEF LongArg, LongVal, ShortArg
    <3> QED BY <2>1, <3>4 DEF Fits
  <2>2. CASE /\ ~(w.name \in DOMAIN LongVal /\ Fits(LongArg[w.name], w.arg))
             /\ w.name \in DOMAIN ShortArg /\ Fits(ShortArg[w.name], w.arg)
    <3>1. GetoptLong(w) = w.name
      BY <2>2 DEF GetoptLong
    <3>2. ShortArg[w.name] = "required"
      BY <1>3, <3>1 DEF ShortArg, Required
    <3> QED BY <2>2, <3>2 DEF Fits
  <2>3. CASE /\ ~(w.name \in DOMAIN LongVal /\ Fits(LongArg[w.name], w.arg))
             /\ ~(w.name \in DOMAIN ShortArg /\ Fits(ShortArg[w.name], w.arg))
    BY <2>3, <1>3 DEF GetoptLong, Required
  <2> QED BY <2>1, <2>2, <2>3
<1>5. w.arg \in Seq(Seq(STRING))
  BY DEF Word
<1> QED BY <1>2, <1>4, <1>5 DEF optarg

LEMMA OptInvInit == OptInit => OptInv
<1> SUFFICES ASSUME OptInit PROVE OptInv
  OBVIOUS
<1>1. setting = Defaults /\ opt_pc = "options" /\ line \in Lines /\ optind = 1
  BY DEF OptInit
<1>2. ~setting.do_stats
  BY <1>1 DEF Defaults
<1>3. StatsCrunch(setting)
  BY <1>2, Zenon DEF StatsCrunch
<1> QED BY <1>1, <1>3, DefaultsValid DEF OptInv

\* What holds of a word that is an option.
LEMMA OptionStep ==
  ASSUME OptInv, NEW opts, Option(opts)
  PROVE  /\ line' \in Lines /\ optind' \in Nat \ {0} /\ optind <= Len(line)
         /\ opt_pc = "options" /\ opt \in opts
         /\ DOMAIN setting = DOMAIN Defaults /\ Checked(setting)
         /\ StatsCrunch(setting)
<1>1. /\ opt_pc = "options" /\ optind <= Len(line) /\ opt \in opts
      /\ optind' = optind + 1 /\ line' = line
  BY DEF Option, opt
<1>2. optind' \in Nat \ {0}
  BY <1>1 DEF OptInv
<1> QED BY <1>1, <1>2 DEF OptInv

\* Every step of reading the options keeps them valid.
LEMMA OptInvNext == OptInv /\ NextOption => OptInv'
<1> SUFFICES ASSUME OptInv, NextOption PROVE OptInv'
  OBVIOUS
<1> USE Keys
<1>1. CASE FileOption
  <2>1. Option({"i", "o", "p"})
    BY <1>1 DEF FileOption
  <2>2. Filename[opt] \in {"filename_input", "filename_output1", "filename_output2"}
    BY <2>1, OptionStep DEF Filename
  <2>3. setting' = [setting EXCEPT ![Filename[opt]] = optarg] /\ opt_pc' = opt_pc
    BY <1>1 DEF FileOption
  <2>4. /\ DOMAIN setting' = DOMAIN Defaults
        /\ Checked(setting')
        /\ setting'.do_stats = setting.do_stats /\ setting'.do_exomize = setting.do_exomize
    BY <2>1, <2>2, <2>3, OptionStep DEF Checked
  <2> QED BY <2>1, <2>3, <2>4, OptionStep, StatsKept DEF OptInv
<1>2. CASE AddressOption
  <2>1. Option({"t", "T", "z"})
    BY <1>2 DEF AddressOption
  <2>2. PICK number : number = NumberOf(optarg)
    OBVIOUS
  <2>3. setting' = [setting EXCEPT ![Address[opt]] = number]
    BY <1>2, <2>2 DEF AddressOption
  <2>4. opt_pc' = IF ValidAddress(opt, number) THEN opt_pc ELSE "refused"
    BY <1>2, <2>2 DEF AddressOption
  <2>5. /\ opt \in {"t", "T", "z"}
        /\ opt = "t" => Address[opt] = "tempaddr"
        /\ opt = "T" => Address[opt] = "tempaddr2"
        /\ opt = "z" => Address[opt] = "zpaddr"
    BY <2>1, OptionStep DEF Address
  <2>6. /\ DOMAIN setting' = DOMAIN Defaults
        /\ setting'.do_stats = setting.do_stats /\ setting'.do_exomize = setting.do_exomize
    BY <2>1, <2>3, <2>5, OptionStep
  <2>7. ValidAddress(opt, number) => Checked(setting')
    <3> SUFFICES ASSUME ValidAddress(opt, number) PROVE Checked(setting')
      OBVIOUS
    <3>1. CASE opt = "t"
      BY <3>1, <2>1, <2>3, <2>5, OptionStep DEF ValidAddress, Checked
    <3>2. CASE opt = "T"
      BY <3>2, <2>1, <2>3, <2>5, OptionStep DEF ValidAddress, Checked
    <3>3. CASE opt = "z"
      BY <3>3, <2>1, <2>3, <2>5, OptionStep DEF ValidAddress, Checked
    <3> QED BY <3>1, <3>2, <3>3, <2>5
  <2> QED BY <2>1, <2>4, <2>6, <2>7, OptionStep, StatsKept DEF OptInv
<1>3. CASE OrderOption
  <2>1. Option({"O"})
    BY <1>3 DEF OrderOption
  <2>2. PICK order \in Seq(STRING) : order = optarg
    BY <2>1, OptionStep, ArgGiven DEF Required
  <2> DEFINE fine == /\ \A j \in 1 .. Len(order) : Found(order[j]) # {}
                     /\ \A n \in Places :
                          Cardinality({j \in 1 .. Len(order) : n \in Found(order[j])}) = 1
                     /\ order[1] # "." /\ order[TABLE_ORDER_LENGTH] # "."
  <2>3. IF fine THEN setting' = [setting EXCEPT !.table_order = order] /\ opt_pc' = opt_pc
                ELSE opt_pc' = "refused" /\ setting' = setting
    BY <1>3, <2>2 DEF OrderOption, tcnt, Places
  <2>4. fine => ValidOrder(order)
    BY <2>1, OptionStep, OrderAccepted DEF Checked
  <2> HIDE DEF fine
  <2>5. CASE fine
    <3>1. /\ DOMAIN setting' = DOMAIN Defaults
          /\ Checked(setting')
        /\ setting'.do_stats = setting.do_stats /\ setting'.do_exomize = setting.do_exomize
      BY <2>1, <2>3, <2>4, <2>5, OptionStep DEF Checked
    <3> QED BY <3>1, <2>1, <2>3, <2>5, OptionStep, StatsKept DEF OptInv
  <2>6. CASE ~fine
    BY <2>1, <2>3, <2>6, OptionStep, StatsKept DEF OptInv
  <2> QED BY <2>5, <2>6
<1>4. CASE MemmapOption
  <2>1. Option({"M"}) /\ setting' = [setting EXCEPT !.show_memmap = TRUE] /\ opt_pc' = opt_pc
    BY <1>4 DEF MemmapOption
  <2>2. /\ DOMAIN setting' = DOMAIN Defaults
        /\ Checked(setting')
        /\ setting'.do_stats = setting.do_stats /\ setting'.do_exomize = setting.do_exomize
    BY <2>1, OptionStep DEF Checked
  <2> QED BY <2>1, <2>2, OptionStep, StatsKept DEF OptInv
<1>5. CASE HelpOption
  <2>1. Option({"h"}) /\ opt_pc' = "help" /\ setting' = setting
    BY <1>5 DEF HelpOption
  <2> QED BY <2>1, OptionStep, StatsKept DEF OptInv
<1>6. CASE ExomizeOption
  <2>1. Option({"e"}) /\ opt_pc' = opt_pc
    BY <1>6 DEF ExomizeOption
  <2>2. PICK cmd : setting' = [setting EXCEPT !.do_exomize = TRUE, !.exomizer_cmd = cmd]
    BY <1>6 DEF ExomizeOption
  <2>3. /\ DOMAIN setting' = DOMAIN Defaults
        /\ Checked(setting') /\ setting'.do_exomize = TRUE
    BY <2>1, <2>2, OptionStep DEF Checked
  <2> QED BY <2>1, <2>3, OptionStep, StatsKept DEF OptInv
<1>7. CASE StatsOption
  <2>1. Option({"s"}) /\ opt_pc' = opt_pc
        /\ setting' = [setting EXCEPT !.do_stats = TRUE, !.do_exomize = TRUE]
    BY <1>7 DEF StatsOption
  <2>2. /\ DOMAIN setting' = DOMAIN Defaults
        /\ Checked(setting') /\ setting'.do_exomize = TRUE
    BY <2>1, OptionStep DEF Checked
  <2> QED BY <2>1, <2>2, OptionStep, StatsKept DEF OptInv
<1>8. CASE UnknownOption
  <2>1. Option({"?"}) /\ opt_pc' = "refused" /\ setting' = setting
    BY <1>8 DEF UnknownOption
  <2> QED BY <2>1, OptionStep, StatsKept DEF OptInv
<1>9. CASE NoOption
  <2>1. /\ opt_pc = "options" /\ optind' = optind + 1
        /\ line' = line /\ setting' = setting /\ opt_pc' = opt_pc
    BY <1>9 DEF NoOption
  <2>2. optind' \in Nat \ {0}
    BY <2>1 DEF OptInv
  <2> QED BY <2>1, <2>2 DEF OptInv
<1>10. CASE EndOfOptions
  <2> DEFINE unusable == \/ rest # 0
                         \/ setting.do_exomize /\ setting.filename_output1 = NULL
                         \/ setting.do_stats /\ setting.filename_input = NULL
  <2>1. /\ opt_pc = "options" /\ line' = line /\ optind' = optind
        /\ IF unusable THEN opt_pc' = "unusable" /\ setting' = setting
           ELSE /\ opt_pc' = "accepted"
                /\ setting' = [setting EXCEPT !.do_split = (setting.filename_output2 # NULL)]
    BY <1>10 DEF EndOfOptions
  <2>2. CASE unusable
    BY <2>1, <2>2 DEF OptInv
  <2>3. CASE ~unusable
    <3>1. PICK split : split = (setting.filename_output2 # NULL)
      OBVIOUS
    <3>2. opt_pc' = "accepted" /\ setting' = [setting EXCEPT !.do_split = split]
      BY <2>1, <2>3, <3>1
    <3>3. /\ DOMAIN setting = DOMAIN Defaults /\ Checked(setting)
          /\ StatsCrunch(setting)
      BY <2>1 DEF OptInv
    <3>4. DOMAIN setting' = DOMAIN Defaults /\ Checked(setting')
      BY <3>2, <3>3 DEF Checked
    <3>5. setting'.do_split = split
      BY <3>2, <3>3
    <3>6. /\ setting'.filename_output1 = setting.filename_output1
          /\ setting'.filename_output2 = setting.filename_output2
          /\ setting'.filename_input = setting.filename_input
          /\ setting'.do_exomize = setting.do_exomize /\ setting'.do_stats = setting.do_stats
      BY <3>2, <3>3
    <3>7. /\ split <=> setting.filename_output2 # NULL
          /\ setting.do_exomize => setting.filename_output1 # NULL
          /\ setting.do_stats => setting.do_exomize /\ setting.filename_input # NULL
      BY <2>3, <3>1, <3>3, Zenon DEF StatsCrunch
    <3>8. Combined(setting')
      BY <3>5, <3>6, <3>7, Zenon DEF Combined
    <3> QED BY <2>1, <3>2, <3>4, <3>8 DEF OptInv
  <2> QED BY <2>2, <2>3
<1> QED BY <1>1, <1>2, <1>3, <1>4, <1>5, <1>6, <1>7, <1>8, <1>9, <1>10 DEF NextOption

\* Behind the options nothing is set.
LEMMA BehindOptions ==
  ASSUME ExoNext \/ (ExoExited /\ UNCHANGED allVars)
  PROVE  NextOption \/ UNCHANGED optVars
  BY DEF ExoNext, allVars, ReadOptions, ReadInput, NoInput, OpenOutputs, WriteOutputs,
         WriteFails, Fork, ForkFails, ChildCrunches, ChildFails, WaitChild, StatFile,
         CheckRanges

\* The settings are valid in every reachable state, as far as they are checked.
THEOREM OptionsInvariance == ExoSpec => []OptInv
<1>1. ExoInit => OptInv
  BY OptInvInit DEF ExoInit
<1>2. OptInv /\ [ExoNext \/ (ExoExited /\ UNCHANGED allVars)]_allVars => OptInv'
  <2> SUFFICES ASSUME OptInv, [ExoNext \/ (ExoExited /\ UNCHANGED allVars)]_allVars
               PROVE  OptInv'
    OBVIOUS
  <2>1. CASE NextOption
    BY <2>1, OptInvNext
  <2>2. CASE UNCHANGED optVars
    BY <2>2 DEF OptInv, optVars
  <2>3. NextOption \/ UNCHANGED optVars
    BY BehindOptions DEF allVars
  <2> QED BY <2>1, <2>2, <2>3
<1> QED BY <1>1, <1>2, PTL DEF ExoSpec

\* SettingsValid: for every command line, whatever options it gives, how often
\* and in which order, main only goes on with addresses in their ranges, an order
\* with each table once, and the names of the files that exomizer is called for.
THEOREM SettingsCorrect == ExoSpec => []SettingsValid
<1>1. OptInv => SettingsValid
  BY DEF OptInv, Checked, Combined, SettingsValid
<1> QED BY <1>1, OptionsInvariance, PTL
-----------------------------------------------------------------------------
(***************************************************************************)
(* The files.  The names a call is about are Files, what they have to hold *)
(* is Contents; the files that were crunched are those whose sizes were    *)
(* returned.                                                               *)
(***************************************************************************)
Contents ==
  (IF setting.do_stats THEN <<program>> ELSE <<>>) \o
  [n \in 1 .. Len(Outputs) |-> Part(PartOf(n))]

\* Sequences of none, one or two sequences as one.
LEMMA FlattenOne ==
  ASSUME NEW s, NEW S, s[1] \in Seq(S), Len(s) = 1
  PROVE  FlattenSeq(s) = s[1]
<1> DEFINE D == 1 .. Len(s)
           F(g, x) == IF x = 1 THEN s[x] ELSE g[x - 1] \o s[x]
           f == CHOOSE g : g = [x \in D |-> F(g, x)]
           h == [x \in D |-> s[1]]
<1>1. FlattenSeq(s) = f[Len(s)]
  BY DEF FlattenSeq
<1>2. D = {1}
  OBVIOUS
<1>3. h = [x \in D |-> F(h, x)]
  BY <1>2
<1>4. f = [x \in D |-> F(f, x)]
  <2> HIDE DEF h, F
  <2> QED BY <1>3
<1>5. f[1] = s[1]
  <2> HIDE DEF f
  <2> QED BY <1>2, <1>4, Zenon
<1> QED BY <1>1, <1>5

LEMMA FlattenTwo ==
  ASSUME NEW s, NEW S, s[1] \in Seq(S), s[2] \in Seq(S), Len(s) = 2
  PROVE  FlattenSeq(s) = s[1] \o s[2]
<1> DEFINE D == 1 .. Len(s)
           F(g, x) == IF x = 1 THEN s[x] ELSE g[x - 1] \o s[x]
           f == CHOOSE g : g = [x \in D |-> F(g, x)]
           h == [x \in D |-> IF x = 1 THEN s[1] ELSE s[1] \o s[2]]
<1>1. FlattenSeq(s) = f[Len(s)]
  BY DEF FlattenSeq
<1>2. D = {1, 2}
  OBVIOUS
<1>3. h = [x \in D |-> F(h, x)]
  <2>1. F(h, 1) = s[1] /\ F(h, 2) = s[1] \o s[2]
    BY <1>2
  <2> QED BY <1>2, <2>1
<1>4. f = [x \in D |-> F(f, x)]
  <2> HIDE DEF h, F
  <2> QED BY <1>3
<1>5. f[1] = s[1] /\ f[2] = f[1] \o s[2]
  <2> HIDE DEF f
  <2> QED BY <1>2, <1>4
<1> QED BY <1>1, <1>5

\* Sequences of none and of one element.
LEMMA ShortSeqs ==
  ASSUME NEW S
  PROVE  /\ <<>> \in Seq(S) /\ Len(<<>>) = 0
         /\ \A a \in S : <<a>> \in Seq(S) /\ Len(<<a>>) = 1 /\ <<a>>[1] = a
  OBVIOUS

\* There are at most two outputs.
LEMMA OutputsFacts ==
  /\ Outputs \in Seq({setting.filename_output1, setting.filename_output2})
  /\ Len(Outputs) \in 0 .. 2
<1> DEFINE S == {setting.filename_output1, setting.filename_output2}
           first == IF setting.filename_output1 = NULL THEN <<>>
                    ELSE <<setting.filename_output1>>
           second == IF setting.do_split THEN <<setting.filename_output2>> ELSE <<>>
<1>0. setting.filename_output1 \in S /\ setting.filename_output2 \in S
  OBVIOUS
<1>1. first \in Seq(S) /\ Len(first) \in {0, 1}
  <2> HIDE DEF S
  <2>1. CASE setting.filename_output1 = NULL
    BY <2>1, ShortSeqs
  <2>2. CASE setting.filename_output1 # NULL
    BY <1>0, <2>2, ShortSeqs
  <2> QED BY <2>1, <2>2
<1>2. second \in Seq(S) /\ Len(second) \in {0, 1}
  <2> HIDE DEF S
  <2>1. CASE setting.do_split
    BY <1>0, <2>1, ShortSeqs
  <2>2. CASE ~setting.do_split
    BY <2>2, ShortSeqs
  <2> QED BY <2>1, <2>2
<1>3. Outputs = first \o second
  BY DEF Outputs
<1> HIDE DEF first, second, S
<1>4. Outputs \in Seq(S) /\ Len(Outputs) = Len(first) + Len(second)
  BY <1>1, <1>2, <1>3
<1>5. Len(Outputs) \in 0 .. 2
  <2>1. \A x, y \in {0, 1} : x + y \in 0 .. 2
    OBVIOUS
  <2>2. Len(first) + Len(second) \in 0 .. 2
    BY <1>1, <1>2, <2>1
  <2> QED BY <1>4, <2>2
<1> QED BY <1>4, <1>5 DEF S

\* The files of a call, and what they have to hold, one by one.
LEMMA FilesFacts ==
  /\ Len(Files) \in Nat /\ Len(Contents) = Len(Files)
  /\ setting.do_stats =>
       /\ Len(Files) = Len(Outputs) + 1
       /\ Files[1] = Input /\ Contents[1] = program
       /\ \A n \in 1 .. Len(Outputs) : /\ Files[n + 1] = Outputs[n]
                                       /\ Contents[n + 1] = Part(PartOf(n))
  /\ ~setting.do_stats =>
       /\ Len(Files) = Len(Outputs)
       /\ \A n \in 1 .. Len(Outputs) : /\ Files[n] = Outputs[n]
                                       /\ Contents[n] = Part(PartOf(n))
<1>1. PICK S : Outputs \in Seq(S)
  BY OutputsFacts
<1>2. PICK parts : /\ parts = [n \in 1 .. Len(Outputs) |-> Part(PartOf(n))]
                   /\ parts \in Seq({Part(PartOf(n)) : n \in 1 .. Len(Outputs)})
                   /\ Len(parts) = Len(Outputs)
  <2> DEFINE q == [n \in 1 .. Len(Outputs) |-> Part(PartOf(n))]
             P == {Part(PartOf(n)) : n \in 1 .. Len(Outputs)}
  <2>1. Len(Outputs) \in Nat
    BY <1>1
  <2>2. \A n \in 1 .. Len(Outputs) : Part(PartOf(n)) \in P
    OBVIOUS
  <2>3. q \in [1 .. Len(Outputs) -> P]
    <3> HIDE DEF P
    <3> QED BY <2>2
  <2>4. q \in Seq(P) /\ Len(q) = Len(Outputs)
    <3> HIDE DEF P, q
    <3> QED BY <2>1, <2>3
  <2> QED BY <2>4
<1>3. Contents = (IF setting.do_stats THEN <<program>> ELSE <<>>) \o parts
  BY <1>2 DEF Contents
<1>4. CASE setting.do_stats
  <2>1. Files = <<Input>> \o Outputs /\ Contents = <<program>> \o parts
    BY <1>3, <1>4 DEF Files
  <2>2. /\ Len(Files) = Len(Outputs) + 1 /\ Files[1] = Input
        /\ \A n \in 1 .. Len(Outputs) : Files[n + 1] = Outputs[n]
    BY <1>1, <2>1
  <2>3. /\ Len(Contents) = Len(Outputs) + 1 /\ Contents[1] = program
        /\ \A n \in 1 .. Len(Outputs) : Contents[n + 1] = parts[n]
    BY <1>1, <1>2, <2>1
  <2> QED BY <1>1, <1>2, <1>4, <2>2, <2>3
<1>5. CASE ~setting.do_stats
  <2>1. Files = <<>> \o Outputs /\ Contents = <<>> \o parts
    BY <1>3, <1>5 DEF Files
  <2>2. Files = Outputs /\ Contents = parts
    BY <1>1, <1>2, <2>1
  <2> QED BY <1>1, <1>2, <1>5, <2>2
<1> QED BY <1>4, <1>5

\* They are a sequence.
LEMMA FilesSeq == \E S : Files \in Seq(S)
<1>1. PICK S : Outputs \in Seq(S)
  BY OutputsFacts
<1> DEFINE T == S \cup {Input}
           one == IF setting.do_stats THEN <<Input>> ELSE <<>>
<1>2. one \in Seq(T)
  <2>1. Input \in T
    OBVIOUS
  <2> HIDE DEF T
  <2>2. CASE setting.do_stats
    BY <2>1, <2>2, ShortSeqs
  <2>3. CASE ~setting.do_stats
    BY <2>3, ShortSeqs
  <2> QED BY <2>2, <2>3
<1>3. Outputs \in Seq(T)
  BY <1>1
<1>4. Files = one \o Outputs
  BY DEF Files
<1> HIDE DEF one, T
<1> QED BY <1>2, <1>3, <1>4

\* Names that are apart: of two files, of two crunched ones, of one and another.
LEMMA ApartFacts ==
  ASSUME NamesApart, NEW m \in 1 .. Len(Files), NEW n \in 1 .. Len(Files)
  PROVE  /\ m # n => Files[m] # Files[n] /\ Dest(Files[m]) # Dest(Files[n])
         /\ Files[m] # Dest(Files[n])
<1> DEFINE L == Len(Files)
           dests == [x \in 1 .. L |-> Dest(Files[x])]
           all == Files \o dests
<1>1. L \in Nat
  BY FilesFacts
<1>2. PICK S : Files \in Seq(S)
  BY FilesSeq
<1>3. dests \in Seq({Dest(Files[x]) : x \in 1 .. L}) /\ Len(dests) = L
  BY <1>1
<1>4. /\ Len(all) = L + L
      /\ \A x \in 1 .. L : all[x] = Files[x] /\ all[L + x] = Dest(Files[x])
  <2> HIDE DEF dests
  <2>1. Len(all) = L + L
    BY <1>1, <1>2, <1>3
  <2>2. ASSUME NEW x \in 1 .. L PROVE all[x] = Files[x] /\ all[L + x] = dests[x]
    BY <1>1, <1>2, <1>3
  <2> QED BY <2>1, <2>2 DEF dests
<1>5. \A x, y \in 1 .. Len(all) : x # y => all[x] # all[y]
  BY DEF NamesApart
<1> HIDE DEF all, L
<1>6. /\ m \in 1 .. Len(all) /\ n \in 1 .. Len(all) /\ L + m \in 1 .. Len(all)
      /\ L + n \in 1 .. Len(all) /\ m # L + n /\ (m # n => L + m # L + n)
  BY <1>1, <1>4 DEF L
<1> QED BY <1>4, <1>5, <1>6 DEF L

\* File n of this call is there and has its contents.
Written(n) == Files[n] \in DOMAIN disk /\ disk[Files[n]] = Contents[n]

\* File n was crunched.
HasCrunched(n) ==
  /\ Dest(Files[n]) \in DOMAIN disk
  /\ disk[Dest(Files[n])] = Crunched(Contents[n])

\* So many sizes are known, and exomizer is still to be called for the rest.
Progress ==
  /\ queue = SubSeq(ToCrunch, Len(sizes) + 1, Len(ToCrunch))
  /\ sizes = [n \in 1 .. Len(sizes) |-> Crunched(Contents[n])]
  /\ Len(sizes) \in 0 .. Len(ToCrunch)
  /\ \A n \in 1 .. Len(sizes) : HasCrunched(n)

\* The outputs are written, as far as main can know.
Behind == exo_pc \in {"exomize", "wait", "stat", "exit 0"}

\* The inductive invariant of the files.
FileInv ==
  /\ exo_pc # "start" => opt_pc = "accepted"
  /\ exo_pc \in {"start", "layout", "write"} => sizes = <<>>
  /\ exo_pc \in {"wait", "stat"} => queue # <<>>
  /\ exo_pc = "exit 0" => queue = <<>>
  /\ child \in {"none", "running", "ended"}
  /\ child # "none" => exo_pc = "wait"
  /\ exo_pc \in {"layout", "write"} /\ NamesApart /\ setting.do_stats =>
       Input \in DOMAIN disk /\ disk[Input] = program
  /\ exo_pc = "write" => ToSet(Outputs) \subseteq DOMAIN disk
  /\ Behind /\ forked /\ NamesApart =>
       /\ \A n \in 1 .. Len(Files) : Written(n)
       /\ Progress
       /\ exo_pc = "wait" => child # "none"
       /\ exo_pc = "stat" \/ (child = "ended" /\ status = "success") =>
            HasCrunched(Len(sizes) + 1)

LEMMA FileInvInit == ExoInit => FileInv
  BY DEF ExoInit, OptInit, FileInv, Behind

\* What is crunched are the files of the call, or nothing.
LEMMA ToCrunchFacts ==
  ASSUME Combined(setting)
  PROVE  ToCrunch = IF setting.do_exomize THEN Files ELSE <<>>
<1>1. CASE setting.do_exomize
  BY <1>1 DEF ToCrunch, Files
<1>2. CASE ~setting.do_exomize
  BY <1>2, ShortSeqs DEF ToCrunch
<1> QED BY <1>1, <1>2

\* What is left of a sequence behind its first d elements.
LEMMA Rest ==
  ASSUME NEW S, NEW s \in Seq(S), NEW d \in 0 .. Len(s)
  PROVE  /\ SubSeq(s, d + 1, Len(s)) = <<>> => d = Len(s)
         /\ SubSeq(s, d + 1, Len(s)) # <<>> =>
              /\ d + 1 \in 1 .. Len(s)
              /\ Head(SubSeq(s, d + 1, Len(s))) = s[d + 1]
              /\ Tail(SubSeq(s, d + 1, Len(s))) = SubSeq(s, d + 2, Len(s))
<1> DEFINE L == Len(s)
           q == SubSeq(s, d + 1, L)
<1>1. L \in Nat /\ d \in Nat /\ d <= L
  OBVIOUS
<1>2. q \in Seq(S) /\ Len(q) = L - d /\ \A x \in 1 .. L - d : q[x] = s[d + x]
  BY <1>1
<1> HIDE DEF q, L
<1>3. q = <<>> => d = L
  BY <1>1, <1>2
<1>4. ASSUME q # <<>>
      PROVE  d + 1 \in 1 .. L /\ Head(q) = s[d + 1] /\ Tail(q) = SubSeq(s, d + 2, L)
  <2>1. d + 1 \in 1 .. L
    BY <1>1, <1>2, <1>4
  <2>2. Head(q) = s[d + 1]
    BY <1>1, <1>2, <1>4, <2>1
  <2>3. /\ Tail(q) \in Seq(S) /\ Len(Tail(q)) = L - d - 1
        /\ \A x \in 1 .. L - d - 1 : Tail(q)[x] = s[d + 1 + x]
    BY <1>1, <1>2, <1>4, <2>1
  <2>4. /\ SubSeq(s, d + 2, L) \in Seq(S) /\ Len(SubSeq(s, d + 2, L)) = L - d - 1
        /\ \A x \in 1 .. L - d - 1 : SubSeq(s, d + 2, L)[x] = s[d + 1 + x]
    BY <1>1, <2>1 DEF L
  <2>5. Tail(q) = SubSeq(s, d + 2, L)
    BY <2>3, <2>4, SeqEqual
  <2> QED BY <2>1, <2>2, <2>5
<1> QED BY <1>3, <1>4 DEF q, L

\* From which the property follows.
LEMMA FileInvCrunches == OptInv /\ FileInv => CrunchesItsFiles
<1> SUFFICES ASSUME OptInv, FileInv, exo_pc = "exit 0", forked, NamesApart
             PROVE  /\ \A n \in 1 .. Len(Files) : disk[Files[n]] = Contents[n]
                    /\ setting.do_exomize =>
                         /\ \A n \in 1 .. Len(Files) :
                              disk[Dest(Files[n])] = Crunched(Contents[n])
                         /\ sizes = [n \in 1 .. Len(Files) |-> Crunched(Contents[n])]
  BY Zenon DEF CrunchesItsFiles, Contents
<1>1. /\ \A n \in 1 .. Len(Files) : Written(n)
      /\ Progress /\ opt_pc = "accepted" /\ queue = <<>>
  BY DEF FileInv, Behind
<1>2. \A n \in 1 .. Len(Files) : disk[Files[n]] = Contents[n]
  BY <1>1 DEF Written
<1>3. ASSUME setting.do_exomize
      PROVE  Len(sizes) = Len(Files)
  <2>1. ToCrunch = Files /\ Len(Files) \in Nat
    BY <1>1, <1>3, ToCrunchFacts, FilesFacts DEF OptInv
  <2>2. /\ SubSeq(Files, Len(sizes) + 1, Len(Files)) = <<>>
        /\ Len(sizes) \in 0 .. Len(Files)
    BY <1>1, <2>1, Zenon DEF Progress
  <2> QED BY <2>2, FilesSeq, Rest
<1> QED BY <1>1, <1>2, <1>3 DEF Progress, HasCrunched

\* What is made of the settings does not change with the files.
LEMMA SettingsStay ==
  ASSUME UNCHANGED optVars
  PROVE  /\ setting' = setting /\ opt_pc' = opt_pc
         /\ Files' = Files /\ Outputs' = Outputs /\ Input' = Input
         /\ ToCrunch' = ToCrunch /\ NamesApart' = NamesApart
         /\ program' = program => Contents' = Contents
<1>1. setting' = setting /\ opt_pc' = opt_pc
  BY DEF optVars
<1>2. Files' = Files /\ Outputs' = Outputs /\ Input' = Input /\ ToCrunch' = ToCrunch
  BY <1>1, Zenon DEF Files, Outputs, Input, ToCrunch
<1>3. NamesApart' = NamesApart
  <2> DEFINE Apart(f) == LET all == f \o [n \in 1 .. Len(f) |-> Dest(f[n])]
                         IN  \A m, n \in 1 .. Len(all) : m # n => all[m] # all[n]
  <2>1. NamesApart = Apart(Files) /\ NamesApart' = Apart(Files')
    BY Zenon DEF NamesApart
  <2> HIDE DEF Apart
  <2> QED BY <1>2, <2>1
<1>4. program' = program => Contents' = Contents
  BY <1>1, <1>2, Zenon DEF Contents, PartOf
<1> QED BY <1>1, <1>2, <1>3, <1>4

\* The input is no output where names are apart.
LEMMA InputApart ==
  ASSUME NamesApart, setting.do_stats
  PROVE  Input \notin ToSet(Outputs)
<1>1. PICK S : Outputs \in Seq(S)
  BY OutputsFacts
<1> SUFFICES ASSUME NEW n \in 1 .. Len(Outputs), Input = Outputs[n] PROVE FALSE
  BY <1>1 DEF ToSet
<1>2. Len(Outputs) \in Nat /\ Len(Files) = Len(Outputs) + 1
  BY <1>1, FilesFacts
<1>3. 1 \in 1 .. Len(Files) /\ n + 1 \in 1 .. Len(Files) /\ 1 # n + 1
  BY <1>2
<1>4. Files[1] = Input /\ Files[n + 1] = Outputs[n]
  BY FilesFacts
<1> QED BY <1>3, <1>4, ApartFacts

\* A part of the outputs.
LEMMA Opened ==
  ASSUME NEW n \in 0 .. Len(Outputs)
  PROVE  /\ ToSet(SubSeq(Outputs, 1, n)) \subseteq ToSet(Outputs)
         /\ n = Len(Outputs) => ToSet(SubSeq(Outputs, 1, n)) = ToSet(Outputs)
<1>1. PICK S : Outputs \in Seq(S)
  BY OutputsFacts
<1>2. /\ Len(SubSeq(Outputs, 1, n)) = n /\ SubSeq(Outputs, 1, n) \in Seq(S)
      /\ \A x \in 1 .. n : SubSeq(Outputs, 1, n)[x] = Outputs[x]
      /\ Len(Outputs) \in Nat
  BY <1>1
<1>3. DOMAIN SubSeq(Outputs, 1, n) = 1 .. n /\ DOMAIN Outputs = 1 .. Len(Outputs)
  BY <1>1, <1>2
<1>4. \A x : x \in ToSet(Outputs) <=> \E m \in 1 .. Len(Outputs) : x = Outputs[m]
  BY <1>3, Zenon DEF ToSet
<1>5. \A x : x \in ToSet(SubSeq(Outputs, 1, n)) <=> \E m \in 1 .. n : x = Outputs[m]
  <2>1. \A x : x \in ToSet(SubSeq(Outputs, 1, n))
                <=> \E m \in 1 .. n : x = SubSeq(Outputs, 1, n)[m]
    BY <1>3, Zenon DEF ToSet
  <2> QED BY <1>2, <2>1, Zenon
<1>6. 1 .. n \subseteq 1 .. Len(Outputs)
  BY <1>2
<1> QED BY <1>4, <1>5, <1>6, Zenon

\* Two outputs that are apart are written each with its part.
LEMMA WritesParts ==
  ASSUME NamesApart, NEW n \in 1 .. Len(Outputs)
  PROVE  FlattenSeq([m \in 1 .. Len(Outputs) |->
                       IF Outputs[m] = Outputs[n] THEN Part(PartOf(m)) ELSE <<>>])
           = Part(PartOf(n))
<1> DEFINE s == [m \in 1 .. Len(Outputs) |->
                   IF Outputs[m] = Outputs[n] THEN Part(PartOf(m)) ELSE <<>>]
<1>1. PICK T : Part(PartOf(n)) \in Seq(T)
  <2>1. \A a, b : <<a, b>> \in Seq({a, b})
    OBVIOUS
  <2> QED BY <2>1, Zenon DEF Part
<1>2. Len(Outputs) \in 0 .. 2
  BY OutputsFacts
<1>3. Len(s) = Len(Outputs) /\ s[n] = Part(PartOf(n))
  BY <1>2
<1>4. ASSUME NEW m \in 1 .. Len(Outputs), m # n PROVE s[m] = <<>>
  <2>1. Outputs[m] # Outputs[n]
    <3>1. CASE setting.do_stats
      <4>1. /\ Len(Files) = Len(Outputs) + 1
            /\ Files[m + 1] = Outputs[m] /\ Files[n + 1] = Outputs[n]
        BY <3>1, FilesFacts
      <4>2. m + 1 \in 1 .. Len(Files) /\ n + 1 \in 1 .. Len(Files) /\ m + 1 # n + 1
        BY <1>2, <1>4, <4>1
      <4> QED BY <4>1, <4>2, ApartFacts
    <3>2. CASE ~setting.do_stats
      <4>1. Len(Files) = Len(Outputs) /\ Files[m] = Outputs[m] /\ Files[n] = Outputs[n]
        BY <3>2, FilesFacts
      <4> QED BY <1>4, <4>1, ApartFacts
    <3> QED BY <3>1, <3>2
  <2> QED BY <2>1
<1> HIDE DEF s
<1>5. CASE Len(Outputs) = 1
  <2>1. n = 1
    BY <1>5
  <2> QED BY <1>1, <1>3, <1>5, <2>1, FlattenOne DEF s
<1>6. CASE Len(Outputs) = 2
  <2>1. 1 \in 1 .. Len(Outputs) /\ 2 \in 1 .. Len(Outputs) /\ n \in {1, 2}
    BY <1>6
  <2>2. PICK p \in Seq(T) : p = Part(PartOf(n))
    BY <1>1
  <2>3. <<>> \in Seq(T) /\ p \o <<>> = p /\ <<>> \o p = p
    OBVIOUS
  <2>4. CASE n = 1
    <3>1. s[2] = <<>> /\ s[1] = p
      BY <1>3, <1>4, <2>1, <2>2, <2>4
    <3>2. FlattenSeq(s) = s[1] \o s[2]
      BY <1>3, <1>6, <2>3, <3>1, FlattenTwo
    <3>3. FlattenSeq(s) = p
      BY <2>3, <3>1, <3>2
    <3> QED BY <2>2, <3>3 DEF s
  <2>5. CASE n = 2
    <3>1. s[1] = <<>> /\ s[2] = p
      BY <1>3, <1>4, <2>1, <2>2, <2>5
    <3>2. FlattenSeq(s) = s[1] \o s[2]
      BY <1>3, <1>6, <2>3, <3>1, FlattenTwo
    <3>3. FlattenSeq(s) = p
      BY <2>3, <3>1, <3>2
    <3> QED BY <2>2, <3>3 DEF s
  <2> QED BY <2>1, <2>4, <2>5
<1> QED BY <1>2, <1>5, <1>6

\* Nothing changes about the files while disk, sizes and queue stay.
LEMMA FilesStay ==
  ASSUME UNCHANGED optVars, disk' = disk, program' = program
  PROVE  /\ (\A n \in 1 .. Len(Files) : Written(n))' <=> (\A n \in 1 .. Len(Files) : Written(n))
         /\ queue' = queue /\ sizes' = sizes => (Progress' <=> Progress)
         /\ sizes' = sizes => (HasCrunched(Len(sizes) + 1)' <=> HasCrunched(Len(sizes) + 1))
<1>1. Files' = Files /\ Contents' = Contents /\ ToCrunch' = ToCrunch
  BY SettingsStay
<1>2. (\A n \in 1 .. Len(Files) : Written(n))' <=> (\A n \in 1 .. Len(Files) : Written(n))
  BY <1>1, Zenon DEF Written
<1>3. queue' = queue /\ sizes' = sizes => (Progress' <=> Progress)
  BY <1>1, Zenon DEF Progress, HasCrunched
<1>4. sizes' = sizes => (HasCrunched(Len(sizes) + 1)' <=> HasCrunched(Len(sizes) + 1))
  BY <1>1, Zenon DEF HasCrunched
<1> QED BY <1>2, <1>3, <1>4

\* Exomizer is called for the file behind those that were crunched.
LEMMA AtFile ==
  ASSUME OptInv, FileInv, Behind, forked, NamesApart, queue # <<>>
  PROVE  /\ setting.do_exomize /\ ToCrunch = Files
         /\ Len(sizes) + 1 \in 1 .. Len(Files)
         /\ filename = Files[Len(sizes) + 1]
         /\ Tail(queue) = SubSeq(Files, Len(sizes) + 2, Len(Files))
<1>1. Combined(setting)
  BY Zenon DEF OptInv, FileInv, Behind
<1>2. /\ queue = SubSeq(ToCrunch, Len(sizes) + 1, Len(ToCrunch))
      /\ Len(sizes) \in 0 .. Len(ToCrunch)
  BY Zenon DEF FileInv, Progress
<1>3. setting.do_exomize /\ ToCrunch = Files
  <2> SUFFICES ASSUME ~setting.do_exomize PROVE FALSE
    BY <1>1, ToCrunchFacts
  <2>1. ToCrunch = <<>>
    BY <1>1, ToCrunchFacts
  <2>2. SubSeq(<<>>, Len(sizes) + 1, Len(<<>>)) # <<>> /\ Len(sizes) \in 0 .. Len(<<>>)
    BY <1>2, <2>1
  <2>3. <<>> \in Seq({}) /\ Len(<<>>) = 0
    BY ShortSeqs
  <2>4. Len(sizes) + 1 \in 1 .. Len(<<>>)
    BY <2>2, <2>3, Rest
  <2> QED BY <2>2, <2>3, <2>4
<1>4. PICK S : Files \in Seq(S)
  BY FilesSeq
<1>5. PICK d \in 0 .. Len(Files) : d = Len(sizes) /\ queue = SubSeq(Files, d + 1, Len(Files))
  BY <1>2, <1>3
<1>6. /\ d + 1 \in 1 .. Len(Files) /\ Head(queue) = Files[d + 1]
      /\ Tail(queue) = SubSeq(Files, d + 2, Len(Files))
  BY <1>4, <1>5, Rest
<1>7. Len(sizes) + 1 \in 1 .. Len(Files)
  BY <1>5, <1>6, Zenon
<1>8. filename = Files[Len(sizes) + 1]
  BY <1>5, <1>6, Zenon DEF filename
<1>9. Tail(queue) = SubSeq(Files, Len(sizes) + 2, Len(Files))
  BY <1>5, <1>6, Zenon
<1> QED BY <1>3, <1>7, <1>8, <1>9, Zenon

\* What exomizer writes for one file touches nothing of the others.
LEMMA OthersStay ==
  ASSUME NamesApart, UNCHANGED optVars, program' = program, sizes' = sizes,
         NEW k \in 1 .. Len(Files), NEW contents,
         disk' = Store(Dest(Files[k]), contents)
  PROVE  /\ \A n \in 1 .. Len(Files) : Written(n) => Written(n)'
         /\ \A n \in 1 .. Len(Files) : n # k /\ HasCrunched(n) => HasCrunched(n)'
         /\ contents = Crunched(Contents[k]) => HasCrunched(k)'
<1>1. Files' = Files /\ Contents' = Contents
  BY SettingsStay
<1>2. /\ DOMAIN disk' = DOMAIN disk \cup {Dest(Files[k])}
      /\ disk'[Dest(Files[k])] = contents
      /\ \A f \in DOMAIN disk : f # Dest(Files[k]) => disk'[f] = disk[f]
  <2>1. PICK file : file = Dest(Files[k])
    OBVIOUS
  <2>2. disk' = [f \in DOMAIN disk \cup {file} |->
                   IF f = file THEN contents ELSE disk[f]]
    BY <2>1, Zenon DEF Store
  <2>3. /\ DOMAIN disk' = DOMAIN disk \cup {file}
        /\ disk'[file] = contents
        /\ \A f \in DOMAIN disk : f # file => disk'[f] = disk[f]
    BY <2>2
  <2> QED BY <2>1, <2>3, Zenon
<1>3. ASSUME NEW n \in 1 .. Len(Files), Written(n) PROVE Written(n)'
  <2>1. Files[n] # Dest(Files[k])
    BY ApartFacts
  <2> QED BY <1>1, <1>2, <1>3, <2>1, Zenon DEF Written
<1>4. ASSUME NEW n \in 1 .. Len(Files), n # k, HasCrunched(n) PROVE HasCrunched(n)'
  <2>1. Dest(Files[n]) # Dest(Files[k])
    BY <1>4, ApartFacts
  <2> QED BY <1>1, <1>2, <1>4, <2>1, Zenon DEF HasCrunched
<1>5. contents = Crunched(Contents[k]) => HasCrunched(k)'
  BY <1>1, <1>2, Zenon DEF HasCrunched
<1> QED BY <1>3, <1>4, <1>5

\* Where main ended with failure nothing is claimed.
LEMMA EndsWithFailure ==
  ASSUME opt_pc = "accepted", UNCHANGED optVars, child' = "none", exo_pc' = "exit 1"
  PROVE  FileInv'
<1>1. opt_pc' = "accepted"
  BY SettingsStay
<1> QED BY <1>1, Zenon DEF FileInv, Behind

\* The steps up to the outputs that are written.
LEMMA ReadInputKeeps == OptInv /\ FileInv /\ ReadInput => FileInv'
<1> SUFFICES ASSUME OptInv, FileInv, ReadInput PROVE FileInv'
  OBVIOUS
<1>1. /\ opt_pc = "accepted" /\ exo_pc = "start" /\ UNCHANGED optVars
      /\ exo_pc' \in {"layout", "exit 1"} /\ child' = child
      /\ sizes' = sizes /\ disk' = disk /\ queue' = queue
      /\ Input # NULL => Input \in DOMAIN disk
      /\ program' = IF Input = NULL THEN Stdin ELSE disk[Input]
  BY Zenon DEF ReadInput
<1>2. child = "none" /\ sizes = <<>>
  BY <1>1 DEF FileInv
<1>3. CASE exo_pc' = "exit 1"
  BY <1>1, <1>2, <1>3, EndsWithFailure
<1>4. CASE exo_pc' = "layout"
  <2>1. opt_pc' = "accepted" /\ setting' = setting /\ Input' = Input
    BY <1>1, SettingsStay
  <2>2. setting.do_stats => Input # NULL
    BY <1>1 DEF OptInv, Combined, Input
  <2>3. setting.do_stats => Input \in DOMAIN disk /\ program' = disk[Input]
    BY <1>1, <2>2
  <2> QED BY <1>1, <1>2, <1>4, <2>1, <2>3 DEF FileInv, Behind
<1> QED BY <1>1, <1>3, <1>4

LEMMA OpenOutputsKeeps == FileInv /\ OpenOutputs => FileInv'
<1> SUFFICES ASSUME FileInv, OpenOutputs PROVE FileInv'
  OBVIOUS
<1>1. PICK n \in 0 .. Len(Outputs) :
        /\ disk' = [f \in DOMAIN disk \cup ToSet(SubSeq(Outputs, 1, n)) |->
                      IF f \in ToSet(SubSeq(Outputs, 1, n)) THEN <<>> ELSE disk[f]]
        /\ exo_pc' = IF n = Len(Outputs) THEN "write" ELSE "exit 1"
  BY Zenon DEF OpenOutputs
<1>2. /\ exo_pc = "layout" /\ UNCHANGED optVars /\ child' = child
      /\ sizes' = sizes /\ program' = program /\ queue' = queue
  BY DEF OpenOutputs
<1>3. opt_pc = "accepted" /\ child = "none" /\ sizes = <<>>
  BY <1>2 DEF FileInv
<1>4. CASE exo_pc' = "exit 1"
  BY <1>2, <1>3, <1>4, EndsWithFailure
<1>5. CASE exo_pc' = "write" /\ n = Len(Outputs)
  <2>1. PICK opened : /\ opened = ToSet(SubSeq(Outputs, 1, n))
                      /\ opened = ToSet(Outputs)
    BY <1>5, Opened
  <2>2. disk' = [f \in DOMAIN disk \cup opened |->
                   IF f \in opened THEN <<>> ELSE disk[f]]
    BY <1>1, <2>1, Zenon
  <2>3. /\ opt_pc' = "accepted" /\ setting' = setting /\ Input' = Input
        /\ Outputs' = Outputs /\ NamesApart' = NamesApart
    BY <1>2, <1>3, SettingsStay
  <2>4. ToSet(Outputs)' \subseteq DOMAIN disk'
    <3>1. opened \subseteq DOMAIN disk'
      BY <2>2
    <3>2. ToSet(Outputs)' = ToSet(Outputs)
      BY <2>3, Zenon DEF ToSet
    <3> QED BY <2>1, <3>1, <3>2, Zenon
  <2>5. ASSUME NamesApart, setting.do_stats
        PROVE  Input \in DOMAIN disk' /\ disk'[Input] = program
    <3>1. Input \in DOMAIN disk /\ disk[Input] = program
      BY <1>2, <2>5 DEF FileInv
    <3>2. PICK input : input = Input
      OBVIOUS
    <3>3. input \in DOMAIN disk /\ disk[input] = program /\ input \notin opened
      BY <2>1, <2>5, <3>1, <3>2, InputApart
    <3>4. input \in DOMAIN disk' /\ disk'[input] = program
      BY <2>2, <3>3
    <3> QED BY <3>2, <3>4, Zenon
  <2> QED BY <1>2, <1>3, <1>5, <2>3, <2>4, <2>5, Zenon DEF FileInv, Behind
<1> QED BY <1>1, <1>4, <1>5

LEMMA WriteOutputsKeeps == OptInv /\ FileInv /\ WriteOutputs => FileInv'
<1> SUFFICES ASSUME OptInv, FileInv, WriteOutputs PROVE FileInv'
  OBVIOUS
<1>1. /\ exo_pc = "write" /\ exo_pc' = "exomize" /\ UNCHANGED optVars
      /\ child' = child /\ sizes' = sizes /\ program' = program /\ queue' = ToCrunch
  BY DEF WriteOutputs
<1>2. /\ opt_pc = "accepted" /\ child = "none" /\ sizes = <<>>
      /\ ToSet(Outputs) \subseteq DOMAIN disk
  BY <1>1 DEF FileInv
<1>3. /\ opt_pc' = "accepted" /\ setting' = setting /\ Files' = Files
      /\ Contents' = Contents /\ ToCrunch' = ToCrunch /\ NamesApart' = NamesApart
  BY <1>1, <1>2, SettingsStay
<1>4. PICK S : Outputs \in Seq(S)
  BY OutputsFacts
<1>5. ASSUME NamesApart, NEW n \in 1 .. Len(Outputs)
      PROVE  Outputs[n] \in DOMAIN disk' /\ disk'[Outputs[n]] = Part(PartOf(n))
  <2>1. Outputs[n] \in ToSet(Outputs)
    BY <1>4 DEF ToSet
  <2>2. /\ Outputs[n] \in DOMAIN disk'
        /\ disk'[Outputs[n]] =
             FlattenSeq([m \in 1 .. Len(Outputs) |->
                           IF Outputs[m] = Outputs[n] THEN Part(PartOf(m)) ELSE <<>>])
    BY <1>2, <2>1, Zenon DEF WriteOutputs
  <2> QED BY <1>5, <2>2, WritesParts, Zenon
<1>6. ASSUME NamesApart, setting.do_stats
      PROVE  Input \in DOMAIN disk' /\ disk'[Input] = program
  <2>1. Input \in DOMAIN disk /\ disk[Input] = program
    BY <1>1, <1>6 DEF FileInv
  <2>2. Input \notin ToSet(Outputs)
    BY <1>6, InputApart
  <2> QED BY <2>1, <2>2, Zenon DEF WriteOutputs
<1>7. ASSUME NamesApart, NEW n \in 1 .. Len(Files) PROVE Written(n)'
  <2>1. CASE setting.do_stats
    <3>1. CASE n = 1
      <4>1. Files[n] = Input /\ Contents[n] = program
        BY <2>1, <3>1, FilesFacts
      <4> QED BY <1>3, <1>6, <1>7, <2>1, <4>1, Zenon DEF Written
    <3>2. CASE n # 1
      <4>1. Len(Files) = Len(Outputs) + 1 /\ Len(Outputs) \in Nat
        BY <1>4, <2>1, FilesFacts
      <4>2. PICK m \in 1 .. Len(Outputs) : n = m + 1
        <5>1. n - 1 \in 1 .. Len(Outputs) /\ n = (n - 1) + 1
          BY <3>2, <4>1
        <5> QED BY <5>1
      <4>3. Files[n] = Outputs[m] /\ Contents[n] = Part(PartOf(m))
        BY <2>1, <4>2, FilesFacts
      <4> QED BY <1>3, <1>5, <1>7, <4>3, Zenon DEF Written
    <3> QED BY <3>1, <3>2
  <2>2. CASE ~setting.do_stats
    <3>1. /\ n \in 1 .. Len(Outputs) /\ Files[n] = Outputs[n]
          /\ Contents[n] = Part(PartOf(n))
      BY <2>2, FilesFacts
    <3> QED BY <1>3, <1>5, <1>7, <3>1, Zenon DEF Written
  <2> QED BY <2>1, <2>2
<1>8. Progress'
  <2>1. sizes' = <<>> /\ Len(sizes') = 0 /\ queue' = ToCrunch
    BY <1>1, <1>2, ShortSeqs
  <2>2. PICK T : ToCrunch \in Seq(T)
    <3>1. Combined(setting)
      BY <1>2 DEF OptInv
    <3> QED BY <3>1, FilesSeq, ToCrunchFacts, ShortSeqs
  <2>3. ToCrunch = SubSeq(ToCrunch, 1, Len(ToCrunch)) /\ 0 \in 0 .. Len(ToCrunch)
    BY <2>2
  <2>4. queue' = SubSeq(ToCrunch, Len(sizes') + 1, Len(ToCrunch))
    BY <2>1, <2>3
  <2>5. sizes' = [n \in 1 .. Len(sizes') |-> Crunched(Contents'[n])]
    BY <2>1
  <2>6. Len(sizes') \in 0 .. Len(ToCrunch)
    BY <2>1, <2>3, Zenon
  <2>7. \A n \in 1 .. Len(sizes') : HasCrunched(n)'
    BY <2>1
  <2> QED BY <1>3, <2>4, <2>5, <2>6, <2>7, Zenon DEF Progress
<1>9. (\A n \in 1 .. Len(Files) : Written(n))' \/ ~NamesApart
  BY <1>3, <1>7, Zenon
<1> QED BY <1>1, <1>2, <1>3, <1>8, <1>9, Zenon DEF FileInv, Behind
\* The steps around a child.
LEMMA ForkKeeps == FileInv /\ Fork => FileInv'
<1> SUFFICES ASSUME FileInv, Fork PROVE FileInv'
  OBVIOUS
<1>1. /\ exo_pc = "exomize" /\ queue # <<>> /\ child' = "running" /\ exo_pc' = "wait"
      /\ UNCHANGED optVars /\ disk' = disk /\ queue' = queue /\ status' = status
      /\ program' = program /\ sizes' = sizes /\ forked' = forked
  BY DEF Fork
<1>2. opt_pc = "accepted" /\ opt_pc' = "accepted" /\ NamesApart' = NamesApart
  BY <1>1, SettingsStay DEF FileInv
<1>3. forked /\ NamesApart => (\A n \in 1 .. Len(Files) : Written(n)) /\ Progress
  BY <1>1 DEF FileInv, Behind
<1>4. forked /\ NamesApart => (\A n \in 1 .. Len(Files) : Written(n))' /\ Progress'
  BY <1>1, <1>3, FilesStay
<1> QED BY <1>1, <1>2, <1>4, Zenon DEF FileInv, Behind

LEMMA ForkFailsKeeps == FileInv /\ ForkFails => FileInv'
<1> SUFFICES ASSUME FileInv, ForkFails PROVE FileInv'
  OBVIOUS
<1>1. /\ exo_pc = "exomize" /\ queue # <<>> /\ child' = child /\ exo_pc' = "wait"
      /\ UNCHANGED optVars /\ queue' = queue /\ sizes' = sizes /\ forked' = FALSE
  BY DEF ForkFails
<1>2. opt_pc = "accepted" /\ opt_pc' = "accepted"
  BY <1>1, SettingsStay DEF FileInv
<1> QED BY <1>1, <1>2, Zenon DEF FileInv, Behind

\* What a child writes is the crunched file of the one it was called for.
LEMMA ChildKeeps ==
  ASSUME OptInv, FileInv, child = "running", child' = "ended",
         UNCHANGED <<optVars, exo_pc, queue, program, sizes, forked>>,
         \/ disk' = Store(dest_filename, Crunched(disk[filename])) /\ status' = "success"
         \/ disk' \in {disk, Store(dest_filename, Half)} /\ status' # "success"
  PROVE  FileInv'
<1>1. /\ exo_pc = "wait" /\ opt_pc = "accepted" /\ queue # <<>>
      /\ UNCHANGED optVars /\ exo_pc' = exo_pc /\ queue' = queue
      /\ program' = program /\ sizes' = sizes /\ forked' = forked
  BY DEF FileInv
<1>2. /\ opt_pc' = "accepted" /\ NamesApart' = NamesApart /\ Files' = Files
      /\ ToCrunch' = ToCrunch /\ Contents' = Contents
  BY <1>1, SettingsStay
<1>3. ASSUME forked, NamesApart
      PROVE  /\ (\A n \in 1 .. Len(Files) : Written(n))'
             /\ Progress'
             /\ status' = "success" => HasCrunched(Len(sizes) + 1)'
  <2>1. (\A n \in 1 .. Len(Files) : Written(n)) /\ Progress
    BY <1>1, <1>3 DEF FileInv, Behind
  <2>2. /\ ToCrunch = Files /\ Len(sizes) + 1 \in 1 .. Len(Files)
        /\ filename = Files[Len(sizes) + 1]
    BY <1>1, <1>3, AtFile DEF Behind
  <2>3. PICK k \in 1 .. Len(Files) : k = Len(sizes) + 1
    BY <2>2
  <2>4. filename = Files[k] /\ disk[filename] = Contents[k]
    BY <2>1, <2>2, <2>3, Zenon DEF Written
  <2>5. CASE disk' = disk /\ status' # "success"
    BY <1>1, <2>1, <2>5, FilesStay
  <2>6. ASSUME NEW contents, disk' = Store(Dest(Files[k]), contents),
               status' = "success" => contents = Crunched(Contents[k])
        PROVE  /\ (\A n \in 1 .. Len(Files) : Written(n))'
               /\ Progress'
               /\ status' = "success" => HasCrunched(Len(sizes) + 1)'
    <3>1. /\ \A n \in 1 .. Len(Files) : Written(n) => Written(n)'
          /\ \A n \in 1 .. Len(Files) : n # k /\ HasCrunched(n) => HasCrunched(n)'
          /\ contents = Crunched(Contents[k]) => HasCrunched(k)'
      BY <1>1, <1>3, <2>6, OthersStay
    <3>2. (\A n \in 1 .. Len(Files) : Written(n))'
      BY <1>2, <2>1, <3>1, Zenon
    <3>3. status' = "success" => HasCrunched(Len(sizes) + 1)'
      <4>1. HasCrunched(k)' <=> HasCrunched(Len(sizes) + 1)'
        BY <1>1, <2>3, Zenon DEF HasCrunched
      <4> QED BY <2>6, <3>1, <4>1
    <3>4. Progress'
      <4>1. \A n \in 1 .. Len(sizes) : HasCrunched(n)'
        <5> SUFFICES ASSUME NEW n \in 1 .. Len(sizes) PROVE HasCrunched(n)'
          OBVIOUS
        <5>1. HasCrunched(n)
          BY <2>1 DEF Progress
        <5>2. n \in 1 .. Len(Files) /\ n # k
          <6>1. PICK d \in 0 .. Len(ToCrunch) : d = Len(sizes)
            BY <2>1 DEF Progress
          <6>2. n \in 1 .. d /\ k = d + 1 /\ k \in 1 .. Len(Files)
            BY <2>3, <6>1
          <6> QED BY <6>2, FilesFacts
        <5> QED BY <3>1, <5>1, <5>2
      <4> QED BY <1>1, <1>2, <2>1, <4>1, Zenon DEF Progress
    <3> QED BY <3>2, <3>3, <3>4
  <2>7. CASE disk' = Store(dest_filename, Crunched(disk[filename]))
    <3>1. disk' = Store(Dest(Files[k]), Crunched(Contents[k]))
      BY <2>4, <2>7, Zenon DEF dest_filename
    <3> QED BY <2>6, <3>1
  <2>8. CASE disk' = Store(dest_filename, Half) /\ status' # "success"
    <3>1. disk' = Store(Dest(Files[k]), Half)
      BY <2>4, <2>8, Zenon DEF dest_filename
    <3> QED BY <2>6, <2>8, <3>1
  <2> QED BY <2>5, <2>7, <2>8
<1>4. exo_pc' = "wait" /\ queue' # <<>> /\ child' = "ended"
  BY <1>1
<1>5. forked' /\ NamesApart' =>
        /\ (\A n \in 1 .. Len(Files) : Written(n))'
        /\ Progress'
        /\ (status' = "success" => HasCrunched(Len(sizes) + 1)')
  <2>1. forked' /\ NamesApart' => forked /\ NamesApart
    BY <1>1, <1>2
  <2> QED BY <1>3, <2>1
<1> QED
  <2>1. /\ exo_pc' # "start" => opt_pc' = "accepted"
        /\ exo_pc' \in {"start", "layout", "write"} => sizes' = <<>>
        /\ exo_pc' \in {"wait", "stat"} => queue' # <<>>
        /\ exo_pc' = "exit 0" => queue' = <<>>
        /\ child' \in {"none", "running", "ended"}
        /\ child' # "none" => exo_pc' = "wait"
        /\ exo_pc' \notin {"layout", "write"} /\ exo_pc' # "stat"
    BY ONLY <1>2, <1>4
  <2> QED BY ONLY <1>4, <1>5, <2>1, Zenon DEF FileInv, Behind

LEMMA WaitChildKeeps == FileInv /\ WaitChild => FileInv'
<1> SUFFICES ASSUME FileInv, WaitChild PROVE FileInv'
  OBVIOUS
<1>1. /\ exo_pc = "wait" /\ child # "running" /\ child' = "none"
      /\ exo_pc' = IF status = "success" THEN "stat" ELSE "exit 1"
      /\ UNCHANGED optVars /\ disk' = disk /\ queue' = queue /\ status' = status
      /\ program' = program /\ sizes' = sizes /\ forked' = forked
  BY DEF WaitChild
<1>2. /\ opt_pc = "accepted" /\ opt_pc' = "accepted" /\ NamesApart' = NamesApart
      /\ queue # <<>> /\ child \in {"none", "ended"}
  BY <1>1, SettingsStay DEF FileInv
<1>3. CASE status = "success"
  <2>1. exo_pc' = "stat"
    BY <1>1, <1>3
  <2>2. forked /\ NamesApart => /\ \A n \in 1 .. Len(Files) : Written(n)
                                /\ Progress /\ HasCrunched(Len(sizes) + 1)
    BY <1>1, <1>2, <1>3 DEF FileInv, Behind
  <2>3. forked /\ NamesApart => /\ (\A n \in 1 .. Len(Files) : Written(n))'
                                /\ Progress' /\ HasCrunched(Len(sizes) + 1)'
    BY <1>1, <2>2, FilesStay
  <2> QED BY <1>1, <1>2, <2>1, <2>3, Zenon DEF FileInv, Behind
<1>4. CASE status # "success"
  BY <1>1, <1>2, <1>4, EndsWithFailure
<1> QED BY <1>3, <1>4
\* The size that is returned is that of the crunched file.
LEMMA StatFileKeeps == OptInv /\ FileInv /\ StatFile => FileInv'
<1> SUFFICES ASSUME OptInv, FileInv, StatFile PROVE FileInv'
  OBVIOUS
<1>1. /\ exo_pc = "stat" /\ UNCHANGED optVars /\ disk' = disk /\ status' = status
      /\ child' = child /\ program' = program /\ forked' = forked
      /\ IF dest_filename \in DOMAIN disk
         THEN /\ sizes' = Append(sizes, disk[dest_filename])
              /\ queue' = Tail(queue) /\ exo_pc' = "exomize"
         ELSE exo_pc' = "exit 1" /\ UNCHANGED <<sizes, queue>>
  BY DEF StatFile
<1>2. /\ opt_pc = "accepted" /\ opt_pc' = "accepted" /\ child = "none"
      /\ queue # <<>> /\ NamesApart' = NamesApart /\ Files' = Files
      /\ ToCrunch' = ToCrunch /\ Contents' = Contents
  BY <1>1, SettingsStay DEF FileInv
<1>3. CASE dest_filename \notin DOMAIN disk
  BY <1>1, <1>2, <1>3, EndsWithFailure
<1>4. CASE dest_filename \in DOMAIN disk
  <2>1. /\ sizes' = Append(sizes, disk[dest_filename])
        /\ queue' = Tail(queue) /\ exo_pc' = "exomize"
    BY <1>1, <1>4
  <2>2. ASSUME forked, NamesApart
        PROVE  (\A n \in 1 .. Len(Files) : Written(n))' /\ Progress'
    <3>1. /\ \A n \in 1 .. Len(Files) : Written(n)
          /\ Progress /\ HasCrunched(Len(sizes) + 1)
      BY <1>1, <2>2 DEF FileInv, Behind
    <3>2. /\ ToCrunch = Files /\ Len(sizes) + 1 \in 1 .. Len(Files)
          /\ filename = Files[Len(sizes) + 1]
          /\ Tail(queue) = SubSeq(Files, Len(sizes) + 2, Len(Files))
      BY <1>1, <1>2, <2>2, AtFile DEF Behind
    <3>3. (\A n \in 1 .. Len(Files) : Written(n))'
      BY <1>1, <3>1, FilesStay
    <3>4. PICK d \in 0 .. Len(Files) : d = Len(sizes)
      BY <3>1, <3>2 DEF Progress
    <3>5. d + 1 \in 1 .. Len(Files) /\ Tail(queue) = SubSeq(Files, d + 2, Len(Files))
      BY <3>2, <3>4, Zenon
    <3>6. PICK c : c = Crunched(Contents[d + 1])
      OBVIOUS
    <3>7. disk[dest_filename] = c
      BY <3>1, <3>2, <3>4, <3>6, Zenon DEF HasCrunched, dest_filename
    <3>8. sizes = [n \in 1 .. d |-> Crunched(Contents[n])]
      BY <3>1, <3>4, Zenon DEF Progress
    <3>9. Len(sizes') = d + 1 /\ sizes' = [n \in 1 .. d + 1 |-> Crunched(Contents[n])]
      <4> DEFINE g == [n \in 1 .. d |-> Crunched(Contents[n])]
                 h == [n \in 1 .. d + 1 |-> Crunched(Contents[n])]
                 T == {Crunched(Contents[n]) : n \in 1 .. d + 1}
      <4>1. d \in Nat /\ sizes' = Append(g, c)
        BY <2>1, <3>4, <3>7, <3>8, FilesFacts
      <4>2. h \in [1 .. d + 1 -> T] /\ \A n \in 1 .. d : h[n] = g[n]
        BY <4>1
      <4>3. h[d + 1] = c /\ c \in T
        BY <3>6, <4>1
      <4>4. g \in [1 .. d -> T]
        BY <4>1
      <4> HIDE DEF g, h, T
      <4>5. g \in Seq(T) /\ Len(g) = d /\ h \in Seq(T) /\ Len(h) = d + 1
        BY <4>1, <4>2, <4>4
      <4>6. /\ Append(g, c) \in Seq(T) /\ Len(Append(g, c)) = d + 1
            /\ Append(g, c)[d + 1] = c
            /\ \A n \in 1 .. d : Append(g, c)[n] = g[n]
        BY <4>1, <4>3, <4>5
      <4>7. ASSUME NEW n \in 1 .. d + 1 PROVE Append(g, c)[n] = h[n]
        <5>1. n \in 1 .. d \/ n = d + 1
          BY <4>1
        <5> QED BY <4>2, <4>3, <4>6, <5>1
      <4>8. Append(g, c) = h
        BY <4>5, <4>6, <4>7, SeqEqual
      <4> QED BY <4>1, <4>6, <4>8 DEF h
    <3>10. ASSUME NEW n \in 1 .. d + 1 PROVE HasCrunched(n)'
      <4>1. HasCrunched(n)
        <5>1. n \in 1 .. d \/ n = d + 1
          BY <3>4, FilesFacts
        <5>2. CASE n \in 1 .. d
          BY <3>1, <3>4, <5>2, Zenon DEF Progress
        <5>3. CASE n = d + 1
          BY <3>1, <3>4, <5>3, Zenon DEF HasCrunched
        <5> QED BY <5>1, <5>2, <5>3
      <4> QED BY <1>1, <1>2, <4>1, Zenon DEF HasCrunched
    <3>11. Progress'
      <4>1. queue' = SubSeq(ToCrunch', (d + 1) + 1, Len(ToCrunch'))
        <5>1. (d + 1) + 1 = d + 2
          BY <3>4, FilesFacts
        <5> QED BY <1>2, <2>1, <3>2, <3>5, <5>1, Zenon
      <4>2. d + 1 \in 0 .. Len(ToCrunch')
        <5>1. d + 1 \in 0 .. Len(Files)
          BY <3>5, FilesFacts
        <5> QED BY <1>2, <3>2, <5>1, Zenon
      <4>3. PICK e : e = d + 1
        OBVIOUS
      <4> QED BY <1>2, <3>9, <3>10, <4>1, <4>2, <4>3, Zenon DEF Progress
    <3> QED BY <3>3, <3>11
  <2>3. child' = "none"
    BY <1>1, <1>2
  <2>4. forked' /\ NamesApart' => (\A n \in 1 .. Len(Files) : Written(n))' /\ Progress'
    BY <1>1, <1>2, <2>2, Zenon
  <2> QED BY <1>2, <2>1, <2>3, <2>4, Zenon DEF FileInv, Behind
<1> QED BY <1>3, <1>4

LEMMA CheckRangesKeeps == FileInv /\ CheckRanges => FileInv'
<1> SUFFICES ASSUME FileInv, CheckRanges PROVE FileInv'
  OBVIOUS
<1>1. /\ exo_pc = "exomize" /\ queue = <<>> /\ exo_pc' \in {"exit 0", "exit 1"}
      /\ UNCHANGED optVars /\ disk' = disk /\ queue' = queue /\ status' = status
      /\ child' = child /\ program' = program /\ sizes' = sizes /\ forked' = forked
  BY DEF CheckRanges
<1>2. /\ opt_pc = "accepted" /\ opt_pc' = "accepted" /\ NamesApart' = NamesApart
      /\ child = "none"
  BY <1>1, SettingsStay DEF FileInv
<1>3. CASE exo_pc' = "exit 1"
  BY <1>1, <1>2, <1>3, EndsWithFailure
<1>4. CASE exo_pc' = "exit 0"
  <2>1. forked /\ NamesApart => (\A n \in 1 .. Len(Files) : Written(n)) /\ Progress
    BY <1>1 DEF FileInv, Behind
  <2>2. forked /\ NamesApart => (\A n \in 1 .. Len(Files) : Written(n))' /\ Progress'
    BY <1>1, <2>1, FilesStay
  <2> QED BY <1>1, <1>2, <1>4, <2>2, Zenon DEF FileInv, Behind
<1> QED BY <1>1, <1>3, <1>4

\* While nothing changes, and while main reads its options.
LEMMA NothingKeeps ==
  ASSUME FileInv, UNCHANGED allVars
  PROVE  FileInv'
<1>1. /\ UNCHANGED optVars /\ exo_pc' = exo_pc /\ disk' = disk /\ queue' = queue
      /\ status' = status /\ child' = child /\ program' = program
      /\ sizes' = sizes /\ forked' = forked
  BY DEF allVars, exoVars
<1>2. /\ opt_pc' = opt_pc /\ setting' = setting /\ NamesApart' = NamesApart
      /\ Input' = Input /\ Outputs' = Outputs
  BY <1>1, SettingsStay
<1>3. /\ (\A n \in 1 .. Len(Files) : Written(n))' <=> (\A n \in 1 .. Len(Files) : Written(n))
      /\ Progress' <=> Progress
      /\ HasCrunched(Len(sizes) + 1)' <=> HasCrunched(Len(sizes) + 1)
  BY <1>1, FilesStay
<1> QED BY <1>1, <1>2, <1>3, Zenon DEF FileInv, Behind, ToSet

LEMMA ReadOptionsKeeps == FileInv /\ ReadOptions => FileInv'
<1> SUFFICES ASSUME FileInv, ReadOptions PROVE FileInv'
  OBVIOUS
<1>1. opt_pc = "options"
  BY DEF ReadOptions, NextOption, FileOption, AddressOption, OrderOption, MemmapOption,
         HelpOption, ExomizeOption, StatsOption, UnknownOption, NoOption, EndOfOptions,
         Option
<1>2. /\ exo_pc' = exo_pc /\ queue' = queue /\ child' = child /\ sizes' = sizes
  BY DEF ReadOptions, exoVars
<1>3. exo_pc = "start" /\ sizes = <<>> /\ child = "none"
  BY <1>1 DEF FileInv
<1> QED BY <1>2, <1>3 DEF FileInv, Behind

LEMMA FileInvNext ==
  OptInv /\ FileInv /\ [ExoNext \/ (ExoExited /\ UNCHANGED allVars)]_allVars => FileInv'
<1> SUFFICES ASSUME OptInv, FileInv,
                    [ExoNext \/ (ExoExited /\ UNCHANGED allVars)]_allVars
             PROVE  FileInv'
  OBVIOUS
<1>1. CASE ReadOptions
  BY <1>1, ReadOptionsKeeps
<1>2. CASE ReadInput
  BY <1>2, ReadInputKeeps
<1>3. CASE NoInput
  <2>1. /\ opt_pc = "accepted" /\ exo_pc = "start" /\ UNCHANGED optVars
        /\ exo_pc' = "exit 1" /\ child' = child
    BY <1>3 DEF NoInput
  <2> QED BY <2>1, EndsWithFailure DEF FileInv
<1>4. CASE OpenOutputs
  BY <1>4, OpenOutputsKeeps
<1>5. CASE WriteOutputs
  BY <1>5, WriteOutputsKeeps
<1>6. CASE WriteFails
  <2>1. /\ exo_pc = "write" /\ UNCHANGED optVars
        /\ exo_pc' = "exit 1" /\ child' = child
    BY <1>6 DEF WriteFails
  <2> QED BY <2>1, EndsWithFailure DEF FileInv
<1>7. CASE Fork
  BY <1>7, ForkKeeps
<1>8. CASE ForkFails
  BY <1>8, ForkFailsKeeps
<1>9. CASE ChildCrunches
  BY <1>9, ChildKeeps DEF ChildCrunches
<1>10. CASE ChildFails
  BY <1>10, ChildKeeps DEF ChildFails
<1>11. CASE WaitChild
  BY <1>11, WaitChildKeeps
<1>12. CASE StatFile
  BY <1>12, StatFileKeeps
<1>13. CASE CheckRanges
  BY <1>13, CheckRangesKeeps
<1>14. CASE UNCHANGED allVars
  BY <1>14, NothingKeeps
<1> QED BY <1>1, <1>2, <1>3, <1>4, <1>5, <1>6, <1>7, <1>8, <1>9, <1>10, <1>11, <1>12,
           <1>13, <1>14 DEF ExoNext

\* Every file that main counts as written or crunched has the contents it is
\* taken for, whatever the child processes do, as long as names are apart and a
\* process could be created for each.
THEOREM FilesInvariance == ExoSpec => []FileInv
<1>1. ExoInit => FileInv
  BY FileInvInit
<1>2. OptInv /\ FileInv /\ [ExoNext \/ (ExoExited /\ UNCHANGED allVars)]_allVars
        => FileInv'
  BY FileInvNext
<1> QED BY <1>1, <1>2, OptionsInvariance, PTL DEF ExoSpec

\* CrunchesItsFiles: for every command line and every file system, a call that
\* ends with success, and could fork, left its parts in the outputs, with -e a
\* crunched file of each that exomizer made of it in this call, and with -s one of
\* the input as it was read; the sizes that are compared are those of these files.
THEOREM CrunchesCorrect == ExoSpec => []CrunchesItsFiles
<1>1. OptInv /\ FileInv => CrunchesItsFiles
  BY FileInvCrunches
<1> QED BY <1>1, OptionsInvariance, FilesInvariance, PTL
-----------------------------------------------------------------------------
(***************************************************************************)
(* Numbers.  strtol and the numerals of README.md are defined by recursion *)
(* over the places of a text; what is proved of them is proved for sets of *)
(* places, from the fact that < is well-founded.                           *)
(***************************************************************************)

\* A set of natural numbers that is not empty has a least one.
LEMMA Least ==
  ASSUME NEW T, T \subseteq Nat, T # {}
  PROVE  \E n \in T : \A m \in T : n <= m
<1>1. PICK R : /\ IsWellFoundedOn(R, Nat)
               /\ \A m \in Nat, n \in Nat : <<m, n>> \in R <=> m < n
  <2>1. \A m \in Nat, n \in Nat : <<m, n>> \in OpToRel(<, Nat) <=> m < n
    BY DEF OpToRel
  <2> QED BY <2>1, NatLessThanWellFounded
<1>2. IsWellFoundedOn(R, Nat)
  BY <1>1
<1>3. PICK n \in T : \A m \in T : ~(<<m, n>> \in R)
  BY <1>2, WFMin, Zenon
<1>4. ASSUME NEW m \in T PROVE n <= m
  <2>1. n \in Nat /\ m \in Nat /\ ~(m < n)
    BY <1>1, <1>3
  <2> QED BY ONLY <2>1
<1> QED BY <1>4

\* Induction, for the set of numbers something holds of.
LEMMA Inductive ==
  ASSUME NEW S, 0 \in S, \A n \in Nat : n \in S => n + 1 \in S
  PROVE  \A n \in Nat : n \in S
<1> SUFFICES ASSUME Nat \ S # {} PROVE FALSE
  OBVIOUS
<1>1. PICK n \in Nat \ S : \A m \in Nat \ S : n <= m
  BY Least
<1>2. n - 1 \in Nat /\ n - 1 \notin S
  BY <1>1
<1> QED BY <1>1, <1>2

\* Values that each follow from the place and from the one before exist.
LEMMA Iterated ==
  ASSUME NEW M, NEW first \in M, NEW next \in [Nat -> [M -> M]]
  PROVE  \E g \in [Nat -> M] :
           g[0] = first /\ \A n \in Nat : g[n + 1] = next[n + 1][g[n]]
<1> DEFINE Upto(f, n) == /\ f \in [0 .. n -> M] /\ f[0] = first
                         /\ \A i \in 0 .. n - 1 : f[i + 1] = next[i + 1][f[i]]
<1>1. \A n \in Nat : \E f : Upto(f, n)
  <2> DEFINE S == {n \in Nat : \E f : Upto(f, n)}
  <2>1. 0 \in S
    <3>1. Upto([i \in 0 .. 0 |-> first], 0)
      OBVIOUS
    <3> QED BY <3>1
  <2>2. ASSUME NEW n \in Nat, n \in S PROVE n + 1 \in S
    <3>1. PICK f : Upto(f, n)
      BY <2>2
    <3>2. PICK v \in M : v = next[n + 1][f[n]]
      <4>1. n \in 0 .. n /\ f[n] \in M /\ n + 1 \in Nat
        BY <3>1
      <4> QED BY <4>1
    <3> DEFINE h == [i \in 0 .. n + 1 |-> IF i = n + 1 THEN v ELSE f[i]]
    <3>3. h \in [0 .. n + 1 -> M] /\ h[0] = first
      BY <3>1, <3>2
    <3>4. ASSUME NEW i \in 0 .. (n + 1) - 1 PROVE h[i + 1] = next[i + 1][h[i]]
      <4>1. CASE i = n
        BY <3>2, <4>1
      <4>2. CASE i # n
        <5>1. i \in 0 .. n - 1 /\ i + 1 \in 0 .. n
          BY <4>2
        <5> QED BY <3>1, <5>1
      <4> QED BY <4>1, <4>2
    <3>5. Upto(h, n + 1)
      <4> HIDE DEF h
      <4> QED BY <3>3, <3>4
    <3> HIDE DEF h
    <3> QED BY <3>5
  <2> HIDE DEF S
  <2>3. \A n \in Nat : n \in S
    BY <2>1, <2>2, Inductive
  <2> QED BY <2>3 DEF S
<1>2. ASSUME NEW f, NEW h, NEW m \in Nat, NEW n \in Nat, Upto(f, m), Upto(h, n)
      PROVE  \A i \in Nat : i <= m /\ i <= n => f[i] = h[i]
  <2> DEFINE S == {i \in Nat : i <= m /\ i <= n => f[i] = h[i]}
  <2>1. 0 \in S
    BY <1>2
  <2>2. ASSUME NEW i \in Nat, i \in S PROVE i + 1 \in S
    <3> SUFFICES ASSUME i + 1 <= m, i + 1 <= n PROVE f[i + 1] = h[i + 1]
      OBVIOUS
    <3>1. i \in 0 .. m - 1 /\ i \in 0 .. n - 1 /\ f[i] = h[i]
      BY <2>2
    <3> QED BY <1>2, <3>1
  <2> HIDE DEF S
  <2>3. \A i \in Nat : i \in S
    BY <2>1, <2>2, Inductive
  <2> QED BY <2>3 DEF S
<1> DEFINE F == [n \in Nat |-> CHOOSE f : Upto(f, n)]
           g == [n \in Nat |-> F[n][n]]
<1>3. \A n \in Nat : Upto(F[n], n)
  <2> HIDE DEF Upto
  <2> QED BY <1>1
<1> HIDE DEF F
<1>4. g \in [Nat -> M] /\ g[0] = first
  BY <1>3
<1>5. ASSUME NEW n \in Nat PROVE g[n + 1] = next[n + 1][g[n]]
  <2>1. Upto(F[n], n) /\ Upto(F[n + 1], n + 1)
    BY <1>3
  <2>2. F[n][n] = F[n + 1][n]
    <3> HIDE DEF Upto
    <3>1. n + 1 \in Nat /\ n <= n /\ n <= n + 1
      OBVIOUS
    <3> QED BY <1>2, <2>1, <3>1
  <2>3. n \in 0 .. (n + 1) - 1 /\ n + 1 \in Nat
    OBVIOUS
  <2>4. F[n + 1][n + 1] = next[n + 1][F[n + 1][n]]
    BY <2>1, <2>3
  <2> QED BY <2>2, <2>3, <2>4
<1> HIDE DEF g
<1> QED BY <1>4, <1>5

\* c is none of the characters that mean something else.
Plain(c) == c # "x" /\ c # "X" /\ c # "-" /\ c # "+" /\ c # "$" /\ c # "blank"

\* The value of any character.
LEMMA ValueRange ==
  ASSUME NEW c
  PROVE  Value(c) \in 0 .. 16
<1>1. CASE Contains(Digits, c)
  <2>1. \E n \in 1 .. 16 : Digits[n] = c
    BY <1>1 DEF Contains, Digits
  <2> QED BY <1>1, <2>1 DEF Value
<1>2. CASE ~Contains(Digits, c) /\ Contains(Capitals, c)
  <2>1. \E n \in 1 .. 6 : Capitals[n] = c
    BY <1>2 DEF Contains, Capitals
  <2> QED BY <1>2, <2>1 DEF Value
<1> QED BY <1>1, <1>2 DEF Value

\* Each digit has the value of its place in the list.
LEMMA DigitValue ==
  ASSUME NEW v \in 0 .. 15
  PROVE  /\ Value(Digits[v + 1]) = v
         /\ Plain(Digits[v + 1])
         /\ Digits[v + 1] = "0" <=> v = 0
<1>1. /\ Digits[1] = "0" /\ Digits[2] = "1" /\ Digits[3] = "2" /\ Digits[4] = "3"
      /\ Digits[5] = "4" /\ Digits[6] = "5" /\ Digits[7] = "6" /\ Digits[8] = "7"
      /\ Digits[9] = "8" /\ Digits[10] = "9" /\ Digits[11] = "a" /\ Digits[12] = "b"
      /\ Digits[13] = "c" /\ Digits[14] = "d" /\ Digits[15] = "e" /\ Digits[16] = "f"
      /\ Len(Digits) = 16
  BY DEF Digits
<1>2. PICK n \in 1 .. 16 : n = v + 1
  OBVIOUS
<1>3. \A m \in 1 .. 16 : Digits[m] = Digits[n] => m = n
  BY <1>1
<1>4. Contains(Digits, Digits[n])
  BY <1>1 DEF Contains
<1>5. Value(Digits[n]) = n - 1
  BY <1>3, <1>4 DEF Value
<1>6. Plain(Digits[n]) /\ (Digits[n] = "0" <=> n = 1)
  BY <1>1 DEF Plain
<1> QED BY <1>2, <1>5, <1>6

\* The number that digits make, one digit after the other.
LEMMA AccumulatedIs ==
  ASSUME NEW d, NEW b \in Nat
  PROVE  \E abs \in [Nat -> Nat] :
           /\ abs = Accumulated(d, b) /\ abs[0] = 0
           /\ \A n \in Nat : abs[n + 1] = IF abs[n] > LONG_MAX THEN abs[n]
                                          ELSE b * abs[n] + Value(d[n + 1])
<1> DEFINE Step(n, acc) == IF acc > LONG_MAX THEN acc ELSE b * acc + Value(d[n])
           Body(f, n) == IF n = 0 THEN 0 ELSE IF f[n - 1] > LONG_MAX THEN f[n - 1]
                                              ELSE b * f[n - 1] + Value(d[n])
           next == [n \in Nat |-> [acc \in Nat |-> Step(n, acc)]]
           A == Accumulated(d, b)
<1>1. A = CHOOSE f : f = [n \in Nat |-> Body(f, n)]
  BY Zenon DEF Accumulated
<1>2. \A n, acc \in Nat : Step(n, acc) \in Nat
  <2> SUFFICES ASSUME NEW n \in Nat, NEW acc \in Nat PROVE Step(n, acc) \in Nat
    OBVIOUS
  <2>1. Value(d[n]) \in Nat
    BY ValueRange
  <2>2. b * acc \in Nat
    OBVIOUS
  <2> QED BY <2>1, <2>2
<1>3. \A n, acc \in Nat : next[n][acc] = Step(n, acc)
  OBVIOUS
<1>4. next \in [Nat -> [Nat -> Nat]]
  BY <1>2
<1>5. PICK g \in [Nat -> Nat] : g[0] = 0 /\ \A n \in Nat : g[n + 1] = next[n + 1][g[n]]
  <2> HIDE DEF next
  <2> DEFINE M == Nat first == 0
  <2>1. first \in M /\ next \in [Nat -> [M -> M]]
    BY <1>4
  <2> HIDE DEF M, first
  <2>2. \E g \in [Nat -> M] : g[0] = first /\ \A n \in Nat : g[n + 1] = next[n + 1][g[n]]
    BY ONLY <2>1, Iterated, SMTT(60)
  <2> QED BY <2>2 DEF M, first
<1> HIDE DEF next
<1>6. \A n \in Nat : g[n + 1] = Step(n + 1, g[n])
  <2> HIDE DEF Step
  <2>1. \A n \in Nat : n + 1 \in Nat /\ g[n] \in Nat
    BY <1>5
  <2> QED BY <1>3, <1>5, <2>1
<1>7. ASSUME NEW n \in Nat PROVE g[n] = Body(g, n)
  <2>1. CASE n = 0
    BY <1>5, <2>1
  <2>2. CASE n # 0
    <3>1. PICK k \in Nat : n = k + 1 /\ n - 1 = k
      BY <2>2
    <3> QED BY <1>6, <2>2, <3>1
  <2> QED BY <2>1, <2>2
<1>8. g = [n \in Nat |-> Body(g, n)]
  <2> HIDE DEF Body
  <2> QED BY <1>5, <1>7
<1>9. A = [n \in Nat |-> Body(A, n)]
  <2> HIDE DEF A, Body
  <2> QED BY <1>1, <1>8, Zenon
<1>10. A[0] = 0 /\ \A n \in Nat : A[n + 1] = Step(n + 1, A[n])
  <2> HIDE DEF A
  <2>1. A[0] = Body(A, 0)
    BY <1>9
  <2>2. ASSUME NEW n \in Nat PROVE A[n + 1] = Step(n + 1, A[n])
    <3>1. n + 1 \in Nat /\ n + 1 # 0 /\ (n + 1) - 1 = n
      OBVIOUS
    <3>2. A[n + 1] = Body(A, n + 1)
      BY <1>9, <3>1
    <3> QED BY <3>1, <3>2
  <2> QED BY <2>1, <2>2
<1>11. \A n \in Nat : A[n] \in Nat
  <2> DEFINE S == {n \in Nat : A[n] \in Nat}
  <2>1. 0 \in S
    BY <1>10
  <2>2. \A n \in Nat : n \in S => n + 1 \in S
    <3> HIDE DEF Step, A
    <3>1. \A n \in Nat : n + 1 \in Nat
      OBVIOUS
    <3> QED BY <1>2, <1>10, <3>1
  <2> HIDE DEF S, A
  <2>3. \A n \in Nat : n \in S
    BY <2>1, <2>2, Inductive
  <2> QED BY <2>3 DEF S
<1>12. A \in [Nat -> Nat]
  <2> HIDE DEF A, Body
  <2> QED BY <1>9, <1>11
<1> HIDE DEF A
<1> QED BY <1>10, <1>12 DEF A

\* Dividing by a base takes the last digit away.
LEMMA ShortenedIs ==
  ASSUME NEW n \in Nat, NEW b \in Nat, b > 1
  PROVE  \E left \in [Nat -> Nat] :
           /\ left = Shortened(n, b) /\ left[0] = n
           /\ \A k \in Nat : left[k + 1] = left[k] \div b
<1> DEFINE Body(f, k) == IF k = 0 THEN n ELSE f[k - 1] \div b
           next == [k \in Nat |-> [m \in Nat |-> m \div b]]
           A == Shortened(n, b)
<1>1. A = CHOOSE f : f = [k \in Nat |-> Body(f, k)]
  BY Zenon DEF Shortened
<1>2. \A m \in Nat : m \div b \in Nat
  OBVIOUS
<1>3. next \in [Nat -> [Nat -> Nat]] /\ \A k, m \in Nat : next[k][m] = m \div b
  BY <1>2
<1>4. PICK g \in [Nat -> Nat] : g[0] = n /\ \A k \in Nat : g[k + 1] = next[k + 1][g[k]]
  <2> HIDE DEF next
  <2> DEFINE M == Nat first == n
  <2>1. first \in M /\ next \in [Nat -> [M -> M]]
    BY <1>3
  <2> HIDE DEF M, first
  <2>2. \E g \in [Nat -> M] : g[0] = first /\ \A k \in Nat : g[k + 1] = next[k + 1][g[k]]
    BY ONLY <2>1, Iterated, SMTT(60)
  <2> QED BY <2>2 DEF M, first
<1> HIDE DEF next
<1>5. \A k \in Nat : g[k + 1] = g[k] \div b
  <2>1. \A k \in Nat : k + 1 \in Nat /\ g[k] \in Nat
    BY <1>4
  <2> QED BY ONLY <1>3, <1>4, <2>1
<1>6. ASSUME NEW k \in Nat PROVE g[k] = Body(g, k)
  <2>1. CASE k = 0
    BY <1>4, <2>1
  <2>2. CASE k # 0
    <3>1. PICK j \in Nat : k = j + 1 /\ k - 1 = j
      BY <2>2
    <3> QED BY <1>5, <2>2, <3>1
  <2> QED BY <2>1, <2>2
<1>7. g = [k \in Nat |-> Body(g, k)]
  <2> HIDE DEF Body
  <2> QED BY <1>4, <1>6
<1>8. A = [k \in Nat |-> Body(A, k)]
  <2> HIDE DEF A, Body
  <2> QED BY <1>1, <1>7, Zenon
<1>9. A[0] = n /\ \A k \in Nat : A[k + 1] = A[k] \div b
  <2> HIDE DEF A
  <2>1. A[0] = Body(A, 0)
    BY <1>8
  <2>2. ASSUME NEW k \in Nat PROVE A[k + 1] = A[k] \div b
    <3>1. k + 1 \in Nat /\ k + 1 # 0 /\ (k + 1) - 1 = k
      OBVIOUS
    <3>2. A[k + 1] = Body(A, k + 1)
      BY <1>8, <3>1
    <3> QED BY <3>1, <3>2
  <2> QED BY <2>1, <2>2
<1>10. \A k \in Nat : A[k] \in Nat
  <2> DEFINE S == {k \in Nat : A[k] \in Nat}
  <2> HIDE DEF A
  <2>1. 0 \in S
    BY <1>9
  <2>2. \A k \in Nat : k \in S => k + 1 \in S
    BY <1>2, <1>9
  <2> HIDE DEF S
  <2>3. \A k \in Nat : k \in S
    BY <2>1, <2>2, Inductive
  <2> QED BY <2>3 DEF S
<1>11. A \in [Nat -> Nat]
  <2> HIDE DEF A, Body
  <2> QED BY <1>8, <1>10
<1> HIDE DEF A
<1> QED BY <1>9, <1>11 DEF A

Bases == {8, 10, 16}

LEMMA Divided ==
  ASSUME NEW m \in Nat, NEW b \in Bases
  PROVE  /\ m \div b \in Nat /\ m % b \in 0 .. b - 1
         /\ m = b * (m \div b) + (m % b)
         /\ m \div b <= m /\ (m # 0 => m \div b < m)
<1>1. CASE b = 8
  BY <1>1
<1>2. CASE b = 10
  BY <1>2
<1>3. CASE b = 16
  BY <1>3
<1> QED BY <1>1, <1>2, <1>3 DEF Bases

\* The places of a numeral: j digits from the left are what is left of the
\* number when the others were taken from its end.
LEMMA NumeralIs ==
  ASSUME NEW n \in Nat, NEW b \in Bases
  PROVE  \E left \in [Nat -> Nat], length \in Nat \ {0} :
           /\ left[0] = n /\ left[length] = 0 /\ (n # 0 => left[length - 1] # 0)
           /\ n = 0 => length = 1
           /\ \A k \in Nat : left[k + 1] = left[k] \div b /\ left[k] <= n
           /\ Numeral(n, b) = [j \in 1 .. length |-> Digits[(left[length - j] % b) + 1]]
<1>1. b \in Nat /\ b > 1
  BY DEF Bases
<1>2. PICK left \in [Nat -> Nat] :
        /\ left = Shortened(n, b) /\ left[0] = n
        /\ \A k \in Nat : left[k + 1] = left[k] \div b
  BY <1>1, ShortenedIs
<1>3. \A k \in Nat : left[k] <= n /\ (left[k] = 0 \/ left[k] + k <= n)
  <2> DEFINE S == {k \in Nat : left[k] <= n /\ (left[k] = 0 \/ left[k] + k <= n)}
  <2>1. 0 \in S
    BY <1>2
  <2>2. ASSUME NEW k \in Nat, k \in S PROVE k + 1 \in S
    <3>1. PICK m \in Nat : m = left[k]
      BY <1>2
    <3>2. m \div b \in Nat /\ m \div b <= m /\ (m # 0 => m \div b < m)
      BY Divided
    <3>3. m = 0 => m \div b = 0
      BY <3>2
    <3>4. PICK q \in Nat : q = m \div b
      BY <3>2
    <3>5. left[k + 1] = q /\ q <= m /\ (m # 0 => q < m) /\ (m = 0 => q = 0)
      BY <1>2, <3>1, <3>2, <3>3, <3>4
    <3> QED BY ONLY <2>2, <3>1, <3>5, k \in Nat, n \in Nat, q \in Nat, m \in Nat
  <2> HIDE DEF S
  <2>3. \A k \in Nat : k \in S
    BY <2>1, <2>2, Inductive
  <2> QED BY <2>3 DEF S
<1> DEFINE T == {k \in Nat : k > 0 /\ left[k] = 0}
           Ends(k) == left[k] = 0 /\ (k > 1 => left[k - 1] # 0)
<1>4. n + 1 \in T
  <2>1. n + 1 \in Nat /\ left[n + 1] \in Nat /\ (left[n + 1] = 0 \/ left[n + 1] + (n + 1) <= n)
    BY <1>2, <1>3
  <2> QED BY <2>1
<1>5. PICK k \in T : \A m \in T : k <= m
  <2>1. T \subseteq Nat /\ T # {}
    BY <1>4
  <2> HIDE DEF T
  <2> QED BY <2>1, Least
<1>6. k \in 1 .. n + 1 /\ Ends(k)
  <2>1. k > 1 => k - 1 \notin T /\ k - 1 \in Nat /\ k - 1 > 0
    BY <1>5
  <2> QED BY <1>4, <1>5, <2>1
<1> DEFINE length == CHOOSE l \in 1 .. n + 1 : Ends(l)
<1>7. length \in 1 .. n + 1 /\ Ends(length)
  BY <1>6
<1>8. Numeral(n, b) = [j \in 1 .. length |-> Digits[(left[length - j] % b) + 1]]
  BY <1>2 DEF Numeral
<1> HIDE DEF length, T
<1>9. length \in Nat \ {0} /\ left[length] = 0
  BY <1>7
<1>10. n = 0 => length = 1
  <2> SUFFICES ASSUME n = 0, length > 1 PROVE FALSE
    BY <1>9
  <2>1. left[length - 1] # 0 /\ length - 1 \in Nat
    BY <1>7
  <2> QED BY <1>2, <1>3, <2>1
<1>11. n # 0 => left[length - 1] # 0
  <2>1. length = 1 => left[length - 1] = n
    BY <1>2
  <2> QED BY <1>7, <1>9, <2>1
<1> QED BY <1>2, <1>3, <1>8, <1>9, <1>10, <1>11

\* What the four formats are written with.
Signs == {Digits[v + 1] : v \in 0 .. 15} \cup {"x", "$"}

\* The characters of a numeral are digits; no number but 0 starts with "0".
LEMMA NumeralDigits ==
  ASSUME NEW n \in Nat, NEW b \in Bases
  PROVE  /\ Numeral(n, b) \in Seq(Signs) /\ Len(Numeral(n, b)) > 0
         /\ \A j \in 1 .. Len(Numeral(n, b)) :
              /\ Value(Numeral(n, b)[j]) < b
              /\ Plain(Numeral(n, b)[j])
         /\ n # 0 => Numeral(n, b)[1] # "0"
         /\ n = 0 => Len(Numeral(n, b)) = 1 /\ Numeral(n, b)[1] = "0"
<1>1. PICK left \in [Nat -> Nat], length \in Nat \ {0} :
        /\ left[0] = n /\ left[length] = 0 /\ (n # 0 => left[length - 1] # 0)
        /\ n = 0 => length = 1
        /\ \A k \in Nat : left[k + 1] = left[k] \div b /\ left[k] <= n
        /\ Numeral(n, b) = [j \in 1 .. length |-> Digits[(left[length - j] % b) + 1]]
  BY NumeralIs
<1>2. PICK s : s = Numeral(n, b)
  OBVIOUS
<1>3. \A v \in 0 .. 15 : Digits[v + 1] \in Signs
  BY DEF Signs
<1>4. ASSUME NEW j \in 1 .. length
      PROVE  \E v \in 0 .. 15 : /\ v < b /\ v = left[length - j] % b /\ s[j] = Digits[v + 1]
  <2>1. length - j \in Nat /\ left[length - j] \in Nat
    BY ONLY j \in 1 .. length, length \in Nat \ {0}, left \in [Nat -> Nat]
  <2>2. left[length - j] % b \in 0 .. b - 1
    BY <2>1, Divided
  <2>3. PICK v \in Nat : v = left[length - j] % b /\ v < b
    BY <2>2 DEF Bases
  <2>4. v \in 0 .. 15
    BY <2>3 DEF Bases
  <2>5. s[j] = Digits[v + 1]
    BY <1>1, <1>2, <2>3
  <2> QED BY <2>3, <2>4, <2>5
<1>5. s \in [1 .. length -> Signs]
  <2>1. s = [j \in 1 .. length |-> s[j]]
    BY <1>1, <1>2
  <2>2. \A j \in 1 .. length : s[j] \in Signs
    BY <1>3, <1>4
  <2> QED BY <2>1, <2>2
<1>6. s \in Seq(Signs) /\ Len(s) = length
  BY <1>5
<1>7. \A j \in 1 .. length : Value(s[j]) < b /\ Plain(s[j])
  <2> SUFFICES ASSUME NEW j \in 1 .. length
               PROVE  Value(s[j]) < b /\ Plain(s[j])
    OBVIOUS
  <2>1. PICK v \in 0 .. 15 : v < b /\ s[j] = Digits[v + 1]
    BY <1>4
  <2> QED BY <2>1, DigitValue
<1>8. PICK v \in 0 .. 15 : v = left[length - 1] % b /\ s[1] = Digits[v + 1]
  <2>1. 1 \in 1 .. length
    OBVIOUS
  <2> QED BY <1>4, <2>1
<1>9. s[1] = "0" <=> v = 0
  BY <1>8, DigitValue
<1>10. v = left[length - 1]
  <2>1. length - 1 \in Nat /\ (length - 1) + 1 = length
    OBVIOUS
  <2>2. PICK m \in Nat : m = left[length - 1]
    BY <1>1, <2>1
  <2>3. m \div b = 0
    BY <1>1, <2>1, <2>2
  <2>4. m = b * 0 + (m % b)
    BY <2>3, Divided
  <2>5. m = m % b
    BY <2>4 DEF Bases
  <2> QED BY <1>8, <2>2, <2>5
<1>11. n = 0 => v = 0
  <2>1. length - 1 \in Nat
    OBVIOUS
  <2>2. left[length - 1] \in Nat /\ left[length - 1] <= n
    BY <1>1, <2>1
  <2> QED BY <1>10, <2>2
<1>12. /\ s \in Seq(Signs) /\ Len(s) > 0
       /\ \A j \in 1 .. Len(s) : Value(s[j]) < b /\ Plain(s[j])
       /\ n # 0 => s[1] # "0"
       /\ n = 0 => Len(s) = 1 /\ s[1] = "0"
  <2>1. \A j \in 1 .. Len(s) : Value(s[j]) < b /\ Plain(s[j])
    BY ONLY <1>6, <1>7
  <2>2. n # 0 => s[1] # "0"
    BY ONLY <1>1, <1>9, <1>10
  <2>3. n = 0 => Len(s) = 1 /\ s[1] = "0"
    BY ONLY <1>1, <1>6, <1>9, <1>11
  <2>4. Len(s) > 0
    BY ONLY <1>6, length \in Nat \ {0}
  <2> QED BY <1>6, <2>1, <2>2, <2>3, <2>4
<1> QED BY ONLY <1>2, <1>12

\* The digits of a numeral, behind a zero or not, make its number.
LEMMA NumeralRead ==
  ASSUME NEW n \in 0 .. INT_MAX, NEW b \in Bases, NEW z \in {0, 1}, NEW d,
         z = 1 => d[1] = "0",
         \A j \in 1 .. Len(Numeral(n, b)) : d[z + j] = Numeral(n, b)[j]
  PROVE  Accumulated(d, b)[z + Len(Numeral(n, b))] = n
<1>1. n \in Nat /\ n <= LONG_MAX /\ LONG_MAX \in Nat /\ INT_MAX \in Nat
  BY IntAssumption
<1>2. PICK left \in [Nat -> Nat], length \in Nat \ {0} :
        /\ left[0] = n /\ left[length] = 0 /\ (n # 0 => left[length - 1] # 0)
        /\ n = 0 => length = 1
        /\ \A k \in Nat : left[k + 1] = left[k] \div b /\ left[k] <= n
        /\ Numeral(n, b) = [j \in 1 .. length |-> Digits[(left[length - j] % b) + 1]]
  BY <1>1, NumeralIs
<1>3. Len(Numeral(n, b)) = length
  BY <1>2
<1>4. PICK abs \in [Nat -> Nat] :
        /\ abs = Accumulated(d, b) /\ abs[0] = 0
        /\ \A m \in Nat : abs[m + 1] = IF abs[m] > LONG_MAX THEN abs[m]
                                       ELSE b * abs[m] + Value(d[m + 1])
  <2>1. b \in Nat
    BY DEF Bases
  <2> QED BY <2>1, AccumulatedIs
<1>5. abs[z] = 0
  <2>1. CASE z = 0
    BY <1>4, <2>1
  <2>2. CASE z = 1
    <3>1. Value("0") = 0
      <4>1. Value(Digits[0 + 1]) = 0 /\ Digits[0 + 1] = "0"
        BY DigitValue
      <4> QED BY <4>1
    <3>2. abs[0 + 1] = b * 0 + Value(d[0 + 1])
      BY <1>1, <1>4
    <3>3. abs[1] = b * 0 + 0
      <4>1. d[0 + 1] = "0" /\ 0 + 1 = 1
        BY <2>2
      <4> QED BY <3>1, <3>2, <4>1
    <3> QED BY <2>2, <3>3 DEF Bases
  <2> QED BY <2>1, <2>2
<1> DEFINE S == {j \in Nat : j <= length => abs[z + j] = left[length - j]}
<1>6. 0 \in S
  BY <1>2, <1>5
<1>7. ASSUME NEW j \in Nat, j \in S PROVE j + 1 \in S
  <2> SUFFICES ASSUME j + 1 <= length PROVE abs[z + (j + 1)] = left[length - (j + 1)]
    OBVIOUS
  <2>1. PICK k \in Nat : k = length - (j + 1) /\ k + 1 = length - j
    OBVIOUS
  <2>2. PICK m \in Nat : m = left[k] /\ m <= n
    BY <1>2
  <2>3. abs[z + j] = m \div b
    BY <1>2, <1>7, <2>1, <2>2
  <2>4. m % b \in 0 .. 15 /\ m = b * (m \div b) + (m % b) /\ m \div b <= m /\ m \div b \in Nat
    <3>1. m % b \in 0 .. b - 1 /\ m = b * (m \div b) + (m % b) /\ m \div b <= m
          /\ m \div b \in Nat
      BY ONLY m \in Nat, b \in Bases, Divided
    <3>2. m % b \in 0 .. 15
      <4>1. m % b \in 0 .. b - 1
        BY <3>1
      <4>2. b \in Nat /\ b <= 16
        BY ONLY b \in Bases DEF Bases
      <4> QED BY ONLY <4>1, <4>2
    <3> QED BY <3>1, <3>2
  <2>5. PICK v \in 0 .. 15 : v = m % b
    BY <2>4
  <2>6. d[z + (j + 1)] = Digits[v + 1]
    <3>1. j + 1 \in 1 .. length
      OBVIOUS
    <3>2. d[z + (j + 1)] = Numeral(n, b)[j + 1]
      BY <1>3, <3>1
    <3>3. Numeral(n, b)[j + 1] = Digits[(left[length - (j + 1)] % b) + 1]
      BY <1>2, <3>1
    <3> QED BY <2>1, <2>2, <2>5, <3>2, <3>3
  <2>7. Value(d[z + (j + 1)]) = v
    BY <2>6, DigitValue
  <2>8. PICK p \in Nat : p = z + j /\ p + 1 = z + (j + 1)
    OBVIOUS
  <2>9. abs[p + 1] = b * (m \div b) + v
    <3>1. ~(abs[p] > LONG_MAX)
      BY <1>1, <2>2, <2>3, <2>4, <2>8
    <3>2. abs[p + 1] = b * abs[p] + Value(d[p + 1])
      BY <1>4, <3>1
    <3> QED BY <2>3, <2>7, <2>8, <3>2
  <2>10. abs[p + 1] = m
    BY <2>4, <2>5, <2>9
  <2> QED BY <2>1, <2>2, <2>8, <2>10
<1> HIDE DEF S
<1>8. \A j \in Nat : j \in S
  BY <1>6, <1>7, Inductive
<1>9. abs[z + length] = left[length - length]
  <2>1. length \in S /\ length \in Nat /\ length <= length
    BY <1>8
  <2> QED BY <2>1 DEF S
<1>10. abs[z + length] = n
  BY <1>2, <1>9
<1> QED BY <1>3, <1>4, <1>10

\* A text has leading blanks or not.
LEMMA UnblankedFacts ==
  ASSUME NEW S, NEW text \in Seq(S)
  PROVE  /\ Unblanked(text) \in Seq(S)
         /\ text # <<>> /\ text[1] # "blank" => Unblanked(text) = text
<1> DEFINE blanks == {n \in 1 .. Len(text) : \A m \in 1 .. n : text[m] = "blank"}
<1>1. PICK l \in Nat : l = Len(text)
  OBVIOUS
<1>2. Unblanked(text) = SubSeq(text, Cardinality(blanks) + 1, l)
  BY <1>1 DEF Unblanked
<1>3. Cardinality(blanks) \in Nat
  <2>1. IsFiniteSet(1 .. l)
    BY <1>1, FS_Interval
  <2>2. blanks \subseteq 1 .. l
    BY <1>1
  <2> HIDE DEF blanks
  <2> QED BY <2>1, <2>2, FS_Subset, FS_CardinalityType
<1>4. SubSeq(text, Cardinality(blanks) + 1, l) \in Seq(S)
  <2> HIDE DEF blanks
  <2> QED BY <1>1, <1>3
<1>5. ASSUME text # <<>>, text[1] # "blank" PROVE Unblanked(text) = text
  <2>1. blanks = {}
    <3>1. \A n \in 1 .. Len(text) : 1 \in 1 .. n
      OBVIOUS
    <3> QED BY <1>5, <3>1
  <2>2. Cardinality(blanks) = 0
    BY <2>1, FS_EmptySet
  <2> HIDE DEF blanks
  <2>3. Unblanked(text) = SubSeq(text, 1, l)
    BY <1>2, <2>2
  <2>4. SubSeq(text, 1, l) = [j \in 1 .. l |-> text[j]]
    BY <1>1
  <2>5. text = [j \in 1 .. l |-> text[j]]
    BY <1>1
  <2> QED BY <2>3, <2>4, <2>5
<1> HIDE DEF blanks
<1> QED BY <1>2, <1>4, <1>5

\* strtol, for a text that is no more than digits behind its prefix.
LEMMA StrtolReads ==
  ASSUME NEW S, NEW text \in Seq(S), text # <<>>, text[1] # "-", text[1] # "+", text[1] # "blank",
         NEW base \in {0, 16}, NEW b \in Bases, NEW d \in Seq(S),
         base # 0 => b = base,
         base = 0 /\ HexPrefix(text) => b = 16,
         base = 0 /\ ~HexPrefix(text) => b = IF text[1] = "0" THEN 8 ELSE 10,
         d = IF b = 16 /\ HexPrefix(text) THEN SubSeq(text, 3, Len(text)) ELSE text,
         \A j \in 1 .. Len(d) : Value(d[j]) < b,
         NEW n \in 0 .. LONG_MAX, Accumulated(d, b)[Len(d)] = n
  PROVE  Strtol(text, base) = n
<1> DEFINE word == Unblanked(text)
           negative == word # <<>> /\ word[1] = "-"
           s == IF word # <<>> /\ word[1] \in {"-", "+"} THEN Tail(word) ELSE word
           c == IF base # 0 THEN base
                ELSE IF HexPrefix(s) THEN 16
                ELSE IF s # <<>> /\ s[1] = "0" THEN 8 ELSE 10
           e == IF c = 16 /\ HexPrefix(s) THEN SubSeq(s, 3, Len(s)) ELSE s
           Stops(m) == /\ \A j \in 1 .. m : Value(e[j]) < c
                       /\ m < Len(e) => Value(e[m + 1]) >= c
           read == CHOOSE m \in 0 .. Len(e) : Stops(m)
           abs == Accumulated(e, c)[read]
<1>1. Strtol(text, base) =
        IF abs > LONG_MAX THEN IF negative THEN -LONG_MAX - 1 ELSE LONG_MAX
        ELSE IF negative THEN -abs ELSE abs
  BY Zenon DEF Strtol
<1>2. ~negative /\ s = text
  <2>1. word = text
    BY UnblankedFacts
  <2> HIDE DEF word
  <2> QED BY <2>1
<1> HIDE DEF word, negative, s
<1>3. c = b
  <2>1. s = text /\ text # <<>> /\ (base = 0 \/ base = 16)
    BY <1>2
  <2>2. CASE base = 16
    BY <2>1, <2>2
  <2>3. CASE base = 0 /\ HexPrefix(text)
    BY <2>1, <2>3
  <2>4. CASE base = 0 /\ ~HexPrefix(text)
    BY <2>1, <2>4
  <2> QED BY <2>1, <2>2, <2>3, <2>4
<1> HIDE DEF c
<1>4. e = d
  BY <1>2, <1>3
<1> HIDE DEF e
<1>5. read = Len(d)
  <2>1. Stops(Len(d)) /\ Len(d) \in 0 .. Len(e)
    BY <1>3, <1>4
  <2>2. ASSUME NEW m \in 0 .. Len(e), Stops(m) PROVE m = Len(d)
    <3> SUFFICES ASSUME m < Len(d) PROVE FALSE
      BY <1>4
    <3>1. m + 1 \in 1 .. Len(d) /\ Value(d[m + 1]) >= b
      BY <1>3, <1>4, <2>2
    <3>2. Value(d[m + 1]) < b
      BY <3>1
    <3>3. PICK v \in 0 .. 16 : v = Value(d[m + 1])
      BY ValueRange
    <3>4. v < b /\ v >= b /\ b \in Nat
      BY <3>1, <3>2, <3>3 DEF Bases
    <3> QED BY ONLY <3>4, v \in 0 .. 16
  <2> HIDE DEF Stops
  <2> QED BY <2>1, <2>2
<1> HIDE DEF read
<1>6. abs = n
  BY <1>3, <1>4, <1>5
<1> HIDE DEF abs
<1>7. ~(n > LONG_MAX)
  BY IntAssumption
<1> QED BY <1>1, <1>2, <1>6, <1>7

\* An int holds the numbers up to INT_MAX.
LEMMA ToIntFacts ==
  ASSUME NEW n \in Int
  PROVE  /\ ToInt(n) \in -INT_MAX - 1 .. INT_MAX
         /\ n \in 0 .. INT_MAX => ToInt(n) = n
<1>1. PICK k \in Nat : k = INT_MAX + 1 /\ k > 0
  BY IntAssumption
<1>2. PICK m \in Int : m = n + k
  OBVIOUS
<1>3. PICK w \in Nat : w = 2 * k /\ w > 0
  BY <1>1
<1>4. m % w \in 0 .. w - 1
  BY <1>3
<1>5. m \in 0 .. w - 1 => m % w = m
  BY <1>3
<1>6. ToInt(n) = (m % w) - k
  BY <1>1, <1>2, <1>3, IntAssumption DEF ToInt
<1>7. INT_MAX = k - 1
  BY <1>1, IntAssumption
<1> QED BY ONLY <1>2, <1>3, <1>4, <1>5, <1>6, <1>7, n \in Int, k \in Nat, m \in Int, w \in Nat

\* strtol returns a number, whatever the text is.
LEMMA StrtolInt ==
  ASSUME NEW S, NEW text \in Seq(S), NEW base \in {0, 16}
  PROVE  Strtol(text, base) \in Int
<1> DEFINE word == Unblanked(text)
           negative == word # <<>> /\ word[1] = "-"
           s == IF word # <<>> /\ word[1] \in {"-", "+"} THEN Tail(word) ELSE word
           b == IF base # 0 THEN base
                ELSE IF HexPrefix(s) THEN 16
                ELSE IF s # <<>> /\ s[1] = "0" THEN 8 ELSE 10
           d == IF b = 16 /\ HexPrefix(s) THEN SubSeq(s, 3, Len(s)) ELSE s
           Stops(m) == /\ \A j \in 1 .. m : Value(d[j]) < b
                       /\ m < Len(d) => Value(d[m + 1]) >= b
           read == CHOOSE m \in 0 .. Len(d) : Stops(m)
           abs == Accumulated(d, b)[read]
<1>1. Strtol(text, base) =
        IF abs > LONG_MAX THEN IF negative THEN -LONG_MAX - 1 ELSE LONG_MAX
        ELSE IF negative THEN -abs ELSE abs
  BY Zenon DEF Strtol
<1>2. s \in Seq(S)
  <2>1. word \in Seq(S)
    BY UnblankedFacts
  <2> HIDE DEF word
  <2> QED BY <2>1
<1> HIDE DEF word, s
<1>3. b \in Nat
  OBVIOUS
<1> HIDE DEF b
<1>4. d \in Seq(S) /\ Len(d) \in Nat
  <2>1. Len(s) \in Nat
    BY <1>2
  <2>2. SubSeq(s, 3, Len(s)) \in Seq(S)
    BY <1>2, <2>1
  <2> QED BY <1>2, <2>2
<1> HIDE DEF d
<1>5. \E m \in 0 .. Len(d) : Stops(m)
  <2> DEFINE T == {m \in Nat : m < Len(d) => Value(d[m + 1]) >= b}
  <2>1. T \subseteq Nat /\ Len(d) \in T
    BY <1>4
  <2>2. PICK m \in T : \A k \in T : m <= k
    <3> HIDE DEF T
    <3> QED BY <2>1, Least
  <2>3. m \in 0 .. Len(d)
    BY <1>4, <2>1, <2>2
  <2>4. ASSUME NEW j \in 1 .. m PROVE Value(d[j]) < b
    <3>1. PICK k \in Nat : j = k + 1 /\ k < m /\ k < Len(d)
      BY <1>4, <2>3
    <3>2. k \notin T
      BY <2>2, <2>3, <3>1
    <3>3. PICK v \in 0 .. 16 : v = Value(d[j])
      BY ValueRange
    <3>4. ~(v >= b)
      BY <3>1, <3>2, <3>3
    <3> QED BY <1>3, <3>3, <3>4
  <2> QED BY <2>2, <2>3, <2>4
<1>6. read \in Nat
  <2> HIDE DEF Stops
  <2> QED BY <1>4, <1>5
<1> HIDE DEF read
<1>7. abs \in Nat
  <2>1. Accumulated(d, b) \in [Nat -> Nat]
    BY <1>3, AccumulatedIs
  <2> QED BY <1>6, <2>1
<1> HIDE DEF abs
<1> QED BY <1>1, <1>7, IntAssumption

LEMMA NumberInt ==
  ASSUME NEW S, NEW text \in Seq(S)
  PROVE  NumberOf(text) \in -INT_MAX - 1 .. INT_MAX
<1>1. text # <<>> => Tail(text) \in Seq(S)
  OBVIOUS
<1>2. text # <<>> => Strtol(Tail(text), 16) \in Int
  BY <1>1, StrtolInt
<1>3. Strtol(text, 0) \in Int
  BY StrtolInt
<1> QED BY <1>2, <1>3, ToIntFacts DEF NumberOf

\* A number is read from each of its formats.
LEMMA FormatsRead ==
  ASSUME NEW n \in 0 .. INT_MAX, NEW text \in Formats(n)
  PROVE  NumberOf(text) = n
<1>1. n \in Nat /\ n \in 0 .. LONG_MAX
  BY IntAssumption
<1>2. ToInt(n) = n
  BY <1>1, ToIntFacts
<1>3. 8 \in Bases /\ 10 \in Bases /\ 16 \in Bases
  BY DEF Bases
<1>4. CASE text = Numeral(n, 10)
  <2>1. PICK s : s = Numeral(n, 10)
    OBVIOUS
  <2>2. /\ s \in Seq(Signs) /\ Len(s) > 0
        /\ \A j \in 1 .. Len(s) : Value(s[j]) < 10 /\ Plain(s[j])
        /\ n # 0 => s[1] # "0"
        /\ n = 0 => Len(s) = 1 /\ s[1] = "0"
    BY <1>1, <1>3, <2>1, NumeralDigits
  <2>3. s # <<>> /\ Plain(s[1]) /\ ~HexPrefix(s)
    <3>1. 1 \in 1 .. Len(s) /\ (Len(s) > 2 => 2 \in 1 .. Len(s))
      BY <2>2
    <3> QED BY <2>2, <3>1 DEF HexPrefix, Plain
  <2>4. CASE n # 0
    <3>1. Accumulated(s, 10)[0 + Len(s)] = n
      BY <1>3, <2>1, <2>2, NumeralRead
    <3>2. Accumulated(s, 10)[Len(s)] = n
      BY <2>2, <3>1
    <3>3. Strtol(s, 0) = n
      BY <1>1, <1>3, <2>2, <2>3, <2>4, <3>2, StrtolReads DEF Plain
    <3> QED BY <1>2, <1>4, <2>1, <2>3, <3>3 DEF NumberOf, Plain
  <2>5. CASE n = 0
    <3>1. /\ Len(Numeral(n, 8)) = 1 /\ Numeral(n, 8)[1] = "0"
      BY <1>1, <1>3, <2>5, NumeralDigits
    <3>2. \A j \in 1 .. Len(Numeral(n, 8)) : s[0 + j] = Numeral(n, 8)[j]
      BY <2>2, <2>5, <3>1
    <3>3. Accumulated(s, 8)[0 + Len(Numeral(n, 8))] = n
      BY <1>3, <3>2, NumeralRead
    <3>4. Accumulated(s, 8)[Len(s)] = n
      BY <2>2, <2>5, <3>1, <3>3
    <3>5. \A j \in 1 .. Len(s) : Value(s[j]) < 8
      <4>1. Value(Digits[0 + 1]) = 0 /\ Digits[0 + 1] = "0"
        BY DigitValue
      <4>2. Value("0") = 0
        BY <4>1
      <4>3. Len(s) = 1 /\ s[1] = "0"
        BY ONLY <2>2, <2>5
      <4>4. \A j \in 1 .. Len(s) : s[j] = "0"
        BY ONLY <4>3
      <4> QED BY <4>2, <4>4
    <3>6. Strtol(s, 0) = n
      BY <1>1, <1>3, <2>2, <2>3, <2>5, <3>4, <3>5, StrtolReads DEF Plain
    <3> QED BY <1>2, <1>4, <2>1, <2>3, <3>6 DEF NumberOf, Plain
  <2> QED BY <2>4, <2>5
<1>5. CASE text = <<"0", "x">> \o Numeral(n, 16)
  <2>1. PICK s : s = Numeral(n, 16)
    OBVIOUS
  <2>2. /\ s \in Seq(Signs) /\ Len(s) > 0
        /\ \A j \in 1 .. Len(s) : Value(s[j]) < 16 /\ Plain(s[j])
    BY <1>1, <1>3, <2>1, NumeralDigits
  <2>3. <<"0", "x">> \in Seq(Signs)
    <3>1. "0" = Digits[0 + 1]
      BY DigitValue
    <3>2. "0" \in Signs /\ "x" \in Signs
      BY <3>1 DEF Signs
    <3> QED BY <3>2
  <2>4. /\ text \in Seq(Signs) /\ Len(text) = Len(s) + 2
        /\ text[1] = "0" /\ text[2] = "x" /\ text[3] = s[1]
        /\ SubSeq(text, 3, Len(text)) = s
    <3>1. text = <<"0", "x">> \o s
      BY <1>5, <2>1
    <3>2. text \in Seq(Signs) /\ Len(text) = Len(s) + 2 /\ text[1] = "0" /\ text[2] = "x"
          /\ \A j \in 1 .. Len(s) : text[j + 2] = s[j]
      BY <2>2, <2>3, <3>1
    <3>3. 1 \in 1 .. Len(s) /\ 1 + 2 = 3
      BY <2>2
    <3>4. SubSeq(text, 3, Len(text)) = s
      <4>1. PICK l \in Nat : l = Len(s)
        BY <2>2
      <4>2. SubSeq(text, 3, Len(text)) = [j \in 1 .. l |-> text[j + 2]]
        BY <3>2, <4>1
      <4>3. s = [j \in 1 .. l |-> s[j]]
        BY <2>2, <4>1
      <4> QED BY <3>2, <4>1, <4>2, <4>3
    <3> QED BY <3>2, <3>3, <3>4
  <2>5. HexPrefix(text)
    <3>1. Value(text[3]) < 16
      BY <2>2, <2>4
    <3> QED BY <2>2, <2>4, <3>1 DEF HexPrefix, Plain
  <2>6. Accumulated(s, 16)[Len(s)] = n
    <3>1. Accumulated(s, 16)[0 + Len(s)] = n
      BY <1>3, <2>1, <2>2, NumeralRead
    <3> QED BY <2>2, <3>1
  <2>7. text # <<>> /\ Plain(text[1])
    BY <2>2, <2>4 DEF Plain
  <2>8. Strtol(text, 0) = n
    <3>1. text[1] # "-" /\ text[1] # "+" /\ text[1] # "blank" /\ text # <<>>
      BY <2>7 DEF Plain
    <3>2. \A j \in 1 .. Len(s) : Value(s[j]) < 16
      BY <2>2
    <3>3. s = IF 16 = 16 /\ HexPrefix(text) THEN SubSeq(text, 3, Len(text)) ELSE text
      BY <2>4, <2>5
    <3>4. text \in Seq(Signs) /\ s \in Seq(Signs)
      BY <2>2, <2>4
    <3> QED BY ONLY <1>1, <1>3, <2>5, <2>6, <3>1, <3>2, <3>3, <3>4, StrtolReads
  <2> QED BY <1>2, <2>7, <2>8 DEF NumberOf, Plain
<1>6. CASE text = <<"$">> \o Numeral(n, 16)
  <2>1. PICK s : s = Numeral(n, 16)
    OBVIOUS
  <2>2. /\ s \in Seq(Signs) /\ Len(s) > 0
        /\ \A j \in 1 .. Len(s) : Value(s[j]) < 16 /\ Plain(s[j])
    BY <1>1, <1>3, <2>1, NumeralDigits
  <2>3. <<"$">> \in Seq(Signs)
    <3>1. "$" \in Signs
      BY DEF Signs
    <3> QED BY <3>1
  <2>4. text # <<>> /\ text[1] = "$" /\ Tail(text) = s
    <3>1. text = <<"$">> \o s
      BY <1>6, <2>1
    <3> QED BY <2>2, <2>3, <3>1
  <2>5. s # <<>> /\ Plain(s[1]) /\ ~HexPrefix(s)
    <3>1. 1 \in 1 .. Len(s) /\ (Len(s) > 2 => 2 \in 1 .. Len(s))
      BY <2>2
    <3> QED BY <2>2, <3>1 DEF HexPrefix, Plain
  <2>6. Accumulated(s, 16)[Len(s)] = n
    <3>1. Accumulated(s, 16)[0 + Len(s)] = n
      BY <1>3, <2>1, <2>2, NumeralRead
    <3> QED BY <2>2, <3>1
  <2>7. Strtol(s, 16) = n
    BY <1>1, <1>3, <2>2, <2>5, <2>6, StrtolReads DEF Plain
  <2> QED BY <1>2, <2>4, <2>7 DEF NumberOf, Plain
<1>7. CASE text = <<"0">> \o Numeral(n, 8)
  <2>1. PICK s : s = Numeral(n, 8)
    OBVIOUS
  <2>2. /\ s \in Seq(Signs) /\ Len(s) > 0
        /\ \A j \in 1 .. Len(s) : Value(s[j]) < 8 /\ Plain(s[j])
    BY <1>1, <1>3, <2>1, NumeralDigits
  <2>3. "0" = Digits[0 + 1] /\ Value("0") = 0
    BY DigitValue
  <2>4. <<"0">> \in Seq(Signs)
    <3>1. "0" \in Signs
      BY <2>3 DEF Signs
    <3> QED BY <3>1
  <2>5. /\ text \in Seq(Signs) /\ Len(text) = 1 + Len(s) /\ text[1] = "0"
        /\ \A j \in 1 .. Len(s) : text[1 + j] = s[j]
    <3>1. text = <<"0">> \o s
      BY <1>7, <2>1
    <3> QED BY <2>2, <2>4, <3>1
  <2>6. \A j \in 1 .. Len(text) : Value(text[j]) < 8 /\ Plain(text[j])
    <3> SUFFICES ASSUME NEW j \in 1 .. Len(text)
                 PROVE  Value(text[j]) < 8 /\ Plain(text[j])
      OBVIOUS
    <3>1. CASE j = 1
      BY <2>3, <2>5, <3>1 DEF Plain
    <3>2. CASE j # 1
      <4>1. PICK i \in 1 .. Len(s) : j = 1 + i
        BY <2>2, <2>5, <3>2
      <4> QED BY <2>2, <2>5, <4>1
    <3> QED BY <3>1, <3>2
  <2>7. text # <<>> /\ Plain(text[1]) /\ ~HexPrefix(text)
    <3>1. 1 \in 1 .. Len(text) /\ (Len(text) > 2 => 2 \in 1 .. Len(text))
      BY <2>2, <2>5
    <3> QED BY <2>2, <2>5, <2>6, <3>1 DEF HexPrefix, Plain
  <2>8. Accumulated(text, 8)[Len(text)] = n
    <3>1. Accumulated(text, 8)[1 + Len(s)] = n
      BY <1>3, <2>1, <2>5, NumeralRead
    <3> QED BY <2>5, <3>1
  <2>9. Strtol(text, 0) = n
    BY <1>1, <1>3, <2>5, <2>6, <2>7, <2>8, StrtolReads, SMTT(30) DEF Plain
  <2> QED BY <1>2, <2>7, <2>9 DEF NumberOf, Plain
<1> QED BY <1>4, <1>5, <1>6, <1>7 DEF Formats
-----------------------------------------------------------------------------
(***************************************************************************)
(* The settings are those of the command line.  A word that is an option   *)
(* adds its place to those of the options like it, behind all of them, and *)
(* has an effect on the settings that Effect gathers for all options.      *)
(***************************************************************************)
LEMMA MaxOfLast ==
  ASSUME NEW n \in Nat \ {0}, NEW T, T \subseteq 1 .. n - 1
  PROVE  Max(T \cup {n}) = n
<1> DEFINE U == T \cup {n}
           Tops(x) == \A y \in U : x >= y
<1>1. n \in U /\ Tops(n)
  OBVIOUS
<1>2. ASSUME NEW x \in U, Tops(x) PROVE x = n
  <2>1. x >= n /\ n >= x /\ x \in Int
    BY <1>1, <1>2
  <2> QED BY ONLY <2>1, n \in Nat \ {0}
<1>3. Max(U) = CHOOSE x \in U : Tops(x)
  BY Zenon DEF Max
<1> HIDE DEF U, Tops
<1>4. Max(U) = n
  BY <1>1, <1>2, <1>3
<1> QED BY <1>4 DEF U

LEMMA GivenNext ==
  ASSUME OptInv, NEW opts, Option(opts), NEW os
  PROVE  /\ Given(os) \subseteq 1 .. optind - 1
         /\ Given(os)' = Given(os) \cup (IF opt \in os THEN {optind} ELSE {})
         /\ GivenWithArg(os) \subseteq 1 .. optind - 1
         /\ GivenWithArg(os)' =
              GivenWithArg(os) \cup (IF opt \in os /\ HasArg THEN {optind} ELSE {})
<1>1. /\ optind \in Nat \ {0} /\ optind' = optind + 1 /\ line' = line
      /\ line[optind].name # ""
  BY DEF OptInv, Option
<1>2. Given(os) \subseteq 1 .. optind - 1
  BY DEF Given
<1>a. optind \in Nat \ {0} /\ optind' = optind + 1
  BY <1>1
<1>3. \A n : n \in 1 .. optind <=> n \in 1 .. optind - 1 \/ n = optind
  BY ONLY <1>a
<1>4. optind' - 1 = optind
  BY ONLY <1>a
<1>5. Given(os)' = {n \in 1 .. optind : line[n].name # "" /\ GetoptLong(line[n]) \in os}
  BY <1>1, <1>4 DEF Given
<1>6. Given(os)' = Given(os) \cup (IF opt \in os THEN {optind} ELSE {})
  BY <1>1, <1>3, <1>5 DEF Given, opt
<1>7. GivenWithArg(os) \subseteq 1 .. optind - 1
  BY <1>2 DEF GivenWithArg
<1>8. GivenWithArg(os)' = {n \in Given(os)' : line[n].arg # <<>>}
  BY <1>1 DEF GivenWithArg
<1>9. GivenWithArg(os)' =
        GivenWithArg(os) \cup (IF opt \in os /\ HasArg THEN {optind} ELSE {})
  BY <1>6, <1>8 DEF GivenWithArg, HasArg
<1> QED BY <1>2, <1>6, <1>7, <1>9

LEMMA LastNext ==
  ASSUME OptInv, NEW opts, Option(opts), NEW os, NEW default
  PROVE  /\ LastArg(Given(os), default)' =
              IF opt \in os THEN optarg ELSE LastArg(Given(os), default)
         /\ LastArg(GivenWithArg(os), default)' =
              IF opt \in os /\ HasArg THEN optarg ELSE LastArg(GivenWithArg(os), default)
         /\ Given(os)' # {} <=> opt \in os \/ Given(os) # {}
<1>1. optind \in Nat \ {0} /\ line' = line
  BY DEF OptInv, Option
<1>2. ASSUME NEW T, NEW U, T \subseteq 1 .. optind - 1,
             NEW c \in BOOLEAN, U = T \cup (IF c THEN {optind} ELSE {})
      PROVE  LastArg(U, default) = IF c THEN optarg ELSE LastArg(T, default)
  <2>1. CASE c
    <3>1. U # {} /\ Max(U) = optind
      BY <1>1, <1>2, <2>1, MaxOfLast
    <3> QED BY <2>1, <3>1 DEF LastArg, optarg
  <2>2. CASE ~c
    <3>1. U = T
      BY <1>2, <2>2
    <3> QED BY <2>2, <3>1
  <2> QED BY <2>1, <2>2
<1>3. LastArg(Given(os), default)' = LastArg(Given(os)', default)
  BY <1>1 DEF LastArg
<1>4. LastArg(GivenWithArg(os), default)' = LastArg(GivenWithArg(os)', default)
  BY <1>1 DEF LastArg
<1>5. LastArg(Given(os)', default) = IF opt \in os THEN optarg ELSE LastArg(Given(os), default)
  BY <1>2, GivenNext
<1>6. LastArg(GivenWithArg(os)', default) =
        IF opt \in os /\ HasArg THEN optarg ELSE LastArg(GivenWithArg(os), default)
  BY <1>2, GivenNext
<1>7. Given(os)' # {} <=> opt \in os \/ Given(os) # {}
  BY GivenNext
<1> QED BY <1>3, <1>4, <1>5, <1>6, <1>7

\* A valid order passes the comparison with any valid one.
LEMMA OrderPasses ==
  ASSUME ValidOrder(setting.table_order), NEW order, ValidOrder(order)
  PROVE  /\ \A j \in 1 .. Len(order) : Found(order[j]) # {}
         /\ \A n \in Places : Cardinality({j \in 1 .. Len(order) : n \in Found(order[j])}) = 1
         /\ order[1] # "." /\ order[TABLE_ORDER_LENGTH] # "."
<1>1. PICK set : set = setting.table_order
  OBVIOUS
<1>2. \A c : Found(c) = {n \in Places : Lower(set[n]) = Lower(c)}
  BY <1>1 DEF Found, Places
<1>3. /\ \A n \in Places : Lower(set[n]) \in Listed
      /\ \A m, n \in Places : Lower(set[m]) = Lower(set[n]) => m = n
      /\ \A x \in Listed : \E n \in Places : Lower(set[n]) = x
  BY <1>1, OrderFacts
<1>4. /\ \A n \in Places : Lower(order[n]) \in Listed
      /\ \A m, n \in Places : Lower(order[m]) = Lower(order[n]) => m = n
      /\ \A x \in Listed : \E n \in Places : Lower(order[n]) = x
  BY OrderFacts
<1>5. 1 .. Len(order) = Places
  BY DEF ValidOrder, Places
<1>6. \A j \in 1 .. Len(order) : Found(order[j]) # {}
  BY <1>2, <1>3, <1>4, <1>5
<1>7. ASSUME NEW n \in Places
      PROVE  Cardinality({j \in 1 .. Len(order) : n \in Found(order[j])}) = 1
  <2>1. PICK j \in Places : Lower(order[j]) = Lower(set[n])
    BY <1>3, <1>4
  <2>2. {i \in 1 .. Len(order) : n \in Found(order[i])} = {j}
    BY <1>2, <1>4, <1>5, <2>1
  <2>3. Cardinality({j}) = 1
    BY FS_Singleton
  <2> QED BY <2>2, <2>3
<1> QED BY <1>6, <1>7 DEF ValidOrder

\* What a word that is an option does to the settings.
Effect ==
  /\ \A o \in {"i", "o", "p"} :
       setting'[Filename[o]] = IF opt = o THEN optarg ELSE setting[Filename[o]]
  /\ \A o \in {"t", "T", "z"} :
       setting'[Address[o]] = IF opt = o THEN NumberOf(optarg) ELSE setting[Address[o]]
  /\ setting'.table_order =
       IF opt = "O" /\ opt_pc' = "options" THEN optarg ELSE setting.table_order
  /\ opt = "O" => (opt_pc' = "refused" <=> ~ValidOrder(optarg))
  /\ setting'.exomizer_cmd = IF opt = "e" /\ HasArg THEN optarg ELSE setting.exomizer_cmd
  /\ setting'.do_exomize = IF opt \in {"e", "s"} THEN TRUE ELSE setting.do_exomize
  /\ setting'.do_stats = IF opt = "s" THEN TRUE ELSE setting.do_stats
  /\ setting'.show_memmap = IF opt = "M" THEN TRUE ELSE setting.show_memmap
  /\ setting'.do_split = setting.do_split
  /\ opt_pc' \in {"options", "help", "refused"}

LEMMA Names ==
  /\ Filename["i"] = "filename_input" /\ Filename["o"] = "filename_output1"
  /\ Filename["p"] = "filename_output2"
  /\ Address["t"] = "tempaddr" /\ Address["T"] = "tempaddr2" /\ Address["z"] = "zpaddr"
  BY DEF Filename, Address

LEMMA FileEffect == OptInv /\ FileOption => Effect
<1> SUFFICES ASSUME OptInv, FileOption PROVE Effect
  OBVIOUS
<1>1. Option({"i", "o", "p"})
  BY DEF FileOption
<1>2. PICK file : file = optarg
  OBVIOUS
<1>3. setting' = [setting EXCEPT ![Filename[opt]] = file] /\ opt_pc' = opt_pc
  BY <1>2 DEF FileOption
<1>4. opt \in {"i", "o", "p"} /\ opt_pc = "options" /\ DOMAIN setting = DOMAIN Defaults
  BY <1>1, OptionStep
<1>5. CASE opt = "i"
  BY <1>2, <1>3, <1>4, <1>5, Keys, Names DEF Effect
<1>6. CASE opt = "o"
  BY <1>2, <1>3, <1>4, <1>6, Keys, Names DEF Effect
<1>7. CASE opt = "p"
  BY <1>2, <1>3, <1>4, <1>7, Keys, Names DEF Effect
<1> QED BY <1>4, <1>5, <1>6, <1>7

LEMMA AddressEffect == OptInv /\ AddressOption => Effect
<1> SUFFICES ASSUME OptInv, AddressOption PROVE Effect
  OBVIOUS
<1>1. Option({"t", "T", "z"})
  BY DEF AddressOption
<1>2. PICK number : number = NumberOf(optarg)
  OBVIOUS
<1>3. /\ setting' = [setting EXCEPT ![Address[opt]] = number]
      /\ opt_pc' \in {opt_pc, "refused"}
  BY <1>2 DEF AddressOption
<1>4. opt \in {"t", "T", "z"} /\ opt_pc = "options" /\ DOMAIN setting = DOMAIN Defaults
  BY <1>1, OptionStep
<1>5. CASE opt = "t"
  BY <1>2, <1>3, <1>4, <1>5, Keys, Names DEF Effect
<1>6. CASE opt = "T"
  BY <1>2, <1>3, <1>4, <1>6, Keys, Names DEF Effect
<1>7. CASE opt = "z"
  BY <1>2, <1>3, <1>4, <1>7, Keys, Names DEF Effect
<1> QED BY <1>4, <1>5, <1>6, <1>7

LEMMA OrderEffect == OptInv /\ OrderOption => Effect
<1> SUFFICES ASSUME OptInv, OrderOption PROVE Effect
  OBVIOUS
<1>1. Option({"O"})
  BY DEF OrderOption
<1>2. /\ opt = "O" /\ opt_pc = "options" /\ DOMAIN setting = DOMAIN Defaults
      /\ Checked(setting)
  BY <1>1, OptionStep
<1>3. PICK order \in Seq(STRING) : order = optarg
  BY <1>1, OptionStep, ArgGiven DEF Required
<1> DEFINE fine == /\ \A j \in 1 .. Len(order) : Found(order[j]) # {}
                   /\ \A n \in Places :
                        Cardinality({j \in 1 .. Len(order) : n \in Found(order[j])}) = 1
                   /\ order[1] # "." /\ order[TABLE_ORDER_LENGTH] # "."
<1>4. IF fine THEN setting' = [setting EXCEPT !.table_order = order] /\ opt_pc' = opt_pc
              ELSE opt_pc' = "refused" /\ setting' = setting
  BY <1>3 DEF OrderOption, tcnt, Places
<1>5. fine => ValidOrder(order)
  BY <1>2, OrderAccepted DEF Checked
<1>6. ValidOrder(order) => fine
  BY <1>2, OrderPasses DEF Checked
<1> HIDE DEF fine
<1>7. CASE fine
  BY <1>2, <1>3, <1>4, <1>5, <1>7, Keys, Names DEF Effect
<1>8. CASE ~fine
  BY <1>2, <1>3, <1>4, <1>6, <1>8, Keys, Names DEF Effect
<1> QED BY <1>7, <1>8

LEMMA FlagEffect ==
  OptInv /\ (MemmapOption \/ HelpOption \/ ExomizeOption \/ StatsOption \/ UnknownOption)
    => Effect
<1>1. ASSUME OptInv, MemmapOption PROVE Effect
  <2>1. Option({"M"}) /\ setting' = [setting EXCEPT !.show_memmap = TRUE] /\ opt_pc' = opt_pc
    BY <1>1 DEF MemmapOption
  <2>2. opt = "M" /\ opt_pc = "options" /\ DOMAIN setting = DOMAIN Defaults
    BY <1>1, <2>1, OptionStep
  <2> QED BY <2>1, <2>2, Keys, Names DEF Effect
<1>2. ASSUME OptInv, HelpOption PROVE Effect
  <2>1. Option({"h"}) /\ setting' = setting /\ opt_pc' = "help"
    BY <1>2 DEF HelpOption
  <2>2. opt = "h"
    BY <1>2, <2>1, OptionStep
  <2> QED BY <2>1, <2>2 DEF Effect
<1>3. ASSUME OptInv, ExomizeOption PROVE Effect
  <2>1. PICK cmd : cmd = IF HasArg THEN optarg ELSE setting.exomizer_cmd
    OBVIOUS
  <2>2. /\ Option({"e"}) /\ opt_pc' = opt_pc
        /\ setting' = [setting EXCEPT !.do_exomize = TRUE, !.exomizer_cmd = cmd]
    BY <1>3, <2>1 DEF ExomizeOption
  <2>3. opt = "e" /\ opt_pc = "options" /\ DOMAIN setting = DOMAIN Defaults
    BY <1>3, <2>2, OptionStep
  <2> QED BY <2>1, <2>2, <2>3, Keys, Names DEF Effect
<1>4. ASSUME OptInv, StatsOption PROVE Effect
  <2>1. /\ Option({"s"}) /\ opt_pc' = opt_pc
        /\ setting' = [setting EXCEPT !.do_stats = TRUE, !.do_exomize = TRUE]
    BY <1>4 DEF StatsOption
  <2>2. opt = "s" /\ opt_pc = "options" /\ DOMAIN setting = DOMAIN Defaults
    BY <1>4, <2>1, OptionStep
  <2> QED BY <2>1, <2>2, Keys, Names DEF Effect
<1>5. ASSUME OptInv, UnknownOption PROVE Effect
  <2>1. Option({"?"}) /\ setting' = setting /\ opt_pc' = "refused"
    BY <1>5 DEF UnknownOption
  <2>2. opt = "?"
    BY <1>5, <2>1, OptionStep
  <2> QED BY <2>1, <2>2 DEF Effect
<1> QED BY <1>1, <1>2, <1>3, <1>4, <1>5

\* A step of the options reads one that has its effect, or none.
LEMMA OptionSteps ==
  ASSUME OptInv, NextOption
  PROVE  (Option({opt}) /\ Effect) \/ NoOption \/ EndOfOptions
<1>1. \A opts : Option(opts) => Option({opt})
  BY DEF Option, opt
<1>2. FileOption => Option({opt}) /\ Effect
  BY <1>1, FileEffect DEF FileOption
<1>3. AddressOption => Option({opt}) /\ Effect
  BY <1>1, AddressEffect DEF AddressOption
<1>4. OrderOption => Option({opt}) /\ Effect
  BY <1>1, OrderEffect DEF OrderOption
<1>5. MemmapOption \/ HelpOption \/ ExomizeOption \/ StatsOption \/ UnknownOption
        => Option({opt}) /\ Effect
  BY <1>1, FlagEffect
     DEF MemmapOption, HelpOption, ExomizeOption, StatsOption, UnknownOption
<1> QED BY <1>2, <1>3, <1>4, <1>5 DEF NextOption

\* The settings in terms of the words that were read: the inductive invariant.
\* That a number is kept of an option that is given adds to LastOneCounts.
Addressed ==
  \A o \in {"t", "T", "z"} :
    setting[Address[o]] = IF Given({o}) = {} THEN Defaults[Address[o]]
                          ELSE NumberOf(LastArg(Given({o}), NULL))

GivenInv ==
  /\ optind \in 1 .. Len(line) + 1 /\ rest \in Nat /\ rest < optind
  /\ opt_pc \in {"options", "accepted", "help", "refused", "unusable"}
  /\ setting.do_exomize \in BOOLEAN /\ setting.do_stats \in BOOLEAN
  /\ setting.do_split \in BOOLEAN /\ setting.show_memmap \in BOOLEAN
  /\ \A o \in {"t", "T", "z"} : setting[Address[o]] \in -INT_MAX - 1 .. INT_MAX
  /\ Addressed
  /\ LastOneCounts
  /\ OrderJudgedAlone

\* The addresses that main starts with fit in an int.
LEMMA DefaultsFit ==
  \A o \in {"t", "T", "z"} : Defaults[Address[o]] \in -INT_MAX - 1 .. INT_MAX
<1>1. PAGE \in Nat /\ PAGE >= 22 /\ INT_MAX \in Nat /\ PAGE * PAGE <= INT_MAX
  BY PageAssumption, IntAssumption
<1>2. 16 * PAGE <= PAGE * PAGE
  BY ONLY <1>1
<1>3. PAGE <= PAGE * PAGE
  BY ONLY <1>1
<1>4. PICK square \in Nat : square = PAGE * PAGE
  BY ONLY <1>1
<1>5. /\ 16 * PAGE \in -INT_MAX - 1 .. INT_MAX /\ 0 \in -INT_MAX - 1 .. INT_MAX
      /\ PAGE - 12 \in -INT_MAX - 1 .. INT_MAX
  <2>1. 16 * PAGE <= square /\ PAGE <= square /\ square <= INT_MAX
    BY <1>1, <1>2, <1>3, <1>4
  <2>2. PAGE \in Nat /\ PAGE >= 22 /\ INT_MAX \in Nat
    BY <1>1
  <2> QED BY ONLY <2>1, <2>2, <1>4
<1>6. /\ Defaults[Address["t"]] = 16 * PAGE /\ Defaults[Address["T"]] = 0
      /\ Defaults[Address["z"]] = PAGE - 12
  BY DEF Address, Defaults
<1> QED BY <1>5, <1>6

LEMMA GivenInvInit == OptInit => GivenInv
<1> SUFFICES ASSUME OptInit PROVE GivenInv
  OBVIOUS
<1>1. /\ optind = 1 /\ rest = 0 /\ setting = Defaults /\ opt_pc = "options"
      /\ line \in Lines
  BY DEF OptInit
<1>2. \A os : Given(os) = {} /\ GivenWithArg(os) = {}
  BY <1>1 DEF Given, GivenWithArg
<1>3. /\ Defaults.filename_input = NULL /\ Defaults.filename_output1 = NULL
      /\ Defaults.filename_output2 = NULL
      /\ Defaults.do_exomize = FALSE /\ Defaults.do_stats = FALSE
      /\ Defaults.do_split = FALSE /\ Defaults.show_memmap = FALSE
  BY DEF Defaults
<1>4. Len(line) \in Nat
  BY <1>1, LineAssumption
<1>5. Addressed
  BY <1>1, <1>2 DEF Addressed
<1>6. \A o \in {"i", "o", "p"} : setting[Filename[o]] = LastArg(Given({o}), NULL)
  BY <1>1, <1>2, <1>3, Names DEF LastArg
<1>7. setting.table_order = LastArg(Given({"O"}), Defaults.table_order)
  BY <1>1, <1>2 DEF LastArg
<1>8. setting.exomizer_cmd = LastArg(GivenWithArg({"e"}), Defaults.exomizer_cmd)
  BY <1>1, <1>2 DEF LastArg
<1>9. LastOneCounts
  BY <1>1, <1>2, <1>3, <1>6, <1>7, <1>8 DEF LastOneCounts
<1>10. OrderJudgedAlone
  BY <1>2 DEF OrderJudgedAlone
<1>11. optind \in 1 .. Len(line) + 1 /\ rest \in Nat /\ rest < optind
  BY <1>1, <1>4
<1>12. /\ setting.do_exomize \in BOOLEAN /\ setting.do_stats \in BOOLEAN
       /\ setting.do_split \in BOOLEAN /\ setting.show_memmap \in BOOLEAN
  BY <1>1, <1>3
<1> QED BY <1>1, <1>5, <1>9, <1>10, <1>11, <1>12, DefaultsFit DEF GivenInv

\* A word that is an option.
LEMMA GivenInvOption ==
  ASSUME OptInv, GivenInv, Option({opt}), Effect
  PROVE  GivenInv'
<1>1. /\ opt_pc = "options" /\ optind' = optind + 1 /\ line' = line /\ rest' = rest
      /\ optind <= Len(line) /\ optind \in Nat \ {0} /\ Len(line) \in Nat
  <2>1. line \in Seq(Word)
    BY LineAssumption DEF OptInv
  <2>2. Len(line) \in Nat
    BY <2>1
  <2> QED BY <2>2 DEF Option, OptInv
<1>2. /\ optind' \in 1 .. Len(line') + 1 /\ rest' \in Nat /\ rest' < optind'
  BY <1>1 DEF GivenInv
<1>3. Addressed'
  <2> SUFFICES ASSUME NEW o \in {"t", "T", "z"}
               PROVE  (setting[Address[o]] =
                         IF Given({o}) = {} THEN Defaults[Address[o]]
                         ELSE NumberOf(LastArg(Given({o}), NULL)))'
    BY DEF Addressed
  <2>1. setting'[Address[o]] = IF opt = o THEN NumberOf(optarg) ELSE setting[Address[o]]
    BY DEF Effect
  <2>2. setting[Address[o]] = IF Given({o}) = {} THEN Defaults[Address[o]]
                              ELSE NumberOf(LastArg(Given({o}), NULL))
    BY DEF GivenInv, Addressed
  <2>3. Given({o})' # {} <=> opt = o \/ Given({o}) # {}
    BY LastNext
  <2>4. LastArg(Given({o}), NULL)' = IF opt = o THEN optarg ELSE LastArg(Given({o}), NULL)
    BY LastNext, Zenon
  <2>5. NumberOf(LastArg(Given({o}), NULL))' = NumberOf(LastArg(Given({o}), NULL)')
    BY DEF NumberOf, ToInt, Strtol, HexPrefix, Accumulated, Value, Digits
  <2>6. setting[Address[o]]' = setting'[Address[o]] /\ Defaults[Address[o]]' = Defaults[Address[o]]
    BY DEF Address, Defaults
  <2> QED BY <2>1, <2>2, <2>3, <2>4, <2>5, <2>6
<1>4. LastOneCounts'
  <2> SUFFICES ASSUME opt_pc' = "options"
               PROVE  (/\ \A o \in {"i", "o", "p"} :
                            setting[Filename[o]] = LastArg(Given({o}), NULL)
                       /\ setting.table_order = LastArg(Given({"O"}), Defaults.table_order)
                       /\ setting.exomizer_cmd =
                            LastArg(GivenWithArg({"e"}), Defaults.exomizer_cmd)
                       /\ setting.do_exomize <=> Given({"e", "s"}) # {}
                       /\ setting.do_stats <=> Given({"s"}) # {})'
    BY DEF LastOneCounts, Effect
  <2>1. /\ \A o \in {"i", "o", "p"} : setting[Filename[o]] = LastArg(Given({o}), NULL)
        /\ setting.table_order = LastArg(Given({"O"}), Defaults.table_order)
        /\ setting.exomizer_cmd = LastArg(GivenWithArg({"e"}), Defaults.exomizer_cmd)
        /\ setting.do_exomize <=> Given({"e", "s"}) # {}
        /\ setting.do_stats <=> Given({"s"}) # {}
    BY <1>1 DEF GivenInv, LastOneCounts
  <2>2. ASSUME NEW o \in {"i", "o", "p"}
        PROVE  setting'[Filename[o]] = LastArg(Given({o}), NULL)'
    <3>1. LastArg(Given({o}), NULL)' = IF opt = o THEN optarg ELSE LastArg(Given({o}), NULL)
      BY LastNext
    <3> QED BY <2>1, <3>1 DEF Effect
  <2>3. setting'.table_order = LastArg(Given({"O"}), Defaults.table_order)'
    <3>1. LastArg(Given({"O"}), Defaults.table_order)' =
            IF opt = "O" THEN optarg ELSE LastArg(Given({"O"}), Defaults.table_order)
      BY LastNext
    <3> QED BY <2>1, <3>1 DEF Effect
  <2>4. setting'.exomizer_cmd = LastArg(GivenWithArg({"e"}), Defaults.exomizer_cmd)'
    <3>1. LastArg(GivenWithArg({"e"}), Defaults.exomizer_cmd)' =
            IF opt = "e" /\ HasArg THEN optarg
            ELSE LastArg(GivenWithArg({"e"}), Defaults.exomizer_cmd)
      BY LastNext
    <3> QED BY <2>1, <3>1 DEF Effect
  <2>5. setting'.do_exomize <=> Given({"e", "s"})' # {}
    <3>1. Given({"e", "s"})' # {} <=> opt \in {"e", "s"} \/ Given({"e", "s"}) # {}
      BY LastNext
    <3>2. setting'.do_exomize = IF opt \in {"e", "s"} THEN TRUE ELSE setting.do_exomize
      BY DEF Effect
    <3> QED BY <2>1, <3>1, <3>2
  <2>6. setting'.do_stats <=> Given({"s"})' # {}
    <3>1. Given({"s"})' # {} <=> opt = "s" \/ Given({"s"}) # {}
      BY LastNext
    <3>2. setting'.do_stats = IF opt = "s" THEN TRUE ELSE setting.do_stats
      BY DEF Effect
    <3> QED BY <2>1, <3>1, <3>2
  <2>7. \A o : setting[Filename[o]]' = setting'[Filename[o]]
    BY DEF Filename
  <2> QED BY <2>2, <2>3, <2>4, <2>5, <2>6, <2>7
<1>5. OrderJudgedAlone'
  <2> SUFFICES ASSUME NEW n \in Given({"O"})'
               PROVE  opt_pc' = "refused" /\ n = optind' - 1
                        <=> ~ValidOrder(Head(line[n].arg))
    <3>1. \A n : ValidOrder(Head(line[n].arg))' <=> ValidOrder(Head(line'[n].arg))
      BY DEF ValidOrder, SameLetter, Id, Table, Upper, TABLE_ORDER_LENGTH
    <3> QED BY <1>1, <3>1 DEF OrderJudgedAlone
  <2>1. /\ Given({"O"}) \subseteq 1 .. optind - 1
        /\ Given({"O"})' = Given({"O"}) \cup (IF opt = "O" THEN {optind} ELSE {})
    <3>1. opt \in {"O"} <=> opt = "O"
      OBVIOUS
    <3> QED BY <3>1, GivenNext
  <2>2. CASE n \in Given({"O"})
    <3>1. n # optind' - 1 /\ n \in 1 .. optind - 1
      BY <1>1, <2>1, <2>2
    <3>2. ValidOrder(Head(line[n].arg))
      BY <1>1, <2>2 DEF GivenInv, OrderJudgedAlone
    <3> QED BY <3>1, <3>2
  <2>3. CASE opt = "O" /\ n = optind
    <3>1. n = optind' - 1 /\ optarg = Head(line[n].arg)
      BY <1>1, <2>3 DEF optarg
    <3> QED BY <2>3, <3>1 DEF Effect
  <2> QED BY <2>1, <2>2, <2>3
<1>6. opt_pc' \in {"options", "accepted", "help", "refused", "unusable"}
  BY DEF Effect
<1>7. /\ setting'.do_exomize \in BOOLEAN /\ setting'.do_stats \in BOOLEAN
      /\ setting'.do_split \in BOOLEAN /\ setting'.show_memmap \in BOOLEAN
  BY DEF Effect, GivenInv
<1>8. ASSUME NEW o \in {"t", "T", "z"}
      PROVE  setting'[Address[o]] \in -INT_MAX - 1 .. INT_MAX
  <2>1. CASE opt = o
    <3>1. optarg \in Seq(STRING)
      BY <1>1, <2>1, ArgGiven DEF Required
    <3>2. NumberOf(optarg) \in -INT_MAX - 1 .. INT_MAX
      BY <3>1, NumberInt
    <3> QED BY <2>1, <3>2 DEF Effect
  <2>2. CASE opt # o
    BY <2>2 DEF Effect, GivenInv
  <2> QED BY <2>1, <2>2
<1>9. \A o \in {"t", "T", "z"} :
        setting[Address[o]]' = setting'[Address[o]] /\ INT_MAX' = INT_MAX
  BY DEF Address
<1> QED BY <1>2, <1>3, <1>4, <1>5, <1>6, <1>7, <1>8, <1>9 DEF GivenInv

\* A word that is no option, and the end: no option more is given.
LEMMA NothingGiven ==
  ASSUME OptInv, GivenInv, NoOption \/ EndOfOptions, NEW os
  PROVE  /\ Given(os)' = Given(os) /\ GivenWithArg(os)' = GivenWithArg(os)
         /\ \A default : /\ LastArg(Given(os), default)' = LastArg(Given(os), default)
                         /\ LastArg(GivenWithArg(os), default)' =
                              LastArg(GivenWithArg(os), default)
<1>1. /\ line' = line /\ optind \in Nat \ {0}
      /\ optind' = optind \/ (optind' = optind + 1 /\ line[optind].name = "")
  BY DEF OptInv, NoOption, EndOfOptions
<1>2. Given(os)' = Given(os)
  <2>1. CASE optind' = optind
    BY <1>1, <2>1 DEF Given
  <2>2. CASE optind' = optind + 1 /\ line[optind].name = ""
    <3>a. optind \in Nat \ {0} /\ optind' = optind + 1
      BY <1>1, <2>2
    <3>1. optind' - 1 = optind
      BY ONLY <3>a
    <3>2. \A n : n \in 1 .. optind <=> n \in 1 .. optind - 1 \/ n = optind
      BY ONLY <3>a
    <3>3. Given(os)' = {n \in 1 .. optind : line[n].name # "" /\ GetoptLong(line[n]) \in os}
      BY <1>1, <3>1 DEF Given
    <3> QED BY <2>2, <3>2, <3>3 DEF Given
  <2> QED BY <1>1, <2>1, <2>2
<1>3. GivenWithArg(os)' = GivenWithArg(os)
  BY <1>1, <1>2 DEF GivenWithArg
<1> QED BY <1>1, <1>2, <1>3 DEF LastArg

LEMMA GivenInvOther ==
  ASSUME OptInv, GivenInv, NoOption \/ EndOfOptions
  PROVE  GivenInv'
<1>1. line' = line /\ opt_pc = "options"
  BY DEF NoOption, EndOfOptions
<1>2. optind' \in 1 .. Len(line') + 1 /\ rest' \in Nat /\ rest' < optind'
  <2>1. line \in Seq(Word)
    BY LineAssumption DEF OptInv
  <2>2. Len(line) \in Nat
    BY <2>1
  <2>3. optind \in 1 .. Len(line) + 1 /\ rest \in Nat /\ rest < optind
    BY DEF GivenInv
  <2>4. \/ optind' = optind + 1 /\ rest' = rest + 1 /\ optind <= Len(line)
        \/ optind' = optind /\ rest' = rest
    BY DEF NoOption, EndOfOptions
  <2> QED BY <1>1, <2>2, <2>3, <2>4
<1>3. opt_pc' \in {"options", "accepted", "unusable"}
  BY DEF NoOption, EndOfOptions
<1>4. /\ \A key \in DOMAIN Defaults \ {"do_split"} : setting'[key] = setting[key]
      /\ setting'.do_split \in BOOLEAN
  <2>0. DOMAIN setting = DOMAIN Defaults /\ setting.do_split \in BOOLEAN
    BY DEF OptInv, GivenInv
  <2>1. CASE setting' = setting
    BY <2>0, <2>1
  <2>2. CASE setting' # setting
    <3>1. PICK split \in BOOLEAN : split = (setting.filename_output2 # NULL)
      OBVIOUS
    <3>2. setting' = [setting EXCEPT !.do_split = split]
      BY <2>2, <3>1 DEF NoOption, EndOfOptions
    <3> QED BY <2>0, <3>1, <3>2, Keys
  <2> QED BY <2>1, <2>2
<1>5. Addressed'
  <2> SUFFICES ASSUME NEW o \in {"t", "T", "z"}
               PROVE  (setting[Address[o]] =
                         IF Given({o}) = {} THEN Defaults[Address[o]]
                         ELSE NumberOf(LastArg(Given({o}), NULL)))'
    BY DEF Addressed
  <2>1. setting'[Address[o]] = setting[Address[o]]
    BY <1>4, Names, Keys
  <2>2. setting[Address[o]] = IF Given({o}) = {} THEN Defaults[Address[o]]
                              ELSE NumberOf(LastArg(Given({o}), NULL))
    BY DEF GivenInv, Addressed
  <2>3. NumberOf(LastArg(Given({o}), NULL))' = NumberOf(LastArg(Given({o}), NULL)')
    BY DEF NumberOf, ToInt, Strtol, HexPrefix, Accumulated, Value, Digits
  <2>4. setting[Address[o]]' = setting'[Address[o]] /\ Defaults[Address[o]]' = Defaults[Address[o]]
    BY DEF Address, Defaults
  <2> QED BY <2>1, <2>2, <2>3, <2>4, NothingGiven
<1>6. LastOneCounts'
  <2>1. /\ \A o \in {"i", "o", "p"} : setting[Filename[o]] = LastArg(Given({o}), NULL)
        /\ setting.table_order = LastArg(Given({"O"}), Defaults.table_order)
        /\ setting.exomizer_cmd = LastArg(GivenWithArg({"e"}), Defaults.exomizer_cmd)
        /\ setting.do_exomize <=> Given({"e", "s"}) # {}
        /\ setting.do_stats <=> Given({"s"}) # {}
    BY <1>1 DEF GivenInv, LastOneCounts
  <2>2. \A o \in {"i", "o", "p"} : setting'[Filename[o]] = LastArg(Given({o}), NULL)'
    BY <1>4, <2>1, Names, Keys, NothingGiven
  <2>3. /\ setting'.table_order = LastArg(Given({"O"}), Defaults.table_order)'
        /\ setting'.exomizer_cmd = LastArg(GivenWithArg({"e"}), Defaults.exomizer_cmd)'
    BY <1>4, <2>1, Keys, NothingGiven
  <2>4. /\ setting'.do_exomize = setting.do_exomize /\ setting'.do_stats = setting.do_stats
        /\ Given({"e", "s"})' = Given({"e", "s"}) /\ Given({"s"})' = Given({"s"})
    BY <1>4, Keys, NothingGiven
  <2>5. \A o : setting[Filename[o]]' = setting'[Filename[o]]
    BY DEF Filename
  <2> QED BY <2>1, <2>2, <2>3, <2>4, <2>5 DEF LastOneCounts
<1>7. OrderJudgedAlone'
  <2>1. \A n : ValidOrder(Head(line[n].arg))' <=> ValidOrder(Head(line'[n].arg))
    BY DEF ValidOrder, SameLetter, Id, Table, Upper, TABLE_ORDER_LENGTH
  <2>2. Given({"O"})' = Given({"O"})
    BY NothingGiven
  <2>3. \A n \in Given({"O"}) : ValidOrder(Head(line[n].arg))
    BY <1>1 DEF GivenInv, OrderJudgedAlone
  <2> QED BY <1>1, <1>3, <2>1, <2>2, <2>3 DEF OrderJudgedAlone
<1>8. /\ setting'.do_exomize \in BOOLEAN /\ setting'.do_stats \in BOOLEAN
      /\ setting'.do_split \in BOOLEAN /\ setting'.show_memmap \in BOOLEAN
  BY <1>4, Keys DEF GivenInv
<1>9. \A o \in {"t", "T", "z"} : setting[Address[o]]' \in -INT_MAX - 1 .. INT_MAX
  <2>1. \A o \in {"t", "T", "z"} :
          Address[o] \in DOMAIN Defaults \ {"do_split"} /\ Address[o]' = Address[o]
    BY Names, Keys DEF Address
  <2> QED BY <1>4, <2>1 DEF GivenInv
<1> QED BY <1>2, <1>3, <1>5, <1>6, <1>7, <1>8, <1>9 DEF GivenInv

LEMMA GivenInvNext == OptInv /\ GivenInv /\ NextOption => GivenInv'
  BY OptionSteps, GivenInvOption, GivenInvOther

\* Nothing that the invariant is about changes behind the options.
LEMMA GivenInvStays == GivenInv /\ UNCHANGED optVars => GivenInv'
<1> SUFFICES ASSUME GivenInv, UNCHANGED optVars PROVE GivenInv'
  OBVIOUS
<1>1. /\ line' = line /\ optind' = optind /\ rest' = rest /\ setting' = setting
      /\ opt_pc' = opt_pc
  BY DEF optVars
<1>2. \A os : Given(os)' = Given(os) /\ GivenWithArg(os)' = GivenWithArg(os)
  BY <1>1 DEF Given, GivenWithArg
<1>3. \A os, default :
        /\ LastArg(Given(os), default)' = LastArg(Given(os), default)
        /\ LastArg(GivenWithArg(os), default)' = LastArg(GivenWithArg(os), default)
  BY <1>1, <1>2 DEF LastArg
<1>4. Addressed'
  <2> SUFFICES ASSUME NEW o \in {"t", "T", "z"}
               PROVE  (setting[Address[o]] =
                         IF Given({o}) = {} THEN Defaults[Address[o]]
                         ELSE NumberOf(LastArg(Given({o}), NULL)))'
    BY DEF Addressed
  <2>1. NumberOf(LastArg(Given({o}), NULL))' = NumberOf(LastArg(Given({o}), NULL)')
    BY DEF NumberOf, ToInt, Strtol, HexPrefix, Accumulated, Value, Digits
  <2>2. /\ setting[Address[o]]' = setting'[Address[o]]
        /\ Defaults[Address[o]]' = Defaults[Address[o]]
    BY DEF Address, Defaults
  <2> QED BY <1>1, <1>2, <1>3, <2>1, <2>2 DEF GivenInv, Addressed
<1>5. LastOneCounts'
  BY <1>1, <1>2, <1>3 DEF GivenInv, LastOneCounts, Filename
<1>6. OrderJudgedAlone'
  <2>1. \A n : ValidOrder(Head(line[n].arg))' <=> ValidOrder(Head(line'[n].arg))
    BY DEF ValidOrder, SameLetter, Id, Table, Upper, TABLE_ORDER_LENGTH
  <2> QED BY <1>1, <1>2, <2>1 DEF GivenInv, OrderJudgedAlone
<1>7. \A o \in {"t", "T", "z"} : setting[Address[o]]' = setting[Address[o]]
  BY <1>1 DEF Address
<1> QED BY <1>1, <1>4, <1>5, <1>6, <1>7 DEF GivenInv

THEOREM GivenInvariance == ExoSpec => []GivenInv
<1>1. ExoInit => GivenInv
  BY GivenInvInit DEF ExoInit
<1>2. OptInv /\ GivenInv /\ [ExoNext \/ (ExoExited /\ UNCHANGED allVars)]_allVars => GivenInv'
  <2> SUFFICES ASSUME OptInv, GivenInv,
                      [ExoNext \/ (ExoExited /\ UNCHANGED allVars)]_allVars
               PROVE  GivenInv'
    OBVIOUS
  <2>1. NextOption \/ UNCHANGED optVars
    BY BehindOptions DEF allVars
  <2> QED BY <2>1, GivenInvNext, GivenInvStays
<1> QED BY <1>1, <1>2, OptionsInvariance, PTL DEF ExoSpec

\* SettingsAsGiven: for every command line, the settings are those of the last
\* options of each kind, whatever is given in between; an order is accepted or
\* refused for itself; and a number that README.md, line 69, allows is read as
\* the one it stands for in each of the four formats, however large an int is.
THEOREM SettingsAsGivenCorrect == ExoSpec => []SettingsAsGiven
<1>1. ASSUME GivenInv PROVE ReadAsMeant
  <2> SUFFICES ASSUME NEW o \in {"t", "T", "z"}, NEW n \in Given({o}), NEW number \in Numbers,
                      n = Max(Given({o})), Head(line[n].arg) \in Formats(number)
               PROVE  setting[Address[o]] = number
    BY DEF ReadAsMeant
  <2>1. Given({o}) # {}
    OBVIOUS
  <2>2. LastArg(Given({o}), NULL) = Head(line[n].arg)
    BY <2>1 DEF LastArg
  <2>3. setting[Address[o]] = NumberOf(Head(line[n].arg))
    BY <1>1, <2>1, <2>2 DEF GivenInv, Addressed
  <2>4. NumberOf(Head(line[n].arg)) = number
    BY NumbersAssumption, FormatsRead
  <2> QED BY <2>3, <2>4
<1>2. GivenInv => SettingsAsGiven
  BY <1>1 DEF GivenInv, SettingsAsGiven
<1> QED BY <1>2, GivenInvariance, PTL

-----------------------------------------------------------------------------
(***************************************************************************)
(* The types of the whole call.  exomizer is only called for files there   *)
(* are: the outputs were opened, the input was read, and no file is ever   *)
(* removed.                                                                *)
(***************************************************************************)
ExoPcs == {"start", "layout", "write", "exomize", "wait", "stat", "exit 0", "exit 1"}

CallInv ==
  /\ exo_pc \in ExoPcs
  /\ status \in Status
  /\ forked \in BOOLEAN
  /\ queue \in Seq(DOMAIN disk)
  /\ exo_pc \in {"layout", "write"} /\ Input # NULL => Input \in DOMAIN disk

LEMMA CallInvInit == ExoInit => CallInv
  BY ShortSeqs DEF ExoInit, CallInv, ExoPcs, Status

\* No file is removed.
LEMMA FilesThere == ExoNext => DOMAIN disk \subseteq DOMAIN disk'
<1>1. \A file, contents : DOMAIN Store(file, contents) = DOMAIN disk \cup {file}
  BY DEF Store
<1>2. OpenOutputs => DOMAIN disk \subseteq DOMAIN disk'
  BY DEF OpenOutputs
<1>3. WriteOutputs \/ WriteFails => DOMAIN disk \subseteq DOMAIN disk'
  BY DEF WriteOutputs, WriteFails
<1>4. ChildCrunches \/ ChildFails => DOMAIN disk \subseteq DOMAIN disk'
  <2>1. ChildCrunches \/ ChildFails =>
          \E file, contents : disk' = disk \/ disk' = Store(file, contents)
    BY DEF ChildCrunches, ChildFails
  <2>2. CASE disk' = disk
    BY <2>2
  <2>3. ASSUME NEW file, NEW contents, disk' = Store(file, contents)
        PROVE  DOMAIN disk \subseteq DOMAIN disk'
    <3>1. DOMAIN Store(file, contents) = DOMAIN disk \cup {file}
      BY <1>1
    <3> QED BY <2>3, <3>1
  <2> QED BY <2>1, <2>2, <2>3
<1>5. ReadOptions \/ ReadInput \/ NoInput \/ Fork \/ ForkFails \/ WaitChild \/ StatFile
        \/ CheckRanges => disk' = disk
  BY DEF ReadOptions, exoVars, ReadInput, NoInput, Fork, ForkFails, WaitChild, StatFile,
         CheckRanges
<1> QED BY <1>2, <1>3, <1>4, <1>5 DEF ExoNext

\* The files that are to be crunched are there once the outputs are open.
LEMMA ToCrunchThere ==
  ASSUME OptInv, FileInv, CallInv, exo_pc = "write"
  PROVE  ToCrunch \in Seq(DOMAIN disk)
<1> DEFINE first == IF setting.do_exomize /\ setting.do_stats THEN <<Input>> ELSE <<>>
           others == IF setting.do_exomize THEN Outputs ELSE <<>>
<1>1. Outputs \in Seq(DOMAIN disk)
  <2>1. PICK S : Outputs \in Seq(S)
    BY OutputsFacts
  <2>2. \A n \in 1 .. Len(Outputs) : Outputs[n] \in DOMAIN disk
    BY DEF FileInv, ToSet
  <2> QED BY <2>1, <2>2
<1>2. first \in Seq(DOMAIN disk)
  <2>1. CASE setting.do_exomize /\ setting.do_stats
    <3>1. Input # NULL
      BY <2>1 DEF FileInv, OptInv, Combined, Input
    <3>2. Input \in DOMAIN disk
      BY <3>1 DEF CallInv
    <3> QED BY <2>1, <3>2, ShortSeqs
  <2>2. CASE ~(setting.do_exomize /\ setting.do_stats)
    BY <2>2, ShortSeqs
  <2> QED BY <2>1, <2>2
<1>3. others \in Seq(DOMAIN disk)
  BY <1>1, ShortSeqs
<1>4. ToCrunch = first \o others
  BY DEF ToCrunch
<1> HIDE DEF first, others
<1> QED BY <1>2, <1>3, <1>4

LEMMA CallInvNext ==
  OptInv /\ FileInv /\ CallInv /\ [ExoNext \/ (ExoExited /\ UNCHANGED allVars)]_allVars
    => CallInv'
<1> SUFFICES ASSUME OptInv, FileInv, CallInv, ExoNext PROVE CallInv'
  <2>1. CASE UNCHANGED allVars
    BY <2>1 DEF CallInv, Input, allVars, exoVars, optVars
  <2> QED BY <2>1
<1>1. exo_pc' \in ExoPcs
  BY DEF CallInv, ExoNext, ReadOptions, exoVars, ReadInput, NoInput, OpenOutputs,
         WriteOutputs, WriteFails, Fork, ForkFails, ChildCrunches, ChildFails, WaitChild,
         StatFile, CheckRanges, ExoPcs
<1>2. status' \in Status
  BY DEF CallInv, ExoNext, ReadOptions, exoVars, ReadInput, NoInput, OpenOutputs,
         WriteOutputs, WriteFails, Fork, ForkFails, ChildCrunches, ChildFails, WaitChild,
         StatFile, CheckRanges, Status
<1>3. forked' \in BOOLEAN
  BY DEF CallInv, ExoNext, ReadOptions, exoVars, ReadInput, NoInput, OpenOutputs,
         WriteOutputs, WriteFails, Fork, ForkFails, ChildCrunches, ChildFails, WaitChild,
         StatFile, CheckRanges
<1>4. queue' \in Seq(DOMAIN disk)
  <2>1. CASE WriteOutputs
    BY <2>1, ToCrunchThere DEF WriteOutputs
  <2>2. CASE StatFile
    <3>1. queue # <<>> /\ queue \in Seq(DOMAIN disk)
      BY <2>2 DEF StatFile, FileInv, CallInv
    <3>2. Tail(queue) \in Seq(DOMAIN disk)
      BY <3>1
    <3>3. queue' = queue \/ queue' = Tail(queue)
      BY <2>2 DEF StatFile
    <3> QED BY <3>1, <3>2, <3>3
  <2>3. CASE ~WriteOutputs /\ ~StatFile
    <3>1. queue' = queue
      BY <2>3 DEF ExoNext, ReadOptions, exoVars, ReadInput, NoInput, OpenOutputs,
                  WriteFails, Fork, ForkFails, ChildCrunches, ChildFails, WaitChild,
                  CheckRanges
    <3> QED BY <3>1 DEF CallInv
  <2> QED BY <2>1, <2>2, <2>3
<1>5. queue' \in Seq(DOMAIN disk')
  <2>1. Seq(DOMAIN disk) \subseteq Seq(DOMAIN disk')
    BY FilesThere
  <2> QED BY <1>4, <2>1
<1>6. exo_pc' \in {"layout", "write"} /\ Input' # NULL => Input' \in DOMAIN disk'
  <2> SUFFICES ASSUME exo_pc' \in {"layout", "write"}, Input' # NULL
               PROVE  Input' \in DOMAIN disk'
    OBVIOUS
  <2>1. CASE ReadOptions
    <3>1. opt_pc = "options"
      BY <2>1 DEF ReadOptions, NextOption, FileOption, AddressOption, OrderOption,
                  MemmapOption, HelpOption, ExomizeOption, StatsOption, UnknownOption,
                  NoOption, EndOfOptions, Option
    <3>2. exo_pc' = "start"
      BY <2>1, <3>1 DEF ReadOptions, exoVars, FileInv
    <3> QED BY <3>2
  <2>2. CASE ~ReadOptions
    <3>1. UNCHANGED optVars /\ exo_pc \in {"start", "layout", "write"}
      BY <2>2 DEF ExoNext, ReadInput, NoInput, OpenOutputs, WriteOutputs, WriteFails, Fork,
                  ForkFails, ChildCrunches, ChildFails, WaitChild, StatFile, CheckRanges,
                  FileInv
    <3>2. Input' = Input
      BY <3>1, SettingsStay
    <3>3. Input \in DOMAIN disk
      <4>1. CASE ReadInput
        BY <3>2, <4>1 DEF ReadInput
      <4>2. CASE ~ReadInput
        <5>1. exo_pc \in {"layout", "write"}
          BY <2>2, <4>2 DEF ExoNext, NoInput, OpenOutputs, WriteOutputs, WriteFails, Fork,
                  ForkFails, ChildCrunches, ChildFails, WaitChild, StatFile, CheckRanges,
                  FileInv
        <5> QED BY <3>2, <5>1 DEF CallInv
      <4> QED BY <4>1, <4>2
    <3> QED BY <3>2, <3>3, FilesThere
  <2> QED BY <2>1, <2>2
<1> QED BY <1>1, <1>2, <1>3, <1>5, <1>6 DEF CallInv

THEOREM CallInvariance == ExoSpec => []CallInv
<1>1. ExoInit => CallInv
  BY CallInvInit
<1>2. OptInv /\ FileInv /\ CallInv /\ [ExoNext \/ (ExoExited /\ UNCHANGED allVars)]_allVars
        => CallInv'
  BY CallInvNext
<1> QED BY <1>1, <1>2, OptionsInvariance, FilesInvariance, PTL DEF ExoSpec

\* ExoTypeOK: for every command line and every file system, the settings are of
\* their types, each address that main keeps of a number fits in an int, there is
\* a child process only while main waits for one, and the file that exomizer is
\* called for is there.
THEOREM ExoTypeCorrect == ExoSpec => []ExoTypeOK
<1>1. ASSUME OptInv, GivenInv PROVE OptTypeOK
  <2>1. Len(line) \in Nat
    <3>1. line \in Seq(Word)
      BY <1>1, LineAssumption DEF OptInv
    <3> QED BY <3>1
  <2>2. rest \in 0 .. Len(line)
    BY <1>1, <2>1 DEF GivenInv
  <2>3. \A a \in {"tempaddr", "tempaddr2", "zpaddr"} :
          setting[a] \in -INT_MAX - 1 .. INT_MAX
    BY <1>1, Names DEF GivenInv
  <2> QED BY <1>1, <2>2, <2>3 DEF OptInv, GivenInv, OptTypeOK
<1>2. ASSUME FileInv, CallInv
      PROVE  /\ queue # <<>> => filename \in DOMAIN disk
             /\ child # "none" => exo_pc = "wait" /\ queue # <<>>
  <2>1. queue \in Seq(DOMAIN disk)
    BY <1>2 DEF CallInv
  <2>2. queue # <<>> => filename \in DOMAIN disk
    BY <2>1 DEF filename
  <2>3. child # "none" => exo_pc = "wait" /\ queue # <<>>
    BY <1>2 DEF FileInv
  <2> QED BY <2>2, <2>3
<1>3. OptInv /\ GivenInv /\ FileInv /\ CallInv => ExoTypeOK
  BY <1>1, <1>2 DEF ExoTypeOK, CallInv, FileInv, ExoPcs
<1> QED BY <1>3, OptionsInvariance, GivenInvariance, FilesInvariance, CallInvariance, PTL
=============================================================================
