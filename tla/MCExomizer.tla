----------------------------- MODULE MCExomizer -----------------------------
(***************************************************************************)
(* Instances of Exomizer: command lines about the options, with real       *)
(* addresses, ints of 18 bits and longs of 21; and command lines about the *)
(* files, with names that have an extension or not, apart or not.          *)
(***************************************************************************)
EXTENDS Exomizer

\* Which opcode has which mode is of no importance here.
MCModes == [b \in Byte |-> MODEimpl]

W(name) == [name |-> name, arg |-> <<>>]
With(name, arg) == [name |-> name, arg |-> <<arg>>]

-----------------------------------------------------------------------------
\* On both sides of each limit; numbers that look valid when they are stored in
\* an int; texts that are no number, or only in part.
MCNumbers == {0, 244, 245, 511, 512, 2048, 4096, 65280, 65281, 131071}
Odd ==
  {<<>>, <<"x">>, <<"$">>, <<"-", "1">>, <<"1", "0", "0", "0", "x">>, <<"0", "9">>,
   <<"0", "x">>, <<"$", "0", "x", "8", "0", "0">>,
   <<"blank", "5", "1", "2">>, <<"blank", "blank", "+", "5", "1", "2">>, <<"+", "-", "5", "1", "2">>, <<"blank">>,
   <<"0", "X", "8", "0", "0">>, <<"$", "F", "f">>, <<"$", "G">>,
   <<"$", "4", "1", "0", "0", "0">>, <<"-", "3", "f", "0", "0", "0">>,
   <<"0", "x", "1", "f", "f", "f", "f", "f", "0">>,
   <<"-", "0", "x", "f", "f", "f", "f", "f", "f", "f">>}
Texts == UNION {Formats(n) : n \in MCNumbers} \cup Odd

Default == <<"d", "o", ".", "t", "l", "i", "r", "z", "h">>
Mixed == <<"H", "z", "l", "T", "i", "o", "r", ".", "D">>
Orders ==
  {Default, Mixed, SubSeq(Default, 1, 8), Append(Default, "d"), Append(Default, "x"),
   <<".", "d", "o", "t", "l", "i", "r", "z", "h">>,
   <<"d", "o", "t", "l", "i", "r", "z", "h", ".">>,
   <<"d", "o", ".", "t", "l", "i", "r", "z", "Z">>, <<>>}

OrderWords == {With("O", order) : order \in Orders}
Input1 == With("i", <<"a", ".prg">>)
Output1 == With("output", <<"b">>)
FewWords ==
  OrderWords \cup
  {Input1, Output1, W("e"), With("exomize", <<"exo">>), W("s"), With("p", <<"c">>),
   W("M"), With("T", <<"8", "0", "0">>), With("", <<"d">>)}
MoreWords ==
  FewWords \cup {With(o, text) : o \in {"t", "T", "z"}, text \in Texts} \cup
  {W("help"), W("h"), With("memmap", <<"d">>), With("tempaddr", <<"1">>), W("i"), W("q")}

OptionLines ==
  UNION {[1 .. n -> MoreWords] : n \in 0 .. 1} \cup
  {<<v, w>> : v \in FewWords, w \in MoreWords} \cup {<<v, w>> : v \in MoreWords, w \in FewWords} \cup
  {<<u, v, w>> : u \in FewWords, v \in FewWords, w \in FewWords} \cup
  {<<With(o, t), With(o, u)>> : o \in {"t", "T"}, t \in Formats(2048), u \in Formats(4096) \cup Formats(511)}

-----------------------------------------------------------------------------
FileLines ==
  {<<With("i", x), With("o", y)>> \o p \o <<e>> :
     x \in {<<"a", ".prg">>, <<"a">>, <<".prg">>},
     y \in {<<"a", ".prg">>, <<"a", ".exo">>, <<"b", ".prg">>},
     p \in {<<>>} \cup {<<With("p", z)>> : z \in {<<"b">>, <<"b", ".prg">>, <<".prg">>, <<"c">>}},
     e \in {W("e"), W("s"), W("M")}}

MCLines == OptionLines \cup FileLines

\* No file, files to read, and some that an earlier call left.
Before == [f \in {<<"a", ".prg">>, <<"a">>, <<".prg">>} |-> <<"before">>]
MCDisks ==
  {<<>>, Before,
   [f \in DOMAIN Before \cup {<<"b", ".exo">>, <<"c", ".exo">>} |->
      IF f \in DOMAIN Before THEN <<"before">> ELSE <<"stale">>]}
=============================================================================
