---------------------------- MODULE DepackerShape ----------------------------
(***************************************************************************)
(* What main and the depacker itself rely on in the assembled depacker:    *)
(* its length, and where the bytes are that are data.  Layout uses them,   *)
(* Generator assembles the depacker and checks them.                       *)
(***************************************************************************)
EXTENDS Integers

\* The length of the depacker for an end marker; none: all opcodes are used.
DepackerLength(eof, none) ==
  CASE eof = none -> 77
    [] eof = 0    -> 68
    [] OTHER      -> 70

SmcOffset(length) == length - 20      \* smc_out + 2
TablesOffset(length) == length - 12   \* table_of_tables
=============================================================================
