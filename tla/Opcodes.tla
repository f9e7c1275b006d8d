------------------------------ MODULE Opcodes ------------------------------
(***************************************************************************)
(* The addressing-mode table of prepack6502 and what an addressing mode    *)
(* says about the bytes that follow an opcode.                             *)
(*                                                                         *)
(* PAGE is the number of values of a byte (256 on the 6502).  The table    *)
(* opcode_to_mode is a parameter: nothing here depends on which opcode has *)
(* which mode.  The values of the modes matter, because the depacker uses  *)
(* the low byte of a mode as an offset into its zeropage pointers and its  *)
(* top bit as the "no argument" flag.                                      *)
(***************************************************************************)
EXTENDS Naturals, Sequences

CONSTANTS PAGE,            \* number of values of a byte
          opcode_to_mode   \* the mode of each opcode

Byte == 0 .. PAGE - 1

MODEabs  == 0
MODEimm  == 4
MODErel  == 6
MODEzp   == 8
MODEimpl == PAGE \div 2              \* 0x80: only the top bit of the byte
MODEjam  == PAGE + (PAGE \div 2)     \* 0x180: its low byte is MODEimpl

Mode == {MODEabs, MODEimm, MODErel, MODEzp, MODEimpl, MODEjam}

\* The offset of the opcode pointer (10) must stay below the sign bit.
ASSUME PageAssumption == PAGE \in Nat /\ PAGE >= 22 /\ PAGE % 2 = 0
ASSUME ModeAssumption == opcode_to_mode \in [Byte -> Mode]

(***************************************************************************)
(* The six data tables, by the letters of the table order option: opcodes, *)
(* low and high bytes of absolute addresses, immediates, branch distances  *)
(* and zeropage addresses.                                                 *)
(***************************************************************************)
Table == {"o", "l", "h", "i", "r", "z"}

\* Mutant: branches take their argument from the table of the immediates.
ArgTablesMixed(m) ==
  CASE m = MODEabs -> <<"l", "h">>
    [] m = MODEimm -> <<"i">>
    [] m = MODErel -> <<"i">>
    [] m = MODEzp  -> <<"z">>
    [] OTHER       -> <<>>

\* The tables the argument bytes of an instruction of mode m go to, in order.
ArgTables(m) ==
  CASE m = MODEabs -> <<"l", "h">>
    [] m = MODEimm -> <<"i">>
    [] m = MODErel -> <<"r">>
    [] m = MODEzp  -> <<"z">>
    [] OTHER       -> <<>>
=============================================================================
