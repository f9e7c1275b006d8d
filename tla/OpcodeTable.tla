---------------------------- MODULE OpcodeTable ----------------------------
(***************************************************************************)
(* The table opcode_to_mode of the program, which the other modules take   *)
(* as a parameter.                                                         *)
(***************************************************************************)
EXTENDS Naturals, Sequences

A == 0      \* MODEabs
I == 4      \* MODEimm
R == 6      \* MODErel
Z == 8      \* MODEzp
N == 128    \* MODEimpl
J == 384    \* MODEjam

modes == <<
  N, Z, J, Z, Z, Z, Z, Z, N, I, N, I, A, A, A, A,
  R, Z, J, Z, Z, Z, Z, Z, N, A, N, A, A, A, A, A,
  A, Z, J, Z, Z, Z, Z, Z, N, I, N, I, A, A, A, A,
  R, Z, J, Z, Z, Z, Z, Z, N, A, N, A, A, A, A, A,
  N, Z, J, Z, Z, Z, Z, Z, N, I, N, I, A, A, A, A,
  R, Z, J, Z, Z, Z, Z, Z, N, A, N, A, A, A, A, A,
  N, Z, J, Z, Z, Z, Z, Z, N, I, N, I, A, A, A, A,
  R, Z, J, Z, Z, Z, Z, Z, N, A, N, A, A, A, A, A,
  I, Z, I, Z, Z, Z, Z, Z, N, I, N, I, A, A, A, A,
  R, Z, J, J, Z, Z, Z, Z, N, A, N, J, J, A, J, J,
  I, Z, I, Z, Z, Z, Z, Z, N, I, N, J, A, A, A, A,
  R, Z, J, Z, Z, Z, Z, Z, N, A, N, J, A, A, A, A,
  I, Z, I, Z, Z, Z, Z, Z, N, I, N, I, A, A, A, A,
  R, Z, J, Z, Z, Z, Z, Z, N, A, N, A, A, A, A, A,
  I, Z, I, Z, Z, Z, Z, Z, N, I, N, I, A, A, A, A,
  R, Z, J, Z, Z, Z, Z, Z, N, A, N, A, A, A, A, A>>

opcodes_6502 == [code \in 0 .. 255 |-> modes[code + 1]]
=============================================================================
