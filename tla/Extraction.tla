----------------------------- MODULE Extraction -----------------------------
(***************************************************************************)
(* What the tool promises of a packed program once its depacker runs: the  *)
(* program appears byte by byte, complete and in order, and at most three  *)
(* bytes behind it are trashed.                                            *)
(***************************************************************************)
EXTENDS Naturals, Sequences

CONSTANT Byte

VARIABLES program,   \* the bytes that were packed
          out,       \* the bytes extracted so far
          done       \* the depacker has returned

evars == <<program, out, done>>

Init ==
  /\ program \in Seq(Byte)
  /\ out = <<>>
  /\ done = FALSE

\* The next byte of the program appears.
Emit ==
  /\ ~done
  /\ Len(out) < Len(program)
  /\ out' = Append(out, program[Len(out) + 1])
  /\ UNCHANGED <<program, done>>

\* A byte behind the program is trashed.
Trash(b) ==
  /\ ~done
  /\ Len(program) <= Len(out)
  /\ Len(out) < Len(program) + 3
  /\ out' = Append(out, b)
  /\ UNCHANGED <<program, done>>

Finish ==
  /\ ~done
  /\ Len(program) <= Len(out)
  /\ done' = TRUE
  /\ UNCHANGED <<program, out>>

\* The depacker returns together with the last byte it writes.
TrashAndFinish(b) ==
  /\ ~done
  /\ Len(program) <= Len(out)
  /\ Len(out) < Len(program) + 3
  /\ out' = Append(out, b)
  /\ done' = TRUE
  /\ UNCHANGED program

Next ==
  \/ Emit
  \/ \E b \in Byte : Trash(b) \/ TrashAndFinish(b)
  \/ Finish

Spec == Init /\ [][Next]_evars
=============================================================================
