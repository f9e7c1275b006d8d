----------------------------- MODULE Containers -----------------------------
(***************************************************************************)
(* The three containers of the program together.  They share no state, so  *)
(* a behaviour uses one of them.                                           *)
(***************************************************************************)
EXTENDS Vec, ChunkPool, Membuf

VARIABLE container   \* the one that is used

ContainersInit ==
  /\ container \in {"vec", "chunkpool", "membuf"}
  /\ VecInit /\ PoolInit /\ MembufInit
  /\ container # "vec" => in = CHOOSE k \in Key : TRUE

containersVars == <<container, vecVars, poolVars, bufVars>>

ContainersNext ==
  /\ UNCHANGED container
  /\ \/ container = "vec" /\ VecNext /\ UNCHANGED <<poolVars, bufVars>>
     \/ container = "chunkpool" /\ PoolNext /\ UNCHANGED <<vecVars, bufVars>>
     \/ container = "membuf" /\ MembufNext /\ UNCHANGED <<vecVars, poolVars>>

\* A call that was made goes on, as in the modules.
ContainersSpec ==
  /\ ContainersInit
  /\ [][ContainersNext]_containersVars
  /\ WF_vecVars(Search \/ FindDone)
  /\ WF_poolVars(Freeing)
  /\ WF_bufVars(Working)

\* The types of all variables; the bounds of the search, the position in the
\* chunk and the length of the buffer stay in range.
ContainersTypeOK == VecTypeOK /\ PoolTypeOK /\ MembufTypeOK

\* Every search, every walk that frees and every call that looks for a size
\* comes to an end.
ContainersReturn == VecReturns /\ FreeEnds /\ CallsReturn
=============================================================================
