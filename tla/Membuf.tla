------------------------------- MODULE Membuf -------------------------------
(***************************************************************************)
(* A buffer that grows by doubling.  Memory that was just allocated holds  *)
(* any bytes.                                                              *)
(***************************************************************************)
EXTENDS Integers, Sequences

CONSTANTS Byte,
          Mem,       \* the strings of bytes callers pass
          INT_MAX,   \* the largest int
          MAX_LEN    \* bound on lengths

ASSUME ByteAssumption == Byte # {}
ASSUME MemAssumption == Mem \subseteq Seq(Byte)
\* A length is an int.
ASSUME LengthAssumption ==
  MAX_LEN \in Nat \ {0} /\ INT_MAX \in Nat \ {0} /\ MAX_LEN <= INT_MAX

VARIABLES
  buf,    \* the memory: its size bytes
  len, size,
  buf_pc,     \* "grow" or "shrink" in the loops of membuf_atleast and _atmost,
          \* "copy" when there is room
  call,   \* the call that is being carried out
  want    \* the local size of membuf_atleast and membuf_atmost

bufVars == <<buf, len, size, buf_pc, call, want>>

ByteStringPromise == INSTANCE ByteString WITH bytes <- SubSeq(buf, 1, len)
Nothing == ByteStringPromise!Nothing

\* membuf_init
MembufInit ==
  /\ buf = <<>> /\ len = 0 /\ size = 0
  /\ buf_pc = "idle" /\ call = Nothing /\ want = 0

-----------------------------------------------------------------------------
(***************************************************************************)
(* Operations that need no memory.                                         *)
(***************************************************************************)
MembufClear ==
  /\ buf_pc = "idle"
  /\ len' = 0
  /\ UNCHANGED <<buf, size, buf_pc, call, want>>

MembufFree ==
  /\ buf_pc = "idle"
  /\ buf' = <<>> /\ len' = 0 /\ size' = 0
  /\ UNCHANGED <<buf_pc, call, want>>

\* No longer than it is.
MembufTruncate(n) ==
  /\ buf_pc = "idle"
  /\ n \in 0 .. len
  /\ len' = n
  /\ UNCHANGED <<buf, size, buf_pc, call, want>>

\* The first pos bytes are dropped.
MembufTrim(pos) ==
  /\ buf_pc = "idle"
  /\ pos \in 0 .. len
  /\ buf' = [i \in 1 .. size |-> IF i <= len - pos THEN buf[i + pos] ELSE buf[i]]
  /\ len' = len - pos
  /\ UNCHANGED <<size, buf_pc, call, want>>

-----------------------------------------------------------------------------
(***************************************************************************)
(* membuf_atleast, and what calls it.                                      *)
(***************************************************************************)
newlen ==
  IF call.op \in {"append", "insert"} THEN len + Len(call.mem)
  ELSE IF call.op = "memcpy" THEN Len(call.mem)
  ELSE call.n

\* A size is an int; shifting one bit too many out of it is no error.
Wrapped(n) == ((n + INT_MAX + 1) % (2 * (INT_MAX + 1))) - (INT_MAX + 1)

\* membuf_append and membuf_append_char, membuf_insert, membuf_memcpy, or
\* membuf_atleast itself.
Enter(c) ==
  /\ buf_pc = "idle"
  /\ call' = c
  /\ want' = IF size = 0 THEN 1 ELSE size
  /\ buf_pc' = "grow"
  /\ UNCHANGED <<buf, len, size>>

MembufAppend(mem) == len + Len(mem) <= MAX_LEN /\ Enter([op |-> "append", mem |-> mem])
MembufInsert(offset, mem) ==
  /\ offset \in 0 .. len
  /\ len + Len(mem) <= MAX_LEN
  /\ Enter([op |-> "insert", at |-> offset, mem |-> mem])
MembufMemcpy(mem) == Len(mem) <= MAX_LEN /\ Enter([op |-> "memcpy", mem |-> mem])
MembufAtleast(n) == Enter([op |-> "atleast", n |-> n])

\* Doubles also when there is just enough.
Double_Once_More ==
  /\ buf_pc = "grow"
  /\ want <= newlen
  /\ want' = Wrapped(2 * want)
  /\ UNCHANGED <<buf, len, size, buf_pc, call>>

Double ==
  /\ buf_pc = "grow"
  /\ want < newlen
  /\ want' = Wrapped(2 * want)
  /\ UNCHANGED <<buf, len, size, buf_pc, call>>

\* realloc keeps what is in both blocks.
Reallocated(n, b) == \A i \in 1 .. n : i <= size => b[i] = buf[i]

Enlarge ==
  /\ buf_pc = "grow"
  /\ want >= newlen
  /\ buf_pc' = "copy"
  /\ IF want > size
     THEN /\ size' = want
          /\ buf' \in [1 .. want -> Byte]
          /\ Reallocated(want, buf')
     ELSE UNCHANGED <<buf, size>>
  /\ UNCHANGED <<len, call, want>>

\* The program ends when realloc fails.
ReallocFails ==
  /\ buf_pc \in {"grow", "shrink"}
  /\ buf_pc = "grow" => want >= newlen /\ want > size
  /\ buf_pc = "shrink" => want <= call.n /\ want < size
  /\ buf_pc' = "exited"
  /\ UNCHANGED <<buf, len, size, call, want>>

\* The call returns.
Return == buf_pc' = "idle" /\ call' = Nothing /\ want' = 0

CopyAppended ==
  /\ buf_pc = "copy" /\ call.op = "append"
  /\ buf' = [i \in 1 .. size |-> IF i > len /\ i <= newlen THEN call.mem[i - len] ELSE buf[i]]
  /\ len' = newlen
  /\ Return
  /\ UNCHANGED size

\* The new bytes are copied in before the old ones are out of the way.
CopyInserted_First ==
  /\ buf_pc = "copy" /\ call.op = "insert"
  /\ LET n == Len(call.mem)
         b == [i \in 1 .. size |-> IF i > call.at /\ i <= call.at + n
                                   THEN call.mem[i - call.at] ELSE buf[i]]
     IN  buf' = [i \in 1 .. size |-> IF i > call.at + n /\ i <= newlen THEN b[i - n] ELSE b[i]]
  /\ len' = newlen
  /\ Return
  /\ UNCHANGED size

\* memmove makes room, memcpy fills it.
CopyInserted ==
  /\ buf_pc = "copy" /\ call.op = "insert"
  /\ LET n == Len(call.mem)
     IN  buf' = [i \in 1 .. size |->
                   IF i > call.at /\ i <= call.at + n THEN call.mem[i - call.at]
                   ELSE IF i > call.at + n /\ i <= newlen THEN buf[i - n]
                   ELSE buf[i]]
  /\ len' = newlen
  /\ Return
  /\ UNCHANGED size

\* The length stays.
CopyOver ==
  /\ buf_pc = "copy" /\ call.op = "memcpy"
  /\ buf' = [i \in 1 .. size |-> IF i <= newlen THEN call.mem[i] ELSE buf[i]]
  /\ Return
  /\ UNCHANGED <<len, size>>

AtleastReturns ==
  /\ buf_pc = "copy" /\ call.op = "atleast"
  /\ Return
  /\ UNCHANGED <<buf, len, size>>

-----------------------------------------------------------------------------
(***************************************************************************)
(* membuf_atmost.                                                          *)
(***************************************************************************)
MembufAtmost(n) ==
  /\ buf_pc = "idle"
  /\ call' = [op |-> "atmost", n |-> n]
  /\ want' = size
  /\ buf_pc' = "shrink"
  /\ UNCHANGED <<buf, len, size>>

Halve ==
  /\ buf_pc = "shrink"
  /\ want > call.n
  /\ want' = want \div 2
  /\ UNCHANGED <<buf, len, size, buf_pc, call>>

\* The length is the size of what is left.
Shrink ==
  /\ buf_pc = "shrink"
  /\ want <= call.n
  /\ IF want < size
     THEN /\ size' = want /\ len' = want
          /\ buf' \in [1 .. want -> Byte]
          /\ Reallocated(want, buf')
     ELSE UNCHANGED <<buf, len, size>>
  /\ Return

Working == Double \/ Enlarge \/ CopyAppended \/ CopyInserted \/ CopyOver \/ AtleastReturns
           \/ Halve \/ Shrink
MembufExited == buf_pc = "exited" /\ UNCHANGED bufVars

Calls ==
  \/ MembufClear
  \/ MembufFree
  \/ \E n \in 0 .. MAX_LEN : MembufTruncate(n)
  \/ \E pos \in 0 .. MAX_LEN : MembufTrim(pos)
  \/ \E mem \in Mem : MembufAppend(mem)
  \/ \E mem \in Mem, offset \in 0 .. MAX_LEN : MembufInsert(offset, mem)
  \/ \E mem \in Mem : MembufMemcpy(mem)
  \/ \E n \in 0 .. MAX_LEN : MembufAtleast(n)
  \/ \E n \in 0 .. MAX_LEN : MembufAtmost(n)

MembufNext == Calls \/ Working \/ ReallocFails \/ MembufExited

\* A call that was made goes on.
MembufSpec == MembufInit /\ [][MembufNext]_bufVars /\ WF_bufVars(Working)

-----------------------------------------------------------------------------
(***************************************************************************)
(* Properties.                                                             *)
(***************************************************************************)
\* Doubling comes to no size that is enough: beyond 2^30 bytes when an int has
\* 32 bits.
TooLong == 2 * newlen > INT_MAX + 2

\* The types of the variables; the bytes lie in the memory, and the size that
\* is looked for overflows for no length that there is a size for.
MembufTypeOK ==
  /\ buf \in Seq(Byte) /\ Len(buf) = size
  /\ len \in 0 .. size
  /\ size \in 0 .. INT_MAX
  /\ buf_pc \in {"idle", "grow", "copy", "shrink", "exited"}
  /\ buf_pc = "idle" <=> call = Nothing
  /\ want \in -INT_MAX - 1 .. INT_MAX
  /\ buf_pc = "grow" => want > 0 \/ TooLong
  /\ buf_pc # "grow" => want >= 0
  /\ buf_pc = "copy" => newlen <= size

\* No more memory is taken than twice what was asked for.
FitsTwice ==
  buf_pc = "grow" => want <= size \/ want = 1 \/ want < 2 * newlen \/ TooLong

\* Through all reallocations the buffer is the sequence of bytes it promises.
IsByteString == ByteStringPromise!Spec

\* Every call returns, or the program ends for want of memory, unless the
\* length is one that doubling never comes to: then the loop has no end.
Endless == buf_pc = "grow" /\ TooLong
CallsReturn ==
  /\ [](buf_pc # "idle" /\ ~Endless => <>(buf_pc \in {"idle", "exited"}))
  /\ [](Endless => []Endless)
=============================================================================
