------------------------------ MODULE ChunkPool ------------------------------
(***************************************************************************)
(* A pool of elements of one size, taken from a few large chunks, and      *)
(* given back all at once.                                                 *)
(*                                                                         *)
(* The heap is the set of the blocks that are allocated; malloc returns    *)
(* any that is not.  An element is a block and an offset in it.            *)
(***************************************************************************)
EXTENDS Integers, Sequences

CONSTANTS Block,               \* what malloc may return
          Sizes,               \* sizes of elements
          CHUNK_BYTES,         \* 0x1fffff
          CHUNKPOOL_CHUNKS_MAX

ASSUME SizesAssumption == Sizes \subseteq 1 .. CHUNK_BYTES
ASSUME BytesAssumption == CHUNK_BYTES \in Nat \ {0}
ASSUME ChunksAssumption == CHUNKPOOL_CHUNKS_MAX \in Nat \ {0}

VARIABLES
  chunk_size, chunk, chunk_pos, chunk_max,
  chunks,    \* the blocks, by their index
  live,      \* what malloc returned and free did not get
  given,     \* the elements chunkpool_malloc returned, in order
  called,    \* those the callback was called for, in order
  pool_pc,        \* "free" at the head of the loop of chunkpool_free2,
             \* "call" before the callback, "release" before free
  f          \* chunkpool_free2 has a callback

ctx == <<chunk_size, chunk, chunk_pos, chunk_max, chunks>>
poolVars == <<ctx, live, given, called, pool_pc, f>>

Element(b, at) == [block |-> b, offset |-> at]

PoolInit ==
  /\ chunk_size = -1 /\ chunk = -1 /\ chunk_pos = -1 /\ chunk_max = -1
  /\ chunks = <<>>
  /\ live = {} /\ given = <<>> /\ called = <<>>
  /\ pool_pc = "unused" /\ f = FALSE

\* Chunks of the full size, whether or not elements fill it.
ChunkpoolInit_Uneven(size) ==
  /\ pool_pc \in {"unused", "freed"}
  /\ chunk_size' = size
  /\ chunk' = -1
  /\ chunk_max' = CHUNK_BYTES
  /\ chunk_pos' = chunk_max'
  /\ given' = <<>> /\ called' = <<>> /\ pool_pc' = "ready"
  /\ UNCHANGED <<chunks, live, f>>

ChunkpoolInit(size) ==
  /\ pool_pc \in {"unused", "freed"}
  /\ chunk_size' = size
  /\ chunk' = -1
  /\ chunk_max' = (CHUNK_BYTES \div size) * size
  /\ chunk_pos' = chunk_max'
  /\ given' = <<>> /\ called' = <<>> /\ pool_pc' = "ready"
  /\ UNCHANGED <<chunks, live, f>>

-----------------------------------------------------------------------------
(***************************************************************************)
(* chunkpool_malloc.                                                       *)
(***************************************************************************)
MallocInChunk ==
  /\ pool_pc = "ready" /\ chunk_pos # chunk_max
  /\ given' = Append(given, Element(chunks[chunk + 1], chunk_pos))
  /\ chunk_pos' = chunk_pos + chunk_size
  /\ UNCHANGED <<chunk_size, chunk, chunk_max, chunks, live, called, pool_pc, f>>

MallocNewChunk(b) ==
  /\ pool_pc = "ready" /\ chunk_pos = chunk_max
  /\ chunk # CHUNKPOOL_CHUNKS_MAX - 1
  /\ live' = live \cup {b}
  /\ chunk' = chunk + 1
  /\ chunks' = Append(SubSeq(chunks, 1, chunk'), b)
  /\ given' = Append(given, Element(b, 0))
  /\ chunk_pos' = chunk_size
  /\ UNCHANGED <<chunk_size, chunk_max, called, pool_pc, f>>

OutOfChunks ==
  /\ pool_pc = "ready" /\ chunk_pos = chunk_max
  /\ chunk = CHUNKPOOL_CHUNKS_MAX - 1
  /\ pool_pc' = "out of chunks"
  /\ UNCHANGED <<ctx, live, given, called, f>>

\* malloc may fail.
OutOfMemory ==
  /\ pool_pc = "ready" /\ chunk_pos = chunk_max
  /\ chunk # CHUNKPOOL_CHUNKS_MAX - 1
  /\ pool_pc' = "out of memory"
  /\ UNCHANGED <<ctx, live, given, called, f>>

-----------------------------------------------------------------------------
(***************************************************************************)
(* chunkpool_free2, with a callback or (chunkpool_free) without.           *)
(***************************************************************************)
ChunkpoolFree(callback) ==
  /\ pool_pc = "ready"
  /\ f' = callback
  /\ pool_pc' = "free"
  /\ UNCHANGED <<ctx, live, given, called>>

FreeNext ==
  /\ pool_pc = "free" /\ chunk >= 0
  /\ pool_pc' = IF f THEN "call" ELSE "release"
  /\ UNCHANGED <<ctx, live, given, called, f>>

\* The element at the start of a chunk is taken for the end of it.
CallBack_NotFirst ==
  /\ pool_pc = "call"
  /\ LET at == chunk_pos - chunk_size IN
       /\ called' = Append(called, Element(chunks[chunk + 1], at))
       /\ IF at > chunk_size
          THEN chunk_pos' = at /\ pool_pc' = "call"
          ELSE chunk_pos' = chunk_max /\ pool_pc' = "release"
  /\ UNCHANGED <<chunk_size, chunk, chunk_max, chunks, live, given, f>>

CallBack ==
  /\ pool_pc = "call"
  /\ LET at == chunk_pos - chunk_size IN
       /\ called' = Append(called, Element(chunks[chunk + 1], at))
       /\ IF at > 0
          THEN chunk_pos' = at /\ pool_pc' = "call"
          ELSE chunk_pos' = chunk_max /\ pool_pc' = "release"
  /\ UNCHANGED <<chunk_size, chunk, chunk_max, chunks, live, given, f>>

Release ==
  /\ pool_pc = "release"
  /\ live' = live \ {chunks[chunk + 1]}
  /\ chunk' = chunk - 1
  /\ pool_pc' = "free"
  /\ UNCHANGED <<chunk_size, chunk_pos, chunk_max, chunks, given, called, f>>

FreeReturns ==
  /\ pool_pc = "free" /\ chunk < 0
  /\ chunk_size' = -1 /\ chunk_max' = -1 /\ chunk_pos' = -1
  /\ pool_pc' = "freed"
  /\ UNCHANGED <<chunk, chunks, live, given, called, f>>

Freeing == FreeNext \/ CallBack \/ Release \/ FreeReturns

\* The program has ended.
PoolExited == pool_pc \in {"out of chunks", "out of memory"} /\ UNCHANGED poolVars

PoolNext ==
  \/ \E size \in Sizes : ChunkpoolInit(size)
  \/ MallocInChunk
  \/ \E b \in Block \ live : MallocNewChunk(b)
  \/ OutOfChunks
  \/ OutOfMemory
  \/ \E callback \in BOOLEAN : ChunkpoolFree(callback)
  \/ Freeing
  \/ PoolExited

\* chunkpool_free2 goes on once it is called.
PoolSpec == PoolInit /\ [][PoolNext]_poolVars /\ WF_poolVars(Freeing)

-----------------------------------------------------------------------------
(***************************************************************************)
(* Properties.                                                             *)
(***************************************************************************)
\* The types of the variables; the position is at an element or the end.
PoolTypeOK ==
  /\ chunk_size \in Sizes \cup {-1}
  /\ chunk \in -1 .. CHUNKPOOL_CHUNKS_MAX - 1
  /\ chunk_max \in -1 .. CHUNK_BYTES
  /\ chunk_pos \in -1 .. chunk_max
  /\ chunks \in Seq(Block) /\ chunk < Len(chunks)
  /\ live \subseteq Block
  /\ given \in Seq([block : Block, offset : 0 .. CHUNK_BYTES])
  /\ called \in Seq([block : Block, offset : 0 .. CHUNK_BYTES])
  /\ pool_pc \in {"unused", "ready", "free", "call", "release", "freed",
             "out of chunks", "out of memory"}
  /\ f \in BOOLEAN

\* Elements that were given and not taken back lie in blocks that are live,
\* within the chunk, and do not share a byte, however many chunks there are.
Kept == IF pool_pc = "ready" THEN Len(given)
        ELSE IF f /\ pool_pc \in {"free", "call", "release"} THEN Len(given) - Len(called)
        ELSE 0
ElementsApart ==
  \A i \in 1 .. Kept :
    /\ given[i].block \in live
    /\ given[i].offset + chunk_size <= CHUNK_BYTES
    /\ \A j \in 1 .. Kept :
         i # j /\ given[i].block = given[j].block =>
           \/ given[i].offset + chunk_size <= given[j].offset
           \/ given[j].offset + chunk_size <= given[i].offset

\* The callback is called for what was given, the last first, and never for
\* anything else or twice; and for all of it, when there is one.
LastFirst ==
  /\ Len(called) <= Len(given)
  /\ \A i \in 1 .. Len(called) : called[i] = given[Len(given) + 1 - i]
  /\ pool_pc = "freed" /\ f => Len(called) = Len(given)

\* Once it is freed no chunk is left allocated.
NothingLeft == pool_pc = "freed" => live = {}

\* Freeing a pool gives back everything, in the reverse order.
GivenBack == LastFirst /\ NothingLeft

\* chunkpool_free2 returns.
FreeEnds == [](pool_pc = "free" => <>(pool_pc = "freed"))
=============================================================================
