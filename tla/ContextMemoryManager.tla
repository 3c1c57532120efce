------------------------- MODULE ContextMemoryManager -------------------------
(***************************************************************************)
(* The region allocator under every Context                                *)
(* (src/context/context_mm.{h,cpp}): memory comes in chunks of one size,   *)
(* blocks are cut from the last chunk, push() marks the current place and  *)
(* pop() releases everything allocated since the mark at once.             *)
(*                                                                         *)
(* An address is a chunk and an offset in it.  d_freeChunks is a set: it   *)
(* does not matter which of the free chunks is used or given back first.   *)
(* The last two variables are history: the blocks that the client may      *)
(* still use, in the order of their allocation, and how many of them there *)
(* were at each push.                                                      *)
(***************************************************************************)
EXTENDS Integers, FiniteSets, SequencesExt

CONSTANTS
  Chunk,          \* what malloc(chunkSizeBytes) can return, besides NULL
  NULL,
  chunkSizeBytes,
  maxFreeChunks,
  Size,           \* the sizes requested of newData
  MaxLevel        \* bound on the number of outstanding pushes

ASSUME MemoryAssumption ==
  /\ NULL \notin Chunk
  /\ chunkSizeBytes \in Nat \ {0}
  /\ maxFreeChunks \in Nat
  /\ Size \subseteq Nat \ {0}
  /\ MaxLevel \in Nat

VARIABLES
  heap,                 \* chunks obtained from malloc and not yet freed
  d_chunkList,
  d_freeChunks,
  d_nextFree,           \* [chunk, off]
  d_endChunk,           \* the chunk at whose end it points
  d_indexChunkList,
  d_nextFreeStack,
  d_endChunkStack,
  d_indexChunkListStack,
  mode,                 \* "run", "thrown" (bad_alloc) or "gone" (destroyed)
  live,                 \* history: blocks in use
  marks                 \* history: number of blocks in use at each push

mmvars == <<heap, d_chunkList, d_freeChunks, d_nextFree, d_endChunk,
            d_indexChunkList, d_nextFreeStack, d_endChunkStack,
            d_indexChunkListStack, mode, live, marks>>

stacks == <<d_nextFreeStack, d_endChunkStack, d_indexChunkListStack, marks>>

Pointer == [chunk : Chunk \cup {NULL}, off : Nat]

\* at: the index of the chunk in d_chunkList
Block == [chunk : Chunk \cup {NULL}, off : Nat, size : Nat \ {0}, at : Nat]

Init ==
  /\ \E c \in Chunk :
       /\ heap = {c}
       /\ d_chunkList = <<c>>
       /\ d_nextFree = [chunk |-> c, off |-> 0]
       /\ d_endChunk = c
  /\ d_freeChunks = {}
  /\ d_indexChunkList = 0
  /\ d_nextFreeStack = <<>>
  /\ d_endChunkStack = <<>>
  /\ d_indexChunkListStack = <<>>
  /\ mode = "run"
  /\ live = <<>>
  /\ marks = <<>>
-----------------------------------------------------------------------------
\* The chunk that newChunk() appends, from the free chunks or from malloc.
ChunkFromFree(c) ==
  /\ c \in d_freeChunks
  /\ d_freeChunks' = d_freeChunks \ {c}
  /\ UNCHANGED heap

ChunkFromMalloc(c) ==
  /\ d_freeChunks = {}
  /\ c \in Chunk \ heap
  /\ heap' = heap \cup {c}
  /\ UNCHANGED d_freeChunks

NewChunk(c) ==
  /\ ChunkFromFree(c) \/ ChunkFromMalloc(c)
  /\ d_indexChunkList' = d_indexChunkList + 1
  /\ d_chunkList' = Append(d_chunkList, c)
  /\ d_endChunk' = c

TooBig(size) == d_nextFree.off + size > chunkSizeBytes

\* Faulty variant of NewDataFits: a block may end one past the chunk.
NewDataFitsOffByOne(size) ==
  /\ mode = "run"
  /\ d_nextFree.off + size <= chunkSizeBytes + 1
  /\ d_nextFree' = [d_nextFree EXCEPT !.off = @ + size]
  /\ live' = Append(live, [chunk |-> d_nextFree.chunk, off |-> d_nextFree.off,
                           size |-> size, at |-> d_indexChunkList])
  /\ UNCHANGED <<heap, d_chunkList, d_freeChunks, d_endChunk, d_indexChunkList,
                 stacks, mode>>

\* newData: the block fits into the current chunk.
NewDataFits(size) ==
  /\ mode = "run"
  /\ ~TooBig(size)
  /\ d_nextFree' = [d_nextFree EXCEPT !.off = @ + size]
  /\ live' = Append(live, [chunk |-> d_nextFree.chunk, off |-> d_nextFree.off,
                           size |-> size, at |-> d_indexChunkList])
  /\ UNCHANGED <<heap, d_chunkList, d_freeChunks, d_endChunk, d_indexChunkList,
                 stacks, mode>>

\* Faulty variant of NewDataInChunk: d_nextFree does not move past the block.
NewDataInChunkNoAdvance(size, c) ==
  /\ mode = "run"
  /\ TooBig(size)
  /\ NewChunk(c)
  /\ d_nextFree' = [chunk |-> c, off |-> 0]
  /\ live' = IF size <= chunkSizeBytes
               THEN Append(live, [chunk |-> c, off |-> 0, size |-> size,
                                  at |-> d_indexChunkList + 1])
               ELSE live
  /\ UNCHANGED <<stacks, mode>>

\* newData: the block is cut from the new chunk c, unless it is larger than a
\* chunk; then an assertion fails, with d_nextFree left beyond the chunk.
NewDataInChunk(size, c) ==
  /\ mode = "run"
  /\ TooBig(size)
  /\ NewChunk(c)
  /\ d_nextFree' = [chunk |-> c, off |-> size]
  /\ live' = IF size <= chunkSizeBytes
               THEN Append(live, [chunk |-> c, off |-> 0, size |-> size,
                                  at |-> d_indexChunkList + 1])
               ELSE live
  /\ UNCHANGED <<stacks, mode>>

\* Faulty variant of NewDataThrows: NULL is noticed only when it is used.
NewDataThrowsLate(size) ==
  /\ mode = "run"
  /\ TooBig(size)
  /\ d_freeChunks = {}
  /\ d_indexChunkList' = d_indexChunkList + 1
  /\ d_chunkList' = Append(d_chunkList, NULL)
  /\ d_nextFree' = [chunk |-> NULL, off |-> size]
  /\ d_endChunk' = NULL
  /\ mode' = "thrown"
  /\ UNCHANGED <<heap, d_freeChunks, stacks, live>>

\* newData: malloc returns NULL and newChunk() throws bad_alloc.  NULL has been
\* appended to d_chunkList and d_nextFree points beyond the old chunk.  Nothing
\* catches the exception: only destructors run after it.
NewDataThrows(size) ==
  /\ mode = "run"
  /\ TooBig(size)
  /\ d_freeChunks = {}
  /\ d_indexChunkList' = d_indexChunkList + 1
  /\ d_chunkList' = Append(d_chunkList, NULL)
  /\ d_nextFree' = [d_nextFree EXCEPT !.off = @ + size]
  /\ mode' = "thrown"
  /\ UNCHANGED <<heap, d_freeChunks, d_endChunk, stacks, live>>

Push ==
  /\ mode = "run"
  /\ Len(marks) < MaxLevel
  /\ d_nextFreeStack' = Append(d_nextFreeStack, d_nextFree)
  /\ d_endChunkStack' = Append(d_endChunkStack, d_endChunk)
  /\ d_indexChunkListStack' = Append(d_indexChunkListStack, d_indexChunkList)
  /\ marks' = Append(marks, Len(live))
  /\ UNCHANGED <<heap, d_chunkList, d_freeChunks, d_nextFree, d_endChunk,
                 d_indexChunkList, mode, live>>

\* The chunks added since the last push, as d_freeChunks gets them.
NewChunks ==
  {d_chunkList[i] : i \in (Last(d_indexChunkListStack) + 2)..Len(d_chunkList)}

\* Faulty variant of DeleteExcess: the excess chunks leave the free list
\* without being freed.
DeleteExcessLeaks(chunks) ==
  \E keep \in SUBSET chunks :
    /\ Cardinality(keep) =
         IF Cardinality(chunks) > maxFreeChunks THEN maxFreeChunks ELSE Cardinality(chunks)
    /\ d_freeChunks' = keep
    /\ heap' = heap

\* The last loop of pop: free() what exceeds maxFreeChunks.
DeleteExcess(chunks) ==
  \E keep \in SUBSET chunks :
    /\ Cardinality(keep) =
         IF Cardinality(chunks) > maxFreeChunks THEN maxFreeChunks ELSE Cardinality(chunks)
    /\ d_freeChunks' = keep
    /\ heap' = heap \ (chunks \ keep)

Pop ==
  /\ mode \in {"run", "thrown"}
  /\ marks # <<>>
  /\ d_nextFree' = Last(d_nextFreeStack)
  /\ d_nextFreeStack' = Front(d_nextFreeStack)
  /\ d_endChunk' = Last(d_endChunkStack)
  /\ d_endChunkStack' = Front(d_endChunkStack)
  /\ d_indexChunkList' = Last(d_indexChunkListStack)
  /\ d_chunkList' = SubSeq(d_chunkList, 1, Last(d_indexChunkListStack) + 1)
  /\ DeleteExcess(d_freeChunks \cup NewChunks)
  /\ d_indexChunkListStack' = Front(d_indexChunkListStack)
  /\ live' = SubSeq(live, 1, Last(marks))
  /\ marks' = Front(marks)
  /\ UNCHANGED mode

\* ~ContextMemoryManager frees the chunks in use and the free ones.
Destruct ==
  /\ mode \in {"run", "thrown"}
  /\ mode' = "gone"
  /\ heap' = heap \ (ToSet(d_chunkList) \cup d_freeChunks)
  /\ d_chunkList' = <<>>
  /\ d_freeChunks' = {}
  /\ live' = <<>>
  /\ UNCHANGED <<d_nextFree, d_endChunk, d_indexChunkList, stacks>>

Next ==
  \/ \E size \in Size :
        \/ NewDataFits(size)
        \/ \E c \in Chunk : NewDataInChunk(size, c)
        \/ NewDataThrows(size)
  \/ Push
  \/ Pop
  \/ Destruct

Spec == Init /\ [][Next]_mmvars
-----------------------------------------------------------------------------
\* The fields of ContextMemoryManager have their types; in particular the current
\* chunk is never NULL, not even after a failed malloc.
TypeOK ==
  /\ heap \subseteq Chunk
  /\ d_chunkList \in Seq(Chunk \cup {NULL})
  /\ d_freeChunks \subseteq Chunk \cup {NULL}
  /\ d_nextFree \in Pointer
  /\ d_endChunk \in Chunk
  /\ d_indexChunkList \in Nat
  /\ d_nextFreeStack \in Seq(Pointer)
  /\ d_endChunkStack \in Seq(Chunk)
  /\ d_indexChunkListStack \in Seq(Nat)
  /\ mode \in {"run", "thrown", "gone"}
  /\ live \in Seq(Block)
  /\ marks \in Seq(Nat)

\* Two blocks share a byte.
Overlap(a, b) ==
  /\ a.chunk = b.chunk
  /\ a.off < b.off + b.size
  /\ b.off < a.off + a.size

\* Two blocks in use never overlap, whatever was pushed, popped and reused in
\* between, and even after a request that was too big.
BlocksDisjoint ==
  \A i, j \in 1..Len(live) : i # j => ~Overlap(live[i], live[j])

\* A block in use lies inside a chunk that is in use: not in one that was put
\* on the free list by a pop, and not in one that was freed.
BlocksInChunks ==
  \A i \in 1..Len(live) :
    /\ live[i].chunk \in heap
    /\ live[i].chunk \in ToSet(d_chunkList) \ d_freeChunks
    /\ live[i].off + live[i].size <= chunkSizeBytes

\* d_endChunk is the end of the chunk that d_nextFree points into, so that
\* comparing the two pointers in newData makes sense; push() and pop() save and
\* restore them separately.
EndOfSameChunk == mode # "gone" => d_endChunk = d_nextFree.chunk

\* Every chunk obtained from malloc is on exactly one list, once, so that it is
\* neither leaked nor freed twice; NULL is on one only after bad_alloc.
ChunksOwned ==
  /\ heap = (ToSet(d_chunkList) \cup d_freeChunks) \ {NULL}
  /\ ToSet(d_chunkList) \cap d_freeChunks = {}
  /\ \A i, j \in 1..Len(d_chunkList) : i # j => d_chunkList[i] # d_chunkList[j]
  /\ mode = "run" => NULL \notin ToSet(d_chunkList) \cup d_freeChunks

=============================================================================
