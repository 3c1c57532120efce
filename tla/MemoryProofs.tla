---------------------------- MODULE MemoryProofs ----------------------------
(***************************************************************************)
(* Proofs about the two managers of memory.                                *)
(*                                                                         *)
(* ContextMemoryManager, for any number of chunks, any chunk size and any  *)
(* sizes requested: blocks in use never overlap, they lie in chunks in     *)
(* use, and no chunk is lost or freed twice.  Blocks are allocated at ever *)
(* greater positions, where a position is the index of a chunk in          *)
(* d_chunkList and an offset in it, and each push marks the position that  *)
(* bounds the blocks older than it.                                        *)
(*                                                                         *)
(* NodeManager, for any number of addresses, any kinds and limits: the     *)
(* counts are right, what is referred to is not freed, and what is not is  *)
(* collected.  d_rc is exactly the number of references until it is full   *)
(* (Exact), every action changes both alike, and what an operation is      *)
(* about to return stays referred to (ResultSafe); since no value is below *)
(* itself (Acyclic), the destructor finds all.                             *)
(***************************************************************************)
EXTENDS ContextMemoryManager, NodeManager, FiniteSetTheorems, FunctionTheorems, SequenceTheorems, TLAPS

\* The position (k1, o1) is not after (k2, o2).
NotAfter(k1, o1, k2, o2) == k1 < k2 \/ (k1 = k2 /\ o1 <= o2)

\* The current chunk is the last of d_chunkList; the stacks grow together.
StacksInStep ==
  /\ Len(d_chunkList) = d_indexChunkList + 1
  /\ mode = "run" => d_nextFree.chunk = d_chunkList[d_indexChunkList + 1]
  /\ d_endChunk = d_nextFree.chunk
  /\ Len(d_nextFreeStack) = Len(marks)
  /\ Len(d_endChunkStack) = Len(marks)
  /\ Len(d_indexChunkListStack) = Len(marks)

\* Where the blocks are, and in which order.
Placed ==
  /\ \A i \in 1..Len(live) :
       /\ live[i].chunk \in Chunk
       /\ live[i].at <= d_indexChunkList
       /\ live[i].chunk = d_chunkList[live[i].at + 1]
       /\ live[i].off + live[i].size <= chunkSizeBytes
       /\ NotAfter(live[i].at, live[i].off + live[i].size,
                   d_indexChunkList, d_nextFree.off)
  /\ \A i, j \in 1..Len(live) : i < j =>
       NotAfter(live[i].at, live[i].off + live[i].size, live[j].at, live[j].off)

\* What each push saved still describes the blocks older than it.
Marked ==
  /\ \A k \in 1..Len(marks) :
       /\ marks[k] <= Len(live)
       /\ d_indexChunkListStack[k] <= d_indexChunkList
       /\ d_nextFreeStack[k].chunk = d_chunkList[d_indexChunkListStack[k] + 1]
       /\ d_endChunkStack[k] = d_nextFreeStack[k].chunk
       /\ \A i \in 1..marks[k] :
            NotAfter(live[i].at, live[i].off + live[i].size,
                     d_indexChunkListStack[k], d_nextFreeStack[k].off)
  /\ \A k, m \in 1..Len(marks) : k < m =>
       /\ marks[k] <= marks[m]
       /\ d_indexChunkListStack[k] <= d_indexChunkListStack[m]

\* The inductive invariant.
Inv ==
  /\ TypeOK
  /\ ChunksOwned
  /\ mode = "gone" => live = <<>>
  /\ mode # "gone" => StacksInStep /\ Placed /\ Marked
-----------------------------------------------------------------------------
(* Sequences that grow and shrink at their end. *)

\* Appending to a sequence adds one element and leaves the others (push_back).
LEMMA AppendFacts ==
  ASSUME NEW S, NEW s \in Seq(S), NEW e \in S
  PROVE  /\ Append(s, e) \in Seq(S)
         /\ Len(Append(s, e)) = Len(s) + 1
         /\ \A i \in 1..Len(s) : Append(s, e)[i] = s[i]
         /\ Append(s, e)[Len(s) + 1] = e
         /\ ToSet(Append(s, e)) = ToSet(s) \cup {e}
<1>1. /\ Append(s, e) \in Seq(S)
      /\ Len(Append(s, e)) = Len(s) + 1
      /\ \A i \in 1..Len(s) : Append(s, e)[i] = s[i]
      /\ Append(s, e)[Len(s) + 1] = e
  BY AppendProperties
<1> DEFINE t == Append(s, e)
<1>2. t \in Seq(S) /\ Len(s) \in Nat /\ DOMAIN t = 1..(Len(s) + 1) /\ DOMAIN s = 1..Len(s)
  BY <1>1
<1>3. \A i \in 1..(Len(s) + 1) : t[i] = IF i = Len(s) + 1 THEN e ELSE s[i]
  BY <1>1, <1>2
<1> HIDE DEF t
<1>4. ToSet(t) = ToSet(s) \cup {e}
  <2>1. \A x : x \in ToSet(t) <=> \E i \in 1..(Len(s) + 1) : x = t[i]
    BY <1>2 DEF ToSet
  <2>2. \A x : x \in ToSet(s) <=> \E i \in 1..Len(s) : x = s[i]
    BY <1>2 DEF ToSet
  <2>3. Len(s) + 1 \in 1..(Len(s) + 1) /\ \A i \in 1..Len(s) : i \in 1..(Len(s) + 1) /\ i # Len(s) + 1
    BY <1>2
  <2>4. \A i \in 1..(Len(s) + 1) : i = Len(s) + 1 \/ i \in 1..Len(s)
    BY <1>2
  <2> QED  BY <1>3, <2>1, <2>2, <2>3, <2>4
<1> QED  BY <1>1, <1>4 DEF t

\* What SubSeq(s, 1, n) keeps: the loops of pop that shorten a list.
LEMMA PrefixFacts ==
  ASSUME NEW S, NEW s \in Seq(S), NEW n \in 0..Len(s)
  PROVE  /\ SubSeq(s, 1, n) \in Seq(S)
         /\ Len(SubSeq(s, 1, n)) = n
         /\ \A i \in 1..n : SubSeq(s, 1, n)[i] = s[i]
         /\ ToSet(SubSeq(s, 1, n)) = {s[i] : i \in 1..n}
<1>1. n \in Nat /\ n <= Len(s) /\ Len(s) \in Nat
  OBVIOUS
<1>2. /\ SubSeq(s, 1, n) \in Seq(S)
      /\ Len(SubSeq(s, 1, n)) = n
      /\ \A i \in 1..n : SubSeq(s, 1, n)[i] = s[i]
  BY <1>1, SubSeqProperties
<1>3. DOMAIN SubSeq(s, 1, n) = 1..n
  BY <1>2
<1> QED  BY <1>2, <1>3 DEF ToSet

\* What Front and Last of a non-empty stack are (pop_back and back).
LEMMA FrontFacts ==
  ASSUME NEW S, NEW s \in Seq(S), s # <<>>
  PROVE  /\ Len(s) > 0 /\ Last(s) = s[Len(s)] /\ Last(s) \in S
         /\ Front(s) \in Seq(S)
         /\ Len(Front(s)) = Len(s) - 1
         /\ \A i \in 1..(Len(s) - 1) : Front(s)[i] = s[i]
<1>1. Len(s) \in Nat \ {0}
  BY EmptySeq
<1>2. Len(s) - 1 \in 0..Len(s)
  BY <1>1
<1>3. Last(s) = s[Len(s)] /\ Last(s) \in S
  BY <1>1 DEF Last
<1>4. /\ Front(s) \in Seq(S)
      /\ Len(Front(s)) = Len(s) - 1
      /\ \A i \in 1..(Len(s) - 1) : Front(s)[i] = s[i]
  <2> DEFINE n == Len(s) - 1
  <2>1. n \in 0..Len(s) /\ Front(s) = SubSeq(s, 1, n)
    BY <1>2 DEF Front
  <2> HIDE DEF n
  <2>2. Front(s) \in Seq(S) /\ Len(Front(s)) = n /\ \A i \in 1..n : Front(s)[i] = s[i]
    BY <2>1, PrefixFacts
  <2> QED  BY <2>2 DEF n
<1> QED  BY <1>1, <1>3, <1>4

\* The fields of a block that newData records.
LEMMA BlockFields ==
  ASSUME live \in Seq(Block)
  PROVE  \A i \in 1..Len(live) : /\ live[i].off \in Nat /\ live[i].size \in Nat \ {0}
                                 /\ live[i].at \in Nat
<1> SUFFICES ASSUME NEW i \in 1..Len(live)
             PROVE  /\ live[i].off \in Nat /\ live[i].size \in Nat \ {0}
                    /\ live[i].at \in Nat
  OBVIOUS
<1>1. live[i] \in Block
  BY ElementOfSeq
<1> QED  BY <1>1 DEF Block
-----------------------------------------------------------------------------
\* The constructor establishes the invariant.
LEMMA InitInv == Init => Inv
<1> SUFFICES ASSUME Init PROVE Inv
  OBVIOUS
<1>1. PICK c \in Chunk :
        /\ heap = {c} /\ d_chunkList = <<c>>
        /\ d_nextFree = [chunk |-> c, off |-> 0] /\ d_endChunk = c
  BY DEF Init
<1>2. ToSet(d_chunkList) = {c} /\ Len(d_chunkList) = 1 /\ d_chunkList[1] = c
  BY <1>1 DEF ToSet
<1>3. TypeOK
  BY <1>1 DEF Init, TypeOK, Pointer
<1>4. ChunksOwned
  BY <1>1, <1>2, MemoryAssumption DEF Init, ChunksOwned
<1>5. StacksInStep /\ Placed /\ Marked
  BY <1>1, <1>2 DEF Init, StacksInStep, Placed, Marked
<1> QED  BY <1>3, <1>4, <1>5 DEF Init, Inv

\* A block cut from the current chunk lies after all others.
LEMMA FitsInv == ASSUME Inv, NEW size \in Size, NewDataFits(size) PROVE Inv'
<1> DEFINE b == [chunk |-> d_nextFree.chunk, off |-> d_nextFree.off,
                 size |-> size, at |-> d_indexChunkList]
           n == Len(live)
<1>1. /\ TypeOK /\ ChunksOwned /\ StacksInStep /\ Placed /\ Marked /\ mode = "run"
      /\ size \in Nat \ {0} /\ d_nextFree.off \in Nat /\ d_indexChunkList \in Nat
      /\ chunkSizeBytes \in Nat /\ n \in Nat
      /\ d_nextFree.off + size <= chunkSizeBytes
  BY MemoryAssumption DEF Inv, NewDataFits, TypeOK, TooBig, Pointer
<1>2. b \in Block /\ d_nextFree.chunk \in Chunk
  <2>1. d_chunkList[d_indexChunkList + 1] \in ToSet(d_chunkList)
    BY <1>1 DEF StacksInStep, ToSet, TypeOK
  <2>2. d_nextFree.chunk \in Chunk
    BY <1>1, <2>1 DEF StacksInStep, TypeOK, Pointer, ChunksOwned
  <2> QED  BY <1>1, <2>2 DEF Block
<1>3. /\ live' = Append(live, b)
      /\ d_nextFree' = [d_nextFree EXCEPT !.off = d_nextFree.off + size]
      /\ UNCHANGED <<heap, d_chunkList, d_freeChunks, d_endChunk, d_indexChunkList,
                     d_nextFreeStack, d_endChunkStack, d_indexChunkListStack, marks, mode>>
  BY DEF NewDataFits, stacks
<1>4. /\ live' \in Seq(Block) /\ Len(live') = n + 1 /\ live'[n + 1] = b
      /\ \A i \in 1..n : live'[i] = live[i]
  BY <1>1, <1>2, <1>3, AppendFacts DEF TypeOK
<1>5. /\ d_nextFree' \in Pointer /\ d_nextFree'.chunk = d_nextFree.chunk
      /\ d_nextFree'.off = d_nextFree.off + size
  <2>1. d_nextFree \in [chunk : Chunk \cup {NULL}, off : Nat]
    BY <1>1 DEF TypeOK, Pointer
  <2>2. d_nextFree.off + size \in Nat
    BY <1>1
  <2> QED  BY <1>3, <2>1, <2>2 DEF Pointer
<1>6. TypeOK' /\ ChunksOwned'
  BY <1>1, <1>3, <1>4, <1>5 DEF TypeOK, ChunksOwned
<1>7. StacksInStep'
  BY <1>1, <1>3, <1>5 DEF StacksInStep
<1>8. /\ b.chunk = d_nextFree.chunk /\ b.off = d_nextFree.off /\ b.size = size
      /\ b.at = d_indexChunkList
  OBVIOUS
<1>9. \A i \in 1..n : live[i].off \in Nat /\ live[i].size \in Nat /\ live[i].at \in Nat
  BY <1>1, BlockFields DEF TypeOK
<1> HIDE DEF b
<1>10. \A i \in 1..(n + 1) : i \in 1..n \/ i = n + 1
  BY <1>1
<1>11. Placed'
  <2>1. ASSUME NEW i \in 1..(n + 1)
        PROVE  /\ live'[i].chunk \in Chunk
               /\ live'[i].at <= d_indexChunkList
               /\ live'[i].chunk = d_chunkList[live'[i].at + 1]
               /\ live'[i].off + live'[i].size <= chunkSizeBytes
               /\ NotAfter(live'[i].at, live'[i].off + live'[i].size,
                           d_indexChunkList, d_nextFree'.off)
    <3>1. CASE i \in 1..n
      <4>1. NotAfter(live[i].at, live[i].off + live[i].size,
                     d_indexChunkList, d_nextFree.off)
        BY <1>1, <3>1 DEF Placed
      <4>2. NotAfter(live[i].at, live[i].off + live[i].size,
                     d_indexChunkList, d_nextFree.off + size)
        BY <1>1, <1>9, <3>1, <4>1 DEF NotAfter
      <4> QED  BY <1>1, <1>4, <1>5, <3>1, <4>2 DEF Placed
    <3>2. CASE i = n + 1
      BY <1>1, <1>2, <1>4, <1>5, <1>8, <3>2 DEF StacksInStep, NotAfter
    <3> QED  BY <1>10, <3>1, <3>2
  <2>2. ASSUME NEW i \in 1..(n + 1), NEW j \in 1..(n + 1), i < j
        PROVE  NotAfter(live'[i].at, live'[i].off + live'[i].size,
                        live'[j].at, live'[j].off)
    <3>1. i \in 1..n
      BY <1>1, <2>2
    <3>2. CASE j \in 1..n
      BY <1>1, <1>4, <2>2, <3>1, <3>2 DEF Placed
    <3>3. CASE j = n + 1
      BY <1>1, <1>4, <1>8, <3>1, <3>3 DEF Placed
    <3> QED  BY <1>10, <3>2, <3>3
  <2> QED  BY <1>3, <1>4, <2>1, <2>2 DEF Placed
<1>12. Marked'
  <2>1. ASSUME NEW k \in 1..Len(marks)
        PROVE  /\ marks[k] <= n + 1
               /\ \A i \in 1..marks[k] : live'[i] = live[i]
    BY <1>1, <1>4 DEF Marked, TypeOK
  <2> QED  BY <1>1, <1>3, <1>4, <2>1 DEF Marked
<1> QED  BY <1>1, <1>3, <1>6, <1>7, <1>11, <1>12 DEF Inv

\* What was in place stays in place when a chunk is appended to d_chunkList.
LEMMA AppendChunk ==
  ASSUME Inv, mode = "run", NEW c \in Chunk \cup {NULL}, c \notin ToSet(d_chunkList),
         d_chunkList' = Append(d_chunkList, c),
         d_indexChunkList' = d_indexChunkList + 1,
         UNCHANGED <<d_nextFreeStack, d_endChunkStack, d_indexChunkListStack, marks>>
  PROVE  /\ d_chunkList' \in Seq(Chunk \cup {NULL})
         /\ Len(d_chunkList') = d_indexChunkList' + 1
         /\ d_chunkList'[d_indexChunkList' + 1] = c
         /\ ToSet(d_chunkList') = ToSet(d_chunkList) \cup {c}
         /\ \A i, j \in 1..Len(d_chunkList') : i # j => d_chunkList'[i] # d_chunkList'[j]
         /\ \A i \in 1..Len(live) :
              /\ live[i].at <= d_indexChunkList'
              /\ live[i].chunk = d_chunkList'[live[i].at + 1]
              /\ \A off : NotAfter(live[i].at, live[i].off + live[i].size,
                                   d_indexChunkList', off)
         /\ \A k \in 1..Len(marks) :
              /\ d_indexChunkListStack[k] <= d_indexChunkList'
              /\ d_nextFreeStack[k].chunk = d_chunkList'[d_indexChunkListStack[k] + 1]
<1> DEFINE n == Len(d_chunkList)
<1>1. /\ TypeOK /\ ChunksOwned /\ StacksInStep /\ Placed /\ Marked
      /\ d_chunkList \in Seq(Chunk \cup {NULL}) /\ n \in Nat /\ d_indexChunkList \in Nat
      /\ n = d_indexChunkList + 1
  BY DEF Inv, TypeOK, StacksInStep
<1>2. /\ d_chunkList' \in Seq(Chunk \cup {NULL}) /\ Len(d_chunkList') = n + 1
      /\ d_chunkList'[n + 1] = c /\ \A i \in 1..n : d_chunkList'[i] = d_chunkList[i]
      /\ ToSet(d_chunkList') = ToSet(d_chunkList) \cup {c}
  BY <1>1, AppendFacts
<1>3. \A i \in 1..n : d_chunkList[i] \in ToSet(d_chunkList)
  BY <1>1 DEF ToSet
<1>4. ASSUME NEW i \in 1..(n + 1), NEW j \in 1..(n + 1), i # j
      PROVE  d_chunkList'[i] # d_chunkList'[j]
  <2>1. CASE i \in 1..n /\ j \in 1..n
    BY <1>1, <1>2, <1>4, <2>1 DEF ChunksOwned
  <2>2. CASE i = n + 1
    <3>1. j \in 1..n
      BY <1>1, <1>4, <2>2
    <3> QED  BY <1>2, <1>3, <2>2, <3>1
  <2>3. CASE j = n + 1
    <3>1. i \in 1..n
      BY <1>1, <1>4, <2>3
    <3> QED  BY <1>2, <1>3, <2>3, <3>1
  <2> QED  BY <1>1, <2>1, <2>2, <2>3
<1>5. ASSUME NEW i \in 1..Len(live)
      PROVE  /\ live[i].at <= d_indexChunkList'
             /\ live[i].chunk = d_chunkList'[live[i].at + 1]
             /\ \A off : NotAfter(live[i].at, live[i].off + live[i].size,
                                  d_indexChunkList', off)
  <2>1. live[i].at \in Nat /\ live[i].at <= d_indexChunkList
    BY <1>1, BlockFields DEF Placed, TypeOK
  <2>2. live[i].at + 1 \in 1..n /\ live[i].at < d_indexChunkList'
    BY <1>1, <2>1
  <2>3. live[i].chunk = d_chunkList[live[i].at + 1]
    BY <1>1 DEF Placed
  <2> QED  BY <1>1, <1>2, <2>1, <2>2, <2>3 DEF NotAfter
<1>6. ASSUME NEW k \in 1..Len(marks)
      PROVE  /\ d_indexChunkListStack[k] <= d_indexChunkList'
             /\ d_nextFreeStack[k].chunk = d_chunkList'[d_indexChunkListStack[k] + 1]
  <2>1. d_indexChunkListStack[k] \in Nat /\ d_indexChunkListStack[k] <= d_indexChunkList
    BY <1>1 DEF Marked, StacksInStep, TypeOK
  <2>2. d_indexChunkListStack[k] + 1 \in 1..n
    BY <1>1, <2>1
  <2>3. d_nextFreeStack[k].chunk = d_chunkList[d_indexChunkListStack[k] + 1]
    BY <1>1 DEF Marked
  <2> QED  BY <1>1, <1>2, <2>1, <2>2, <2>3
<1>7. Len(d_chunkList') = d_indexChunkList' + 1
  BY <1>1, <1>2
<1>8. d_chunkList'[d_indexChunkList' + 1] = c
  BY <1>1, <1>2
<1> QED  BY <1>2, <1>4, <1>5, <1>6, <1>7, <1>8

\* Marked survives, when blocks are only added.
LEMMA MarkedKept ==
  ASSUME Inv, mode = "run", NEW n \in Nat, Len(live') = n, Len(live) <= n,
         \A i \in 1..Len(live) : live'[i] = live[i],
         UNCHANGED <<d_nextFreeStack, d_endChunkStack, d_indexChunkListStack, marks>>,
         \A k \in 1..Len(marks) :
              /\ d_indexChunkListStack[k] <= d_indexChunkList'
              /\ d_nextFreeStack[k].chunk = d_chunkList'[d_indexChunkListStack[k] + 1]
  PROVE  Marked'
<1>1. Marked /\ marks \in Seq(Nat) /\ Len(live) \in Nat
  BY DEF Inv, TypeOK
<1>2. ASSUME NEW k \in 1..Len(marks)
      PROVE  marks[k] <= n /\ \A i \in 1..marks[k] : live'[i] = live[i]
  <2>1. marks[k] \in Nat /\ marks[k] <= Len(live)
    BY <1>1 DEF Marked
  <2> QED  BY <1>1, <2>1
<1> QED  BY <1>1, <1>2 DEF Marked

\* newData into a new chunk preserves it, also for a request larger than a
\* chunk.
LEMMA InChunkInv ==
  ASSUME Inv, NEW size \in Size, NEW c \in Chunk, NewDataInChunk(size, c)
  PROVE  Inv'
<1> DEFINE b == [chunk |-> c, off |-> 0, size |-> size, at |-> d_indexChunkList + 1]
           n == Len(live)
<1>1. /\ TypeOK /\ ChunksOwned /\ StacksInStep /\ Placed /\ Marked /\ mode = "run" /\ mode' = "run"
      /\ size \in Nat \ {0} /\ d_indexChunkList \in Nat /\ chunkSizeBytes \in Nat /\ n \in Nat
      /\ NULL \notin Chunk /\ live \in Seq(Block)
  BY MemoryAssumption DEF Inv, NewDataInChunk, TypeOK
<1>2. /\ d_chunkList' = Append(d_chunkList, c) /\ d_indexChunkList' = d_indexChunkList + 1
      /\ d_endChunk' = c /\ d_nextFree' = [chunk |-> c, off |-> size]
      /\ UNCHANGED <<d_nextFreeStack, d_endChunkStack, d_indexChunkListStack, marks>>
  BY DEF NewDataInChunk, NewChunk, stacks
<1>3. c \notin ToSet(d_chunkList)
  BY <1>1 DEF NewDataInChunk, NewChunk, ChunkFromFree, ChunkFromMalloc, ChunksOwned
<1>4. /\ d_chunkList' \in Seq(Chunk \cup {NULL})
      /\ Len(d_chunkList') = d_indexChunkList' + 1
      /\ d_chunkList'[d_indexChunkList' + 1] = c
      /\ ToSet(d_chunkList') = ToSet(d_chunkList) \cup {c}
      /\ \A i, j \in 1..Len(d_chunkList') : i # j => d_chunkList'[i] # d_chunkList'[j]
  BY <1>1, <1>2, <1>3, AppendChunk
<1>5. \A i \in 1..n :
        /\ live[i].at <= d_indexChunkList'
        /\ live[i].chunk = d_chunkList'[live[i].at + 1]
        /\ \A off : NotAfter(live[i].at, live[i].off + live[i].size, d_indexChunkList', off)
  BY <1>1, <1>2, <1>3, AppendChunk
<1>6. \A k \in 1..Len(marks) :
        /\ d_indexChunkListStack[k] <= d_indexChunkList'
        /\ d_nextFreeStack[k].chunk = d_chunkList'[d_indexChunkListStack[k] + 1]
  BY <1>1, <1>2, <1>3, AppendChunk
<1>7. ChunksOwned'
  <2>1. CASE ChunkFromFree(c)
    BY <1>1, <1>3, <1>4, <2>1 DEF ChunkFromFree, ChunksOwned
  <2>2. CASE ChunkFromMalloc(c)
    BY <1>1, <1>3, <1>4, <2>2 DEF ChunkFromMalloc, ChunksOwned
  <2> QED  BY <2>1, <2>2 DEF NewDataInChunk, NewChunk
<1>8. StacksInStep'
  BY <1>1, <1>2, <1>4 DEF StacksInStep
<1>9. d_nextFree' \in Pointer /\ d_nextFree'.off = size
  BY <1>1, <1>2 DEF Pointer
<1>10. heap' \subseteq Chunk /\ d_freeChunks' \subseteq Chunk \cup {NULL}
  BY <1>1 DEF NewDataInChunk, NewChunk, ChunkFromFree, ChunkFromMalloc, TypeOK
<1>11. CASE size > chunkSizeBytes
  <2>1. live' = live
    BY <1>1, <1>11 DEF NewDataInChunk
  <2>2. TypeOK'
    BY <1>1, <1>2, <1>4, <1>9, <1>10, <2>1 DEF TypeOK
  <2>3. Placed'
    BY <1>1, <1>5, <2>1 DEF Placed
  <2>4. Marked'
    <3>1. Len(live') = n /\ Len(live) <= n /\ \A i \in 1..Len(live) : live'[i] = live[i]
      BY <1>1, <2>1
    <3> QED  BY <1>1, <1>2, <1>6, <3>1, MarkedKept
  <2> QED  BY <1>1, <1>7, <1>8, <2>2, <2>3, <2>4 DEF Inv
<1>12. CASE size <= chunkSizeBytes
  <2>0. b \in Block /\ b.chunk = c /\ b.off = 0 /\ b.size = size /\ b.at = d_indexChunkList + 1
    BY <1>1 DEF Block
  <2> HIDE DEF b
  <2>1. live' = Append(live, b)
    BY <1>12 DEF NewDataInChunk, b
  <2>2. /\ live' \in Seq(Block) /\ Len(live') = n + 1 /\ live'[n + 1] = b
        /\ \A i \in 1..n : live'[i] = live[i]
    BY <1>1, <2>0, <2>1, AppendFacts
  <2>3. TypeOK'
    BY <1>1, <1>2, <1>4, <1>9, <1>10, <2>2 DEF TypeOK
  <2>4. \A i \in 1..(n + 1) : i \in 1..n \/ i = n + 1
    BY <1>1
  <2>5. ASSUME NEW i \in 1..(n + 1)
        PROVE  /\ live'[i].chunk \in Chunk
               /\ live'[i].at <= d_indexChunkList'
               /\ live'[i].chunk = d_chunkList'[live'[i].at + 1]
               /\ live'[i].off + live'[i].size <= chunkSizeBytes
               /\ NotAfter(live'[i].at, live'[i].off + live'[i].size,
                           d_indexChunkList', d_nextFree'.off)
    <3>1. CASE i \in 1..n
      BY <1>1, <1>5, <2>2, <3>1 DEF Placed
    <3>2. CASE i = n + 1
      BY <1>1, <1>2, <1>4, <1>9, <1>12, <2>0, <2>2, <3>2 DEF NotAfter
    <3> QED  BY <2>4, <3>1, <3>2
  <2>6. ASSUME NEW i \in 1..(n + 1), NEW j \in 1..(n + 1), i < j
        PROVE  NotAfter(live'[i].at, live'[i].off + live'[i].size,
                        live'[j].at, live'[j].off)
    <3>1. i \in 1..n
      BY <1>1, <2>6
    <3>2. CASE j \in 1..n
      BY <1>1, <2>2, <2>6, <3>1, <3>2 DEF Placed
    <3>3. CASE j = n + 1
      BY <1>2, <1>5, <2>0, <2>2, <3>1, <3>3
    <3> QED  BY <2>4, <3>2, <3>3
  <2>7. Placed'
    BY <2>2, <2>5, <2>6 DEF Placed
  <2>8. Marked'
    <3>1. n + 1 \in Nat /\ n <= n + 1
      BY <1>1
    <3> QED  BY <1>1, <1>2, <1>6, <2>2, <3>1, MarkedKept
  <2> QED  BY <1>1, <1>7, <1>8, <2>3, <2>7, <2>8 DEF Inv
<1> QED  BY <1>1, <1>11, <1>12

\* newData that ends with bad_alloc preserves it.
LEMMA ThrowsInv == ASSUME Inv, NEW size \in Size, NewDataThrows(size) PROVE Inv'
<1>1. /\ TypeOK /\ ChunksOwned /\ StacksInStep /\ Placed /\ Marked /\ mode = "run" /\ mode' = "thrown"
      /\ size \in Nat \ {0} /\ d_indexChunkList \in Nat
      /\ NULL \notin Chunk /\ NULL \notin ToSet(d_chunkList) /\ NULL \in Chunk \cup {NULL}
  BY MemoryAssumption DEF Inv, NewDataThrows, TypeOK, ChunksOwned
<1>2. /\ d_chunkList' = Append(d_chunkList, NULL) /\ d_indexChunkList' = d_indexChunkList + 1
      /\ UNCHANGED <<d_nextFreeStack, d_endChunkStack, d_indexChunkListStack, marks>>
      /\ UNCHANGED <<heap, d_freeChunks, d_endChunk, live>> /\ d_freeChunks = {}
      /\ d_nextFree' = [d_nextFree EXCEPT !.off = d_nextFree.off + size]
  BY DEF NewDataThrows, stacks
<1>3. /\ d_chunkList' \in Seq(Chunk \cup {NULL})
      /\ Len(d_chunkList') = d_indexChunkList' + 1
      /\ ToSet(d_chunkList') = ToSet(d_chunkList) \cup {NULL}
      /\ \A i, j \in 1..Len(d_chunkList') : i # j => d_chunkList'[i] # d_chunkList'[j]
  BY <1>1, <1>2, AppendChunk
<1>4. \A i \in 1..Len(live) :
        /\ live[i].at <= d_indexChunkList'
        /\ live[i].chunk = d_chunkList'[live[i].at + 1]
        /\ \A off : NotAfter(live[i].at, live[i].off + live[i].size, d_indexChunkList', off)
  BY <1>1, <1>2, AppendChunk
<1>5. \A k \in 1..Len(marks) :
        /\ d_indexChunkListStack[k] <= d_indexChunkList'
        /\ d_nextFreeStack[k].chunk = d_chunkList'[d_indexChunkListStack[k] + 1]
  BY <1>1, <1>2, AppendChunk
<1>6. d_nextFree' \in Pointer /\ d_nextFree'.chunk = d_nextFree.chunk
  <2>1. d_nextFree \in [chunk : Chunk \cup {NULL}, off : Nat]
    BY <1>1 DEF TypeOK, Pointer
  <2>2. d_nextFree.off + size \in Nat
    BY <1>1, <2>1
  <2> QED  BY <1>2, <2>1, <2>2 DEF Pointer
<1>7. TypeOK'
  BY <1>1, <1>2, <1>3, <1>6 DEF TypeOK
<1>8. ChunksOwned'
  BY <1>1, <1>2, <1>3 DEF ChunksOwned
<1>9. StacksInStep'
  BY <1>1, <1>2, <1>3, <1>6 DEF StacksInStep
<1>10. Placed'
  BY <1>1, <1>2, <1>4 DEF Placed
<1>11. Marked'
  <2> DEFINE n == Len(live)
  <2>1. n \in Nat
    BY <1>1 DEF TypeOK
  <2>2. Len(live') = n /\ Len(live) <= n /\ \A i \in 1..Len(live) : live'[i] = live[i]
    BY <1>2, <2>1
  <2> HIDE DEF n
  <2> QED  BY <1>1, <1>2, <1>5, <2>1, <2>2, MarkedKept
<1> QED  BY <1>1, <1>7, <1>8, <1>9, <1>10, <1>11 DEF Inv

\* push() preserves it: the three stacks grow together.
LEMMA PushInv == ASSUME Inv, Push PROVE Inv'
<1> DEFINE n == Len(marks)
<1>1. /\ TypeOK /\ ChunksOwned /\ StacksInStep /\ Placed /\ Marked /\ mode = "run"
      /\ n \in Nat /\ Len(live) \in Nat /\ d_indexChunkList \in Nat
  BY DEF Inv, Push, TypeOK
<1>2. UNCHANGED <<heap, d_chunkList, d_freeChunks, d_nextFree, d_endChunk,
                  d_indexChunkList, mode, live>>
  BY DEF Push
<1>3. /\ marks' \in Seq(Nat) /\ Len(marks') = n + 1 /\ marks'[n + 1] = Len(live)
      /\ \A k \in 1..n : marks'[k] = marks[k]
  BY <1>1, AppendFacts DEF TypeOK, Push
<1>4. /\ d_nextFreeStack' \in Seq(Pointer) /\ Len(d_nextFreeStack') = n + 1
      /\ d_nextFreeStack'[n + 1] = d_nextFree
      /\ \A k \in 1..n : d_nextFreeStack'[k] = d_nextFreeStack[k]
  BY <1>1, AppendFacts DEF TypeOK, Push, StacksInStep
<1>5. /\ d_endChunkStack' \in Seq(Chunk) /\ Len(d_endChunkStack') = n + 1
      /\ d_endChunkStack'[n + 1] = d_endChunk
      /\ \A k \in 1..n : d_endChunkStack'[k] = d_endChunkStack[k]
  BY <1>1, AppendFacts DEF TypeOK, Push, StacksInStep
<1>6. /\ d_indexChunkListStack' \in Seq(Nat) /\ Len(d_indexChunkListStack') = n + 1
      /\ d_indexChunkListStack'[n + 1] = d_indexChunkList
      /\ \A k \in 1..n : d_indexChunkListStack'[k] = d_indexChunkListStack[k]
  BY <1>1, AppendFacts DEF TypeOK, Push, StacksInStep
<1>7. TypeOK' /\ ChunksOwned'
  BY <1>1, <1>2, <1>3, <1>4, <1>5, <1>6 DEF TypeOK, ChunksOwned
<1>8. StacksInStep' /\ Placed'
  BY <1>1, <1>2, <1>3, <1>4, <1>5, <1>6 DEF StacksInStep, Placed
<1>9. \A k \in 1..(n + 1) : k \in 1..n \/ k = n + 1
  BY <1>1
<1>10. ASSUME NEW k \in 1..(n + 1)
       PROVE  /\ marks'[k] <= Len(live)
              /\ d_indexChunkListStack'[k] <= d_indexChunkList
              /\ d_nextFreeStack'[k].chunk = d_chunkList[d_indexChunkListStack'[k] + 1]
              /\ d_endChunkStack'[k] = d_nextFreeStack'[k].chunk
              /\ \A i \in 1..marks'[k] :
                   NotAfter(live[i].at, live[i].off + live[i].size,
                            d_indexChunkListStack'[k], d_nextFreeStack'[k].off)
  <2>1. CASE k \in 1..n
    BY <1>1, <1>3, <1>4, <1>5, <1>6, <2>1 DEF Marked
  <2>2. CASE k = n + 1
    BY <1>1, <1>3, <1>4, <1>5, <1>6, <2>2 DEF StacksInStep, Placed
  <2> QED  BY <1>9, <2>1, <2>2
<1>11. ASSUME NEW k \in 1..(n + 1), NEW m \in 1..(n + 1), k < m
       PROVE  /\ marks'[k] <= marks'[m]
              /\ d_indexChunkListStack'[k] <= d_indexChunkListStack'[m]
  <2>1. k \in 1..n
    BY <1>1, <1>11
  <2>2. CASE m \in 1..n
    BY <1>1, <1>3, <1>6, <1>11, <2>1, <2>2 DEF Marked
  <2>3. CASE m = n + 1
    BY <1>1, <1>3, <1>6, <2>1, <2>3 DEF Marked
  <2> QED  BY <1>9, <2>2, <2>3
<1>12. Marked'
  BY <1>2, <1>3, <1>10, <1>11 DEF Marked
<1> QED  BY <1>1, <1>2, <1>7, <1>8, <1>12 DEF Inv

\* pop hands the chunks after index idx to the free list and frees some of
\* those: the chunks that remain are still owned by exactly one list.
LEMMA PopChunks ==
  ASSUME Inv, NEW idx \in Nat, idx + 1 <= Len(d_chunkList),
         d_indexChunkListStack # <<>>, Last(d_indexChunkListStack) = idx,
         d_chunkList' = SubSeq(d_chunkList, 1, idx + 1),
         DeleteExcess(d_freeChunks \cup NewChunks),
         mode' = mode
  PROVE  /\ ChunksOwned'
         /\ d_chunkList' \in Seq(Chunk \cup {NULL})
         /\ Len(d_chunkList') = idx + 1
         /\ \A i \in 1..(idx + 1) : d_chunkList'[i] = d_chunkList[i]
         /\ heap' \subseteq Chunk
         /\ d_freeChunks' \subseteq Chunk \cup {NULL}
<1> DEFINE n == Len(d_chunkList)
<1>1. /\ TypeOK /\ ChunksOwned /\ n \in Nat
      /\ d_chunkList \in Seq(Chunk \cup {NULL}) /\ idx + 1 \in 0..n
  <2>1. TypeOK /\ ChunksOwned
    BY DEF Inv
  <2>2. d_chunkList \in Seq(Chunk \cup {NULL}) /\ n \in Nat
    BY <2>1 DEF TypeOK
  <2> QED  BY <2>1, <2>2
<1>2. /\ d_chunkList' \in Seq(Chunk \cup {NULL}) /\ Len(d_chunkList') = idx + 1
      /\ \A i \in 1..(idx + 1) : d_chunkList'[i] = d_chunkList[i]
      /\ ToSet(d_chunkList') = {d_chunkList[i] : i \in 1..(idx + 1)}
  BY <1>1, PrefixFacts
<1>3. NewChunks = {d_chunkList[i] : i \in (idx + 2)..n}
  BY DEF NewChunks
<1>4. ToSet(d_chunkList) = {d_chunkList[i] : i \in 1..n}
  BY <1>1 DEF ToSet
<1>5. ToSet(d_chunkList) = ToSet(d_chunkList') \cup NewChunks
  <2>1. \A i \in 1..n : i \in 1..(idx + 1) \/ i \in (idx + 2)..n
    BY <1>1
  <2>2. \A i \in 1..(idx + 1) : i \in 1..n
    BY <1>1
  <2>3. \A i \in (idx + 2)..n : i \in 1..n
    BY <1>1
  <2> QED  BY <1>2, <1>3, <1>4, <2>1, <2>2, <2>3
<1>6. ToSet(d_chunkList') \cap NewChunks = {}
  <2>1. \A i \in 1..(idx + 1), j \in (idx + 2)..n : i \in 1..n /\ j \in 1..n /\ i # j
    BY <1>1
  <2>2. \A i \in 1..(idx + 1), j \in (idx + 2)..n : d_chunkList[i] # d_chunkList[j]
    BY <1>1, <2>1 DEF ChunksOwned
  <2> QED  BY <1>2, <1>3, <2>2
<1>7. PICK keep \in SUBSET (d_freeChunks \cup NewChunks) :
        /\ d_freeChunks' = keep
        /\ heap' = heap \ ((d_freeChunks \cup NewChunks) \ keep)
  BY DEF DeleteExcess
<1>8. \A i, j \in 1..Len(d_chunkList') : i # j => d_chunkList'[i] # d_chunkList'[j]
  <2>1. \A i \in 1..(idx + 1) : i \in 1..n
    BY <1>1
  <2> QED  BY <1>1, <1>2, <2>1 DEF ChunksOwned
<1>9. /\ heap = (ToSet(d_chunkList) \cup d_freeChunks) \ {NULL}
      /\ ToSet(d_chunkList) \cap d_freeChunks = {}
      /\ mode = "run" => NULL \notin ToSet(d_chunkList) \cup d_freeChunks
  BY <1>1 DEF ChunksOwned
<1>10. ToSet(d_chunkList') \cap d_freeChunks' = {}
  BY <1>5, <1>6, <1>7, <1>9
<1>11. heap' = (ToSet(d_chunkList') \cup d_freeChunks') \ {NULL}
  BY <1>5, <1>6, <1>7, <1>9
<1>12. mode' = "run" => NULL \notin ToSet(d_chunkList') \cup d_freeChunks'
  BY <1>5, <1>7, <1>9
<1>13. ChunksOwned'
  BY <1>8, <1>10, <1>11, <1>12 DEF ChunksOwned
<1>14. ToSet(d_chunkList) \subseteq Chunk \cup {NULL}
  BY <1>1, <1>4, ElementOfSeq
<1>15. heap' \subseteq Chunk /\ d_freeChunks' \subseteq Chunk \cup {NULL}
  BY <1>1, <1>5, <1>7, <1>14 DEF TypeOK
<1> QED  BY <1>2, <1>13, <1>15

\* What the last push saved describes exactly the blocks that pop leaves.
LEMMA PopInv == ASSUME Inv, Pop PROVE Inv'
<1> DEFINE n == Len(marks)
           idx == d_indexChunkListStack[n]
           m == marks[n]
<1>1. /\ TypeOK /\ ChunksOwned /\ StacksInStep /\ Placed /\ Marked /\ mode \in {"run", "thrown"}
      /\ mode' = mode /\ marks \in Seq(Nat) /\ marks # <<>>
  BY DEF Inv, Pop, TypeOK
<1>2. /\ n \in Nat \ {0} /\ n \in 1..n /\ Last(marks) = m /\ m \in Nat
      /\ marks' \in Seq(Nat) /\ Len(marks') = n - 1
      /\ \A k \in 1..(n - 1) : marks'[k] = marks[k]
  <2>1. marks' = Front(marks)
    BY DEF Pop
  <2>2. /\ n > 0 /\ Last(marks) = m /\ m \in Nat
        /\ marks' \in Seq(Nat) /\ Len(marks') = n - 1
        /\ \A k \in 1..(n - 1) : marks'[k] = marks[k]
    BY <1>1, <2>1, FrontFacts
  <2>3. n \in Nat
    BY <1>1
  <2> QED  BY <2>2, <2>3
<1>3. d_nextFreeStack # <<>> /\ d_endChunkStack # <<>> /\ d_indexChunkListStack # <<>>
  BY <1>1, <1>2 DEF StacksInStep
<1>4. /\ d_nextFree' = d_nextFreeStack[n] /\ d_nextFree' \in Pointer
      /\ d_nextFreeStack' \in Seq(Pointer) /\ Len(d_nextFreeStack') = n - 1
      /\ \A k \in 1..(n - 1) : d_nextFreeStack'[k] = d_nextFreeStack[k]
  BY <1>1, <1>3, FrontFacts DEF Pop, TypeOK, StacksInStep
<1>5. /\ d_endChunk' = d_endChunkStack[n] /\ d_endChunk' \in Chunk
      /\ d_endChunkStack' \in Seq(Chunk) /\ Len(d_endChunkStack') = n - 1
      /\ \A k \in 1..(n - 1) : d_endChunkStack'[k] = d_endChunkStack[k]
  BY <1>1, <1>3, FrontFacts DEF Pop, TypeOK, StacksInStep
<1>6. /\ d_indexChunkList' = idx /\ idx \in Nat /\ Last(d_indexChunkListStack) = idx
      /\ d_indexChunkListStack' \in Seq(Nat) /\ Len(d_indexChunkListStack') = n - 1
      /\ \A k \in 1..(n - 1) : d_indexChunkListStack'[k] = d_indexChunkListStack[k]
  <2>1. /\ d_indexChunkListStack' = Front(d_indexChunkListStack)
        /\ d_indexChunkList' = Last(d_indexChunkListStack)
    BY DEF Pop
  <2>2. d_indexChunkListStack \in Seq(Nat) /\ Len(d_indexChunkListStack) = n
    BY <1>1 DEF TypeOK, StacksInStep
  <2> QED  BY <1>3, <2>1, <2>2, FrontFacts
<1>7. /\ m <= Len(live) /\ idx <= d_indexChunkList
      /\ d_nextFreeStack[n].chunk = d_chunkList[idx + 1]
      /\ d_endChunkStack[n] = d_nextFreeStack[n].chunk
      /\ \A i \in 1..m : NotAfter(live[i].at, live[i].off + live[i].size,
                                   idx, d_nextFreeStack[n].off)
  BY <1>1, <1>2 DEF Marked
<1> HIDE DEF m, idx
<1>8. /\ Len(live) \in Nat /\ live \in Seq(Block) /\ live' = SubSeq(live, 1, m)
      /\ m \in 0..Len(live) /\ \A i \in 1..m : i \in 1..Len(live)
  BY <1>1, <1>2, <1>7 DEF TypeOK, Pop
<1>9. /\ live' \in Seq(Block) /\ Len(live') = m
      /\ \A i \in 1..m : live'[i] = live[i]
  BY <1>8, PrefixFacts
<1>10. idx + 1 <= Len(d_chunkList) /\ d_indexChunkList \in Nat
  BY <1>1, <1>6, <1>7 DEF StacksInStep, TypeOK
<1>11. /\ d_chunkList' = SubSeq(d_chunkList, 1, idx + 1)
       /\ DeleteExcess(d_freeChunks \cup NewChunks)
  BY <1>6 DEF Pop
<1>12. /\ ChunksOwned' /\ d_chunkList' \in Seq(Chunk \cup {NULL})
       /\ Len(d_chunkList') = idx + 1
       /\ \A i \in 1..(idx + 1) : d_chunkList'[i] = d_chunkList[i]
       /\ heap' \subseteq Chunk /\ d_freeChunks' \subseteq Chunk \cup {NULL}
  BY <1>1, <1>3, <1>6, <1>10, <1>11, PopChunks
<1>13. TypeOK'
  BY <1>1, <1>2, <1>4, <1>5, <1>6, <1>9, <1>12 DEF TypeOK
<1>14. StacksInStep'
  <2>1. d_chunkList'[idx + 1] = d_chunkList[idx + 1]
    BY <1>6, <1>12
  <2> QED  BY <1>2, <1>4, <1>5, <1>6, <1>7, <1>12, <2>1 DEF StacksInStep
<1>15. \A i \in 1..m : /\ live[i].at \in Nat /\ live[i].at <= idx
                        /\ live[i].at + 1 \in 1..(idx + 1)
  <2>1. ASSUME NEW i \in 1..m PROVE live[i].at \in Nat /\ live[i].at <= idx
    <3>1. live[i].at \in Nat /\ live[i].off \in Nat /\ live[i].size \in Nat
      BY <1>8, BlockFields
    <3> QED  BY <1>6, <1>7, <3>1 DEF NotAfter
  <2> QED  BY <1>6, <2>1
<1>16. Placed'
  <2>1. ASSUME NEW i \in 1..m
        PROVE  /\ live'[i].chunk \in Chunk
               /\ live'[i].at <= idx
               /\ live'[i].chunk = d_chunkList'[live'[i].at + 1]
               /\ live'[i].off + live'[i].size <= chunkSizeBytes
               /\ NotAfter(live'[i].at, live'[i].off + live'[i].size, idx, d_nextFree'.off)
    BY <1>1, <1>4, <1>7, <1>8, <1>9, <1>12, <1>15 DEF Placed
  <2>2. ASSUME NEW i \in 1..m, NEW j \in 1..m, i < j
        PROVE  NotAfter(live'[i].at, live'[i].off + live'[i].size,
                        live'[j].at, live'[j].off)
    BY <1>1, <1>8, <1>9, <2>2 DEF Placed
  <2> QED  BY <1>6, <1>9, <2>1, <2>2 DEF Placed
<1>17. \A k \in 1..(n - 1) : k \in 1..n /\ k < n
  BY <1>2
<1>18. ASSUME NEW k \in 1..(n - 1)
       PROVE  /\ marks[k] \in Nat /\ marks[k] <= m
              /\ d_indexChunkListStack[k] <= idx
              /\ d_indexChunkListStack[k] + 1 \in 1..(idx + 1)
              /\ \A i \in 1..marks[k] : i \in 1..m
  <2>0. m \in Nat /\ idx \in Nat
    BY <1>2, <1>6
  <2>1. marks[k] \in Nat /\ d_indexChunkListStack[k] \in Nat
    <3>1. /\ d_indexChunkListStack \in Seq(Nat) /\ Len(d_indexChunkListStack) = n
          /\ k \in 1..n
      BY <1>1, <1>17 DEF TypeOK, StacksInStep
    <3> QED  BY <1>1, <3>1
  <2>2. marks[k] <= m /\ d_indexChunkListStack[k] <= idx
    BY <1>1, <1>2, <1>17 DEF Marked, m, idx
  <2>3. d_indexChunkListStack[k] + 1 \in 1..(idx + 1)
    BY <2>0, <2>1, <2>2
  <2>4. \A i \in 1..marks[k] : i \in 1..m
    BY <2>0, <2>1, <2>2
  <2> QED  BY <2>1, <2>2, <2>3, <2>4
<1>19. ASSUME NEW k \in 1..(n - 1)
       PROVE  /\ marks'[k] <= Len(live')
              /\ d_indexChunkListStack'[k] <= d_indexChunkList'
              /\ d_nextFreeStack'[k].chunk = d_chunkList'[d_indexChunkListStack'[k] + 1]
              /\ d_endChunkStack'[k] = d_nextFreeStack'[k].chunk
              /\ \A i \in 1..marks'[k] :
                   NotAfter(live'[i].at, live'[i].off + live'[i].size,
                            d_indexChunkListStack'[k], d_nextFreeStack'[k].off)
  <2>1. /\ d_nextFreeStack[k].chunk = d_chunkList[d_indexChunkListStack[k] + 1]
        /\ d_endChunkStack[k] = d_nextFreeStack[k].chunk
        /\ \A i \in 1..marks[k] : NotAfter(live[i].at, live[i].off + live[i].size,
                                           d_indexChunkListStack[k], d_nextFreeStack[k].off)
    BY <1>1, <1>17 DEF Marked
  <2> QED  BY <1>2, <1>4, <1>5, <1>6, <1>9, <1>12, <1>18, <2>1
<1>20. ASSUME NEW k \in 1..(n - 1), NEW j \in 1..(n - 1), k < j
       PROVE  /\ marks'[k] <= marks'[j]
              /\ d_indexChunkListStack'[k] <= d_indexChunkListStack'[j]
  BY <1>1, <1>2, <1>6, <1>17, <1>20 DEF Marked
<1>21. Marked'
  BY <1>2, <1>19, <1>20 DEF Marked
<1> QED  BY <1>1, <1>12, <1>13, <1>14, <1>16, <1>21 DEF Inv

\* The destructor preserves it: no chunk is left.
LEMMA DestructInv == ASSUME Inv, Destruct PROVE Inv'
<1>1. /\ TypeOK /\ ChunksOwned /\ mode' = "gone" /\ live' = <<>>
      /\ d_chunkList' = <<>> /\ d_freeChunks' = {}
      /\ heap' = heap \ (ToSet(d_chunkList) \cup d_freeChunks)
      /\ UNCHANGED <<d_nextFree, d_endChunk, d_indexChunkList, d_nextFreeStack,
                     d_endChunkStack, d_indexChunkListStack, marks>>
  BY DEF Inv, Destruct, stacks
<1>2. ToSet(d_chunkList') = {} /\ Len(d_chunkList') = 0
  BY <1>1 DEF ToSet
<1>3. heap' = {}
  BY <1>1 DEF ChunksOwned
<1>4. TypeOK'
  BY <1>1, <1>3 DEF TypeOK
<1>5. ChunksOwned'
  BY <1>1, <1>2, <1>3 DEF ChunksOwned
<1> QED  BY <1>1, <1>4, <1>5 DEF Inv

\* Steps that leave the memory manager alone preserve it.
LEMMA StutterInv == ASSUME Inv, UNCHANGED mmvars PROVE Inv'
BY DEF mmvars, Inv, TypeOK, ChunksOwned, StacksInStep, Placed, Marked

\* The invariant holds in every reachable state.
LEMMA SpecInv == Spec => []Inv
<1>1. Inv /\ [Next]_mmvars => Inv'
  <2> SUFFICES ASSUME Inv, [Next]_mmvars PROVE Inv'
    OBVIOUS
  <2>1. CASE UNCHANGED mmvars
    BY <2>1, StutterInv
  <2>2. ASSUME NEW size \in Size, NewDataFits(size) PROVE Inv'
    BY <2>2, FitsInv
  <2>3. ASSUME NEW size \in Size, NEW c \in Chunk, NewDataInChunk(size, c) PROVE Inv'
    BY <2>3, InChunkInv
  <2>4. ASSUME NEW size \in Size, NewDataThrows(size) PROVE Inv'
    BY <2>4, ThrowsInv
  <2>5. CASE Push
    BY <2>5, PushInv
  <2>6. CASE Pop
    BY <2>6, PopInv
  <2>7. CASE Destruct
    BY <2>7, DestructInv
  <2> QED  BY <2>1, <2>2, <2>3, <2>4, <2>5, <2>6, <2>7 DEF Next
<1> QED  BY <1>1, InitInv, PTL DEF Spec
-----------------------------------------------------------------------------
\* Blocks in different positions do not overlap.
LEMMA InvDisjoint == Inv => BlocksDisjoint
<1> SUFFICES ASSUME Inv, NEW i \in 1..Len(live), NEW j \in 1..Len(live), i # j,
                    Overlap(live[i], live[j])
             PROVE  FALSE
  BY DEF BlocksDisjoint
<1>1. Placed /\ ChunksOwned /\ StacksInStep /\ TypeOK /\ Len(live) \in Nat
  <2>1. live # <<>>
    BY DEF Inv, TypeOK
  <2> QED  BY <2>1 DEF Inv, TypeOK
<1>2. \A k \in {i, j} : /\ live[k].off \in Nat /\ live[k].size \in Nat \ {0}
                        /\ live[k].at \in Nat /\ live[k].at <= d_indexChunkList
                        /\ live[k].chunk = d_chunkList[live[k].at + 1]
  BY <1>1, BlockFields DEF Placed, TypeOK
<1>3. live[i].at = live[j].at
  <2>1. live[i].at + 1 \in 1..Len(d_chunkList) /\ live[j].at + 1 \in 1..Len(d_chunkList)
    <3>1. Len(d_chunkList) = d_indexChunkList + 1 /\ d_indexChunkList \in Nat
      BY <1>1 DEF StacksInStep, TypeOK
    <3>2. \A k \in {i, j} : live[k].at \in Nat /\ live[k].at <= d_indexChunkList
      BY <1>2
    <3> QED  BY <3>1, <3>2
  <2>2. d_chunkList[live[i].at + 1] = d_chunkList[live[j].at + 1]
    BY <1>2 DEF Overlap
  <2>3. live[i].at + 1 = live[j].at + 1
    BY <1>1, <2>1, <2>2 DEF ChunksOwned
  <2> QED  BY <1>2, <2>3
<1>4. CASE i < j
  <2>1. live[i].off + live[i].size <= live[j].off
    BY <1>1, <1>2, <1>3, <1>4 DEF Placed, NotAfter
  <2> QED  BY <1>2, <2>1 DEF Overlap
<1>5. CASE j < i
  <2>1. live[j].off + live[j].size <= live[i].off
    BY <1>1, <1>2, <1>3, <1>5 DEF Placed, NotAfter
  <2> QED  BY <1>2, <2>1 DEF Overlap
<1> QED  BY <1>1, <1>4, <1>5

\* The invariant says that blocks lie inside chunks in use.
LEMMA InvInChunks == Inv => BlocksInChunks
<1> SUFFICES ASSUME Inv, NEW i \in 1..Len(live)
             PROVE  /\ live[i].chunk \in heap
                    /\ live[i].chunk \in ToSet(d_chunkList) \ d_freeChunks
                    /\ live[i].off + live[i].size <= chunkSizeBytes
  BY DEF BlocksInChunks
<1>1. Placed /\ ChunksOwned /\ StacksInStep /\ TypeOK
  <2>1. live # <<>>
    BY DEF Inv, TypeOK
  <2> QED  BY <2>1 DEF Inv
<1>2. live[i].at \in Nat /\ live[i].at <= d_indexChunkList
  BY <1>1, BlockFields DEF Placed, TypeOK
<1>3. live[i].at + 1 \in 1..Len(d_chunkList)
  BY <1>1, <1>2 DEF StacksInStep, TypeOK
<1>4. live[i].chunk \in ToSet(d_chunkList) /\ live[i].chunk \in Chunk
  <2>1. d_chunkList[live[i].at + 1] \in ToSet(d_chunkList)
    BY <1>1, <1>3 DEF ToSet, TypeOK
  <2> QED  BY <1>1, <2>1 DEF Placed
<1> QED  BY <1>1, <1>4, MemoryAssumption DEF Placed, ChunksOwned

\* The pointers, the stacks and the lists of chunks of a ContextMemoryManager
\* keep their types, whatever is allocated, pushed and popped.
THEOREM MemoryTypeCorrect == Spec => []TypeOK
<1>1. Inv => TypeOK
  BY DEF Inv
<1> QED  BY <1>1, SpecInv, PTL

\* Blocks handed out by newData never overlap until they are popped, for every
\* number of chunks, chunk size and sequence of requests, the requests that are
\* too big included.
THEOREM BlocksSafe == Spec => []BlocksDisjoint
<1>1. Inv => BlocksDisjoint
  BY InvDisjoint
<1> QED  BY <1>1, SpecInv, PTL

\* Until it is popped, a block lies inside a chunk that is in use: not one that
\* a pop put on the free list, nor one that was freed (newData, push and pop).
THEOREM BlocksContained == Spec => []BlocksInChunks
<1>1. Inv => BlocksInChunks
  BY InvInChunks
<1> QED  BY <1>1, SpecInv, PTL

\* pop and ~ContextMemoryManager neither leak a chunk nor free one twice, and
\* the separately saved d_nextFree and d_endChunk always match.
THEOREM ChunksSafe == Spec => [](ChunksOwned /\ EndOfSameChunk)
<1>1. Inv => ChunksOwned /\ EndOfSameChunk
  BY DEF Inv, StacksInStep, EndOfSameChunk
<1> QED  BY <1>1, SpecInv, PTL

-----------------------------------------------------------------------------
(* NodeManager: the inductive invariant. *)

\* No full count has been sorted, and so none forced.
Unforced == phase \in {"open", "sort"} \/ topo.visited = {}

\* A count is exact until it is full, and then its value is listed.
Exact ==
  \A a \in Live :
    \/ a \in Range(d_maxedOut) /\ Rc(mem, a) = MaxRc
    \/ a \notin Range(d_maxedOut) /\ Rc(mem, a) = References(a) /\ Rc(mem, a) < MaxRc

\* The pool has the values that can be equal to others.
Pooled == pool = {a \in Live : mem[a].kind \notin Variable}

\* Nobody is among the children of its children: every set of values has one
\* that no other of the set refers to.
Acyclic ==
  \A S \in SUBSET Live : S # {} => \E m \in S : \A p \in S : m \notin Range(mem[p].kids)

\* What an operation returns survives the calls of dec that it has still to make,
\* and the collection they may start.
ResultSafe ==
  result # None =>
    /\ result.nv \notin zombies /\ result.key \notin zombies
    /\ result.place = "handle" => held[result.nv] < MaxHeld /\ result.key = result.nv
    /\ result.place = "attribute" => attr[result.key] = None
    /\ \/ todo = <<>>
       \/ \E p \in Live : todo = <<p>> /\ result.nv \in Range(mem[p].kids) /\ result.key = result.nv
       \/ Range(todo) \subseteq Range(mem[result.nv].kids) /\ result.key = result.nv
       \/ held[result.nv] > 0 /\ held[result.key] > 0

\* What is being collected is garbage and recorded nowhere else.  The destructor
\* begins when nothing outside the manager refers to a value.
ControlRight ==
  /\ \A z \in zombies : Rc(mem, z) = 0 /\ z \notin d_zombies
  /\ phase # "open" => /\ todo = <<>> /\ result = None /\ builder = None
                       /\ \A a \in Addr : held[a] = 0 /\ attr[a] = None
  /\ phase = "sort" => zombies = {}
  /\ phase \in {"force", "gone"} => d_maxedOut = <<>>
  /\ phase = "gone" => zombies = {} /\ d_zombies = {}

\* The sort lists full counts only; if there are none it visits nothing.
SortRight ==
  /\ DOMAIN topo = {"index", "stack", "visited", "order"}
  /\ phase \in {"open", "sort"} => Range(topo.order) \subseteq Range(d_maxedOut)
  /\ phase = "open" => topo.visited = {}
  /\ topo.visited = {} =>
       /\ topo.order = <<>>
       /\ \/ topo.stack = <<>> /\ topo.index = 1
          \/ phase = "sort" /\ \E r \in Addr : topo.stack = <<[done |-> FALSE, nv |-> r]>>

FiniteUses == \A a \in Addr : IsFiniteSet(Uses(a))

NodesInv == NodesTypeOK /\ NoDangling /\ Exact /\ Pooled /\ HashConsed /\ NothingLost /\ Acyclic
              /\ ResultSafe /\ ControlRight /\ SortRight /\ FiniteUses

-----------------------------------------------------------------------------
(* How often a value occurs in a sequence. *)

\* Occurrences are counted by a number, which is 0 only if there is none.
LEMMA TimesType ==
  ASSUME NEW S, NEW s \in Seq(S), NEW a
  PROVE  /\ IsFiniteSet(At(a, s))
         /\ Times(a, s) \in Nat
         /\ Times(a, s) = 0 <=> a \notin Range(s)
<1>1. DOMAIN s = 1 .. Len(s) /\ Len(s) \in Nat
  OBVIOUS
<1>2. IsFiniteSet(1 .. Len(s))
  BY <1>1, FS_Interval
<1>3. At(a, s) \subseteq 1 .. Len(s)
  BY <1>1 DEF At
<1>4. IsFiniteSet(At(a, s))
  BY <1>2, <1>3, FS_Subset
<1>5. Cardinality(At(a, s)) \in Nat
  BY <1>4, FS_CardinalityType
<1>6. Cardinality(At(a, s)) = 0 <=> At(a, s) = {}
  BY <1>4, FS_EmptySet
<1>7. At(a, s) = {} <=> a \notin Range(s)
  BY DEF At, Range
<1> QED BY <1>4, <1>5, <1>6, <1>7 DEF Times

\* The sequences that operations make: none, one, one more and one less.
LEMMA TimesEmpty ==
  ASSUME NEW a
  PROVE  Times(a, <<>>) = 0
<1>1. At(a, <<>>) = {}
  BY DEF At
<1> QED BY <1>1, FS_EmptySet DEF Times

\* A value occurs once in the sequence of itself, others not at all.
LEMMA TimesOne ==
  ASSUME NEW a, NEW b
  PROVE  Times(a, <<b>>) = IF b = a THEN 1 ELSE 0
<1>1. CASE b = a
  <2>1. At(a, <<b>>) = {1}
    BY <1>1 DEF At
  <2> QED BY <2>1, <1>1, FS_Singleton DEF Times
<1>2. CASE b # a
  <2>1. At(a, <<b>>) = {}
    BY <1>2 DEF At
  <2> QED BY <2>1, <1>2, FS_EmptySet DEF Times
<1> QED BY <1>1, <1>2

\* push_back adds one occurrence of the element that is appended.
LEMMA TimesAppend ==
  ASSUME NEW S, NEW s \in Seq(S), NEW a, NEW b \in S
  PROVE  Times(a, Append(s, b)) = Times(a, s) + (IF b = a THEN 1 ELSE 0)
<1> DEFINE n == Len(s) + 1
<1>1. /\ DOMAIN s = 1 .. Len(s) /\ Len(s) \in Nat
      /\ DOMAIN Append(s, b) = 1 .. n
      /\ \A i \in 1 .. Len(s) : Append(s, b)[i] = s[i]
      /\ Append(s, b)[n] = b
  OBVIOUS
<1>2. IsFiniteSet(At(a, s)) /\ Times(a, s) \in Nat
  BY TimesType
<1>3. n \notin At(a, s)
  BY <1>1 DEF At
<1>4. CASE b = a
  <2>1. At(a, Append(s, b)) = At(a, s) \cup {n}
    BY <1>1, <1>4 DEF At
  <2>2. Cardinality(At(a, s) \cup {n}) = Cardinality(At(a, s)) + 1
    BY <1>2, <1>3, FS_AddElement
  <2> QED BY <2>1, <2>2, <1>4 DEF Times
<1>5. CASE b # a
  <2>1. At(a, Append(s, b)) = At(a, s)
    BY <1>1, <1>5 DEF At
  <2> QED BY <2>1, <1>2, <1>5 DEF Times
<1> QED BY <1>4, <1>5

\* The call of dec that is made is one occurrence less.
LEMMA TimesTail ==
  ASSUME NEW S, NEW s \in Seq(S), s # <<>>, NEW a
  PROVE  Times(a, s) = Times(a, Tail(s)) + (IF Head(s) = a THEN 1 ELSE 0)
<1>1. /\ DOMAIN s = 1 .. Len(s) /\ Len(s) \in Nat \ {0}
      /\ Tail(s) \in Seq(S) /\ Head(s) = s[1]
      /\ DOMAIN Tail(s) = 1 .. Len(s) - 1
      /\ \A i \in 1 .. Len(s) - 1 : Tail(s)[i] = s[i + 1]
  OBVIOUS
<1> DEFINE T == At(a, Tail(s))
           U == At(a, s) \ {1}
           f == [i \in T |-> i + 1]
<1>2. IsFiniteSet(At(a, s)) /\ Times(a, s) \in Nat /\ IsFiniteSet(T) /\ Times(a, Tail(s)) \in Nat
  BY <1>1, TimesType
<1>3. /\ \A i \in T : i + 1 \in U
      /\ \A i, j \in T : i + 1 = j + 1 => i = j
      /\ \A k \in U : k - 1 \in T /\ (k - 1) + 1 = k
  BY <1>1 DEF At
<1>4. f \in Bijection(T, U)
  <2>1. f \in [T -> U]
    BY <1>3
  <2>2. \A i, j \in T : f[i] = f[j] => i = j
    BY <1>3
  <2>3. \A k \in U : \E i \in T : f[i] = k
    BY <1>3
  <2> HIDE DEF f, T, U
  <2> QED BY <2>1, <2>2, <2>3 DEF Bijection, Injection, Surjection, IsInjective
<1>5. Cardinality(U) = Cardinality(T)
  BY <1>2, <1>4, FS_Bijection DEF ExistsBijection
<1>6. Cardinality(U) = IF 1 \in At(a, s) THEN Cardinality(At(a, s)) - 1 ELSE Cardinality(At(a, s))
  BY <1>2, FS_RemoveElement
<1>7. 1 \in At(a, s) <=> Head(s) = a
  BY <1>1 DEF At
<1> QED BY <1>2, <1>5, <1>6, <1>7 DEF Times

\* The uses of a by one parent are as many as its occurrences among the children.
LEMMA ByOneParent ==
  ASSUME NEW S, NEW s \in Seq(S), NEW a, NEW p
  PROVE  /\ IsFiniteSet({p} \X At(a, s))
         /\ Cardinality({p} \X At(a, s)) = Times(a, s)
<1> DEFINE T == At(a, s)
           U == {p} \X T
           f == [i \in T |-> <<p, i>>]
<1>1. IsFiniteSet(T)
  BY TimesType
<1>2. f \in [T -> U] /\ (\A i, j \in T : f[i] = f[j] => i = j) /\ (\A u \in U : \E i \in T : f[i] = u)
  OBVIOUS
<1>3. ExistsBijection(T, U)
  <2> HIDE DEF f, T, U
  <2> QED BY <1>2 DEF ExistsBijection, Bijection, Injection, Surjection, IsInjective
<1> QED BY <1>1, <1>3, FS_Bijection DEF Times

-----------------------------------------------------------------------------
(* The references to a value. *)

\* References are counted by numbers.
LEMMA ReferencesType ==
  ASSUME NodeManagerAssumption, NodesTypeOK, FiniteUses, NEW a \in Addr
  PROVE  /\ held[a] \in Nat
         /\ Times(a, todo) \in Nat
         /\ InBuilder(a) \in Nat
         /\ IsFiniteSet(Keys(a)) /\ Cardinality(Keys(a)) \in Nat
         /\ Cardinality(Uses(a)) \in Nat
         /\ References(a) \in Nat
<1>1. held[a] \in Nat
  BY DEF NodesTypeOK
<1>2. Times(a, todo) \in Nat
  BY TimesType DEF NodesTypeOK
<1>3. InBuilder(a) \in Nat
  <2>1. CASE builder = None
    BY <2>1 DEF InBuilder
  <2>2. CASE builder # None
    <3>1. builder.kids \in Seq(Addr)
      BY <2>2 DEF NodesTypeOK
    <3> QED BY <3>1, <2>2, TimesType DEF InBuilder
  <2> QED BY <2>1, <2>2
<1>4. IsFiniteSet(Keys(a))
  <2>1. IsFiniteSet(Addr) /\ Keys(a) \subseteq Addr
    BY DEF NodeManagerAssumption, Keys
  <2> QED BY <2>1, FS_Subset
<1>5. Cardinality(Keys(a)) \in Nat
  BY <1>4, FS_CardinalityType
<1>6. Cardinality(Uses(a)) \in Nat
  BY FS_CardinalityType DEF FiniteUses
<1>7. References(a) \in Nat
  BY <1>1, <1>2, <1>3, <1>5, <1>6 DEF References
<1> QED BY <1>1, <1>2, <1>3, <1>4, <1>5, <1>6, <1>7

\* What refers to a value is counted.
LEMMA Unreferred ==
  ASSUME NodeManagerAssumption, NodesTypeOK, FiniteUses, NEW a \in Addr, References(a) = 0
  PROVE  /\ held[a] = 0
         /\ a \notin Range(todo)
         /\ builder # None => a \notin Range(builder.kids)
         /\ \A k \in Addr : attr[k] # a
         /\ \A p \in Live : a \notin Range(mem[p].kids)
<1>0. /\ held[a] \in Nat /\ Times(a, todo) \in Nat /\ InBuilder(a) \in Nat
      /\ Cardinality(Keys(a)) \in Nat /\ Cardinality(Uses(a)) \in Nat
  BY ReferencesType
<1>1. /\ held[a] = 0 /\ Times(a, todo) = 0 /\ InBuilder(a) = 0
      /\ Cardinality(Keys(a)) = 0 /\ Cardinality(Uses(a)) = 0
  <2> DEFINE h == held[a]
             t == Times(a, todo)
             b == InBuilder(a)
             k == Cardinality(Keys(a))
             u == Cardinality(Uses(a))
  <2>1. /\ h \in Nat /\ t \in Nat /\ b \in Nat /\ k \in Nat /\ u \in Nat
        /\ h + t + b + k + u = 0
    BY <1>0 DEF References
  <2>2. h = 0 /\ t = 0 /\ b = 0 /\ k = 0 /\ u = 0
    <3> HIDE DEF h, t, b, k, u
    <3> QED BY <2>1
  <2> QED BY <2>2
<1>2. a \notin Range(todo)
  BY <1>1, TimesType DEF NodesTypeOK
<1>3. builder # None => a \notin Range(builder.kids)
  <2> SUFFICES ASSUME builder # None PROVE a \notin Range(builder.kids)
    OBVIOUS
  <2>1. builder.kids \in Seq(Addr)
    BY DEF NodesTypeOK
  <2> QED BY <2>1, <1>1, TimesType DEF InBuilder
<1>4. Keys(a) = {}
  BY <1>1, ReferencesType, FS_EmptySet
<1>5. Uses(a) = {}
  BY <1>1, FS_EmptySet DEF FiniteUses
<1>6. \A k \in Addr : attr[k] # a
  BY <1>4 DEF Keys
<1>7. \A p \in Live : a \notin Range(mem[p].kids)
  <2> SUFFICES ASSUME NEW p \in Live, NEW i \in DOMAIN mem[p].kids, mem[p].kids[i] = a
               PROVE  FALSE
    BY DEF Range
  <2>1. <<p, i>> \in {p} \X At(a, mem[p].kids)
    BY DEF At
  <2>2. <<p, i>> \in Uses(a)
    BY <2>1 DEF Uses
  <2> QED BY <2>2, <1>5
<1> QED BY <1>1, <1>2, <1>3, <1>6, <1>7

\* One attribute is deleted, or one is set.
LEMMA KeysSet ==
  ASSUME NodeManagerAssumption, NodesTypeOK, NEW k \in Addr, NEW a \in Addr
  PROVE  /\ attr' = [attr EXCEPT ![k] = None] =>
              Cardinality(Keys(a)') = Cardinality(Keys(a)) - (IF attr[k] = a THEN 1 ELSE 0)
         /\ \A v \in Addr : attr[k] = None /\ attr' = [attr EXCEPT ![k] = v] =>
              Cardinality(Keys(a)') = Cardinality(Keys(a)) + (IF v = a THEN 1 ELSE 0)
<1>1. IsFiniteSet(Keys(a)) /\ Cardinality(Keys(a)) \in Nat
  <2>1. IsFiniteSet(Addr) /\ Keys(a) \subseteq Addr
    BY DEF NodeManagerAssumption, Keys
  <2> QED BY <2>1, FS_Subset, FS_CardinalityType
<1>2. attr \in [Addr -> Addr \cup {None}] /\ a # None
  BY DEF NodesTypeOK, NodeManagerAssumption
<1>3. ASSUME attr' = [attr EXCEPT ![k] = None]
      PROVE  Cardinality(Keys(a)') = Cardinality(Keys(a)) - (IF attr[k] = a THEN 1 ELSE 0)
  <2>1. Keys(a)' = Keys(a) \ {k} /\ (k \in Keys(a) <=> attr[k] = a)
    BY <1>2, <1>3 DEF Keys
  <2>2. Cardinality(Keys(a) \ {k}) = IF k \in Keys(a) THEN Cardinality(Keys(a)) - 1 ELSE Cardinality(Keys(a))
    BY <1>1, FS_RemoveElement
  <2>3. Cardinality(Keys(a)') = Cardinality(Keys(a) \ {k})
    BY <2>1
  <2>4. CASE attr[k] = a
    BY <2>1, <2>2, <2>3, <2>4
  <2>5. CASE attr[k] # a
    BY <1>1, <2>1, <2>2, <2>3, <2>5
  <2> QED BY <2>4, <2>5
<1>4. ASSUME NEW v \in Addr, attr[k] = None, attr' = [attr EXCEPT ![k] = v]
      PROVE  Cardinality(Keys(a)') = Cardinality(Keys(a)) + (IF v = a THEN 1 ELSE 0)
  <2>1. CASE v = a
    <3>1. Keys(a)' = Keys(a) \cup {k} /\ k \notin Keys(a)
      BY <1>2, <1>4, <2>1 DEF Keys
    <3> QED BY <3>1, <1>1, <2>1, FS_AddElement
  <2>2. CASE v # a
    <3>1. Keys(a)' = Keys(a)
      BY <1>2, <1>4, <2>2 DEF Keys
    <3> QED BY <3>1, <1>1, <2>2
  <2> QED BY <2>1, <2>2
<1> QED BY <1>3, <1>4

\* The values and what they are stay the same; only counts may change.
SameNodes == /\ Live' = Live
             /\ \A a \in Live : mem'[a].kind = mem[a].kind /\ mem'[a].kids = mem[a].kids

\* Steps that leave kinds and children alone leave the structure alone.
LEMMA UsesSame ==
  ASSUME SameNodes
  PROVE  /\ \A a \in Addr : Uses(a)' = Uses(a)
         /\ FiniteUses => FiniteUses'
         /\ HashConsed => HashConsed'
         /\ Acyclic => Acyclic'
         /\ pool' = pool /\ Pooled => Pooled'
<1>1. \A a \in Addr : Uses(a)' = Uses(a)
  BY DEF SameNodes, Uses
<1>2. FiniteUses => FiniteUses'
  BY <1>1 DEF FiniteUses
<1>3. HashConsed => HashConsed'
  BY DEF SameNodes, HashConsed
<1>4. Acyclic => Acyclic'
  <2> SUFFICES ASSUME Acyclic, NEW S \in SUBSET Live, S # {}
               PROVE  \E m \in S : \A p \in S : m \notin Range(mem'[p].kids)
    BY DEF Acyclic, SameNodes
  <2>1. PICK m \in S : \A p \in S : m \notin Range(mem[p].kids)
    BY DEF Acyclic
  <2>2. \A p \in S : m \notin Range(mem'[p].kids)
    BY <2>1 DEF SameNodes
  <2> QED BY <2>2
<1>5. pool' = pool /\ Pooled => Pooled'
  BY DEF SameNodes, Pooled
<1> QED BY <1>1, <1>2, <1>3, <1>4, <1>5

-----------------------------------------------------------------------------
(* Counting up and down. *)

\* inc changes one count and nothing else.
LEMMA IncMemory ==
  ASSUME NodeManagerAssumption, NodesTypeOK, NEW a \in Live, mem' = inc(mem, a)
  PROVE  /\ mem' \in [Addr -> NodeValueType \cup {None}]
         /\ SameNodes
         /\ \A b \in Live : Rc(mem, b)' = IF b = a /\ Rc(mem, a) < MaxRc THEN Rc(mem, a) + 1 ELSE Rc(mem, b)
<1>1. /\ mem \in [Addr -> NodeValueType \cup {None}]
      /\ a \in Addr /\ mem[a] # None /\ mem[a] \in NodeValueType
      /\ MaxRc \in Nat
  BY DEF NodesTypeOK, Live, NodeManagerAssumption
<1> DEFINE rc == IF mem[a].rc < MaxRc THEN mem[a].rc + 1 ELSE mem[a].rc
           nv == [mem[a] EXCEPT !.rc = rc]
<1>2. mem' = [mem EXCEPT ![a] = nv]
  BY <1>1 DEF inc
<1>3. /\ nv \in NodeValueType /\ nv.kind = mem[a].kind /\ nv.kids = mem[a].kids /\ nv.rc = rc
      /\ nv # None
  <2>1. rc \in 0 .. MaxRc /\ rc \in Nat
    BY <1>1 DEF NodeValueType
  <2>2. nv = [kind |-> mem[a].kind, kids |-> mem[a].kids, rc |-> rc]
    BY <1>1 DEF NodeValueType
  <2>3. mem[a].kind \in Kind /\ mem[a].kids \in Seq(Addr)
    BY <1>1 DEF NodeValueType
  <2>4. None \notin [kind : Kind, kids : Seq(Addr), rc : Nat]
    BY DEF NodeManagerAssumption
  <2> HIDE DEF rc, nv
  <2> QED BY <2>1, <2>2, <2>3, <2>4 DEF NodeValueType
<1> HIDE DEF nv
<1>4. mem' \in [Addr -> NodeValueType \cup {None}]
  BY <1>1, <1>2, <1>3
<1>5. mem'[a] = nv /\ \A b \in Addr \ {a} : mem'[b] = mem[b]
  BY <1>1, <1>2
<1>6. SameNodes
  <2>1. Live' = Live
    BY <1>1, <1>3, <1>5 DEF Live
  <2>2. \A b \in Live : mem'[b].kind = mem[b].kind /\ mem'[b].kids = mem[b].kids
    BY <1>3, <1>5 DEF Live
  <2> QED BY <2>1, <2>2 DEF SameNodes
<1>7. \A b \in Live : Rc(mem, b)' = IF b = a /\ Rc(mem, a) < MaxRc THEN Rc(mem, a) + 1 ELSE Rc(mem, b)
  BY <1>3, <1>5 DEF Live, Rc
<1> QED BY <1>4, <1>6, <1>7

\* A count that gets full is listed, once.
LEMMA IncExact ==
  ASSUME NodeManagerAssumption, NodesTypeOK, FiniteUses, Exact, NEW a \in Live, mem' = inc(mem, a),
         d_maxedOut' = d_maxedOut \o MaxedBy(mem, a),
         \A b \in Live : References(b)' = References(b) + (IF b = a THEN 1 ELSE 0)
  PROVE  /\ Exact'
         /\ d_maxedOut' \in Seq(Addr) /\ IsInjective(d_maxedOut')
         /\ Range(d_maxedOut) \subseteq Range(d_maxedOut')
         /\ Range(d_maxedOut') \subseteq Range(d_maxedOut) \cup {a}
<1>1. /\ d_maxedOut \in Seq(Addr) /\ IsInjective(d_maxedOut)
      /\ a \in Addr /\ MaxRc \in Nat \ {0}
      /\ \A b \in Live : Rc(mem, b) \in 0 .. MaxRc
  BY DEF NodesTypeOK, Live, NodeManagerAssumption, NodeValueType, Rc
<1>2. SameNodes /\ \A b \in Live : Rc(mem, b)' = IF b = a /\ Rc(mem, a) < MaxRc THEN Rc(mem, a) + 1 ELSE Rc(mem, b)
  BY IncMemory
<1>3. \A b \in Live : References(b) \in Nat
  BY ReferencesType DEF Live
<1>4. CASE Rc(mem, a) = MaxRc - 1
  <2>1. d_maxedOut' = Append(d_maxedOut, a)
    BY <1>1, <1>4 DEF MaxedBy
  <2>2. a \notin Range(d_maxedOut)
    BY <1>1, <1>4 DEF Exact
  <2>3. /\ d_maxedOut' \in Seq(Addr)
        /\ Range(d_maxedOut') = Range(d_maxedOut) \cup {a}
        /\ IsInjective(d_maxedOut')
    BY <1>1, <2>1, <2>2 DEF Range, IsInjective
  <2>4. Exact'
    <3> SUFFICES ASSUME NEW b \in Live
                 PROVE  \/ b \in Range(d_maxedOut') /\ Rc(mem, b)' = MaxRc
                        \/ b \notin Range(d_maxedOut') /\ Rc(mem, b)' = References(b)' /\ Rc(mem, b)' < MaxRc
      BY <1>2 DEF Exact, SameNodes
    <3>1. CASE b = a
      BY <1>1, <1>2, <1>4, <2>3, <3>1
    <3>2. CASE b # a
      BY <1>2, <1>3, <2>3, <3>2 DEF Exact
    <3> QED BY <3>1, <3>2
  <2> QED BY <2>3, <2>4
<1>5. CASE Rc(mem, a) # MaxRc - 1
  <2>1. d_maxedOut' = d_maxedOut
    BY <1>1, <1>5 DEF MaxedBy
  <2>2. Exact'
    <3> SUFFICES ASSUME NEW b \in Live
                 PROVE  \/ b \in Range(d_maxedOut) /\ Rc(mem, b)' = MaxRc
                        \/ b \notin Range(d_maxedOut) /\ Rc(mem, b)' = References(b)' /\ Rc(mem, b)' < MaxRc
      BY <1>2, <2>1 DEF Exact, SameNodes
    <3>1. CASE b = a
      BY <1>1, <1>2, <1>3, <1>5, <3>1 DEF Exact
    <3>2. CASE b # a
      BY <1>2, <1>3, <3>2 DEF Exact
    <3> QED BY <3>1, <3>2
  <2> QED BY <1>1, <2>1, <2>2
<1> QED BY <1>4, <1>5

\* decrRefCounts lowers counts, and records the values whose count it brings to 0.
LEMMA DecMemory ==
  ASSUME NodeManagerAssumption, NodesTypeOK, NEW n \in [Addr -> Nat],
         NEW s, s = decrRefCounts([mem |-> mem, zs |-> d_zombies], n)
  PROVE  /\ s.mem \in [Addr -> NodeValueType \cup {None}]
         /\ \A b \in Addr : s.mem[b] = None <=> mem[b] = None
         /\ \A b \in Live : /\ s.mem[b].kind = mem[b].kind /\ s.mem[b].kids = mem[b].kids
                            /\ s.mem[b].rc = Lowered(Rc(mem, b), n[b])
         /\ s.zs = d_zombies \cup {b \in Live : Rc(mem, b) \in (1 .. n[b]) \ {MaxRc}}
<1> DEFINE nv(b) == [mem[b] EXCEPT !.rc = Lowered(@, n[b])]
<1>1. /\ mem \in [Addr -> NodeValueType \cup {None}] /\ MaxRc \in Nat
      /\ None \notin [kind : Kind, kids : Seq(Addr), rc : Nat]
  BY DEF NodesTypeOK, NodeManagerAssumption
<1>2. /\ s.mem = [b \in Addr |-> IF mem[b] = None THEN None ELSE nv(b)]
      /\ s.zs = d_zombies \cup {b \in Addr : mem[b] # None /\ Rc(mem, b) \in (1 .. n[b]) \ {MaxRc}}
  BY DEF decrRefCounts
<1>3. ASSUME NEW b \in Live
      PROVE  /\ nv(b) \in NodeValueType /\ nv(b) # None
             /\ nv(b).kind = mem[b].kind /\ nv(b).kids = mem[b].kids
             /\ nv(b).rc = Lowered(Rc(mem, b), n[b])
  <2> DEFINE rc == Lowered(mem[b].rc, n[b])
  <2>1. mem[b] \in NodeValueType /\ n[b] \in Nat
    BY <1>1 DEF Live
  <2>2. rc \in 0 .. MaxRc /\ rc \in Nat
    BY <1>1, <2>1 DEF Lowered, NodeValueType
  <2>3. /\ mem[b].kind \in Kind /\ mem[b].kids \in Seq(Addr)
        /\ nv(b) = [kind |-> mem[b].kind, kids |-> mem[b].kids, rc |-> rc]
    BY <2>1 DEF NodeValueType
  <2> HIDE DEF rc, nv
  <2>4. nv(b) \in NodeValueType /\ nv(b) # None /\ nv(b).kind = mem[b].kind /\ nv(b).kids = mem[b].kids /\ nv(b).rc = rc
    BY <1>1, <2>2, <2>3 DEF NodeValueType
  <2> QED BY <2>4 DEF rc, Rc
<1> HIDE DEF nv
<1>4. s.mem \in [Addr -> NodeValueType \cup {None}]
  BY <1>2, <1>3 DEF Live
<1>5. \A b \in Addr : s.mem[b] = None <=> mem[b] = None
  BY <1>2, <1>3 DEF Live
<1>6. \A b \in Live : /\ s.mem[b].kind = mem[b].kind /\ s.mem[b].kids = mem[b].kids
                      /\ s.mem[b].rc = Lowered(Rc(mem, b), n[b])
  BY <1>2, <1>3 DEF Live
<1>7. s.zs = d_zombies \cup {b \in Live : Rc(mem, b) \in (1 .. n[b]) \ {MaxRc}}
  BY <1>2 DEF Live
<1> QED BY <1>4, <1>5, <1>6, <1>7

\* An exact count is exact after references have been given up, a full one stays
\* full, and the new zombies are those that nothing refers to any more.
LEMMA DecExact ==
  ASSUME NodeManagerAssumption, NodesTypeOK, FiniteUses, Exact,
         NEW b \in Live, NEW k \in Nat, k <= References(b)
  PROVE  /\ \/ b \in Range(d_maxedOut) /\ Lowered(Rc(mem, b), k) = MaxRc
            \/ b \notin Range(d_maxedOut) /\ Lowered(Rc(mem, b), k) = References(b) - k
               /\ Lowered(Rc(mem, b), k) < MaxRc
         /\ Lowered(Rc(mem, b), k) = 0 <=> Rc(mem, b) = 0 \/ Rc(mem, b) \in (1 .. k) \ {MaxRc}
<1>1. /\ MaxRc \in Nat \ {0} /\ Rc(mem, b) \in 0 .. MaxRc /\ References(b) \in Nat
  BY ReferencesType DEF NodesTypeOK, Live, NodeManagerAssumption, NodeValueType, Rc
<1>2. CASE b \in Range(d_maxedOut) /\ Rc(mem, b) = MaxRc
  BY <1>1, <1>2 DEF Lowered
<1>3. CASE b \notin Range(d_maxedOut) /\ Rc(mem, b) = References(b) /\ Rc(mem, b) < MaxRc
  BY <1>1, <1>3 DEF Lowered
<1> QED BY <1>2, <1>3 DEF Exact

-----------------------------------------------------------------------------
(* The initial state. *)

\* An empty manager satisfies the invariant.
LEMMA NodesInvInit ==
  ASSUME NodeManagerAssumption, NodesInit
  PROVE  NodesInv
<1> USE DEF NodesInit
<1>1. Live = {}
  BY DEF Live
<1>2. NodesTypeOK
  <2>1. <<>> \in Seq(Addr) /\ IsInjective(<<>>)
    BY DEF IsInjective
  <2>2. 0 \in 0 .. MaxHeld
    BY DEF NodeManagerAssumption
  <2> QED BY <2>1, <2>2 DEF NodesTypeOK
<1>3. Range(<<>>) = {}
  BY DEF Range
<1>4. NoDangling
  BY <1>1, <1>3 DEF NoDangling, NodeManagerAssumption
<1>5. Exact /\ Pooled /\ HashConsed /\ NothingLost /\ Acyclic
  BY <1>1 DEF Exact, Pooled, HashConsed, NothingLost, Acyclic
<1>6. ResultSafe /\ ControlRight
  BY DEF ResultSafe, ControlRight
<1>7. SortRight
  BY <1>3 DEF SortRight
<1>8. FiniteUses
  <2>1. \A a \in Addr : Uses(a) = {}
    BY <1>1 DEF Uses
  <2> QED BY <2>1, FS_EmptySet DEF FiniteUses
<1> QED BY <1>2, <1>4, <1>5, <1>6, <1>7, <1>8 DEF NodesInv

-----------------------------------------------------------------------------
(* Steps of the clients. *)

\* How the parts of the sum make up its change.
LEMMA ReferencesChange ==
  ASSUME NodeManagerAssumption, NodesTypeOK, FiniteUses, NEW b \in Addr,
         held'[b] \in Int, Times(b, todo') \in Int, InBuilder(b)' \in Int,
         Cardinality(Keys(b)') \in Int, Cardinality(Uses(b)') \in Int
  PROVE  /\ References(b)' =
              References(b) + ((held'[b] - held[b]) + (Times(b, todo') - Times(b, todo))
                               + (InBuilder(b)' - InBuilder(b))
                               + (Cardinality(Keys(b)') - Cardinality(Keys(b)))
                               + (Cardinality(Uses(b)') - Cardinality(Uses(b))))
         /\ References(b) \in Nat
<1> DEFINE h == held[b]
           t == Times(b, todo)
           i == InBuilder(b)
           k == Cardinality(Keys(b))
           u == Cardinality(Uses(b))
           h2 == held'[b]
           t2 == Times(b, todo')
           i2 == InBuilder(b)'
           k2 == Cardinality(Keys(b)')
           u2 == Cardinality(Uses(b)')
<1>1. h \in Nat /\ t \in Nat /\ i \in Nat /\ k \in Nat /\ u \in Nat
  BY ReferencesType
<1>2. h2 \in Int /\ t2 \in Int /\ i2 \in Int /\ k2 \in Int /\ u2 \in Int
  OBVIOUS
<1>3. References(b) = h + t + i + k + u
  BY DEF References
<1>4. References(b)' = h2 + t2 + i2 + k2 + u2
  BY DEF References
<1>5. /\ References(b)' = References(b) + ((h2 - h) + (t2 - t) + (i2 - i) + (k2 - k) + (u2 - u))
      /\ References(b) \in Nat
  <2> HIDE DEF h, t, i, k, u, h2, t2, i2, k2, u2
  <2> QED BY <1>1, <1>2, <1>3, <1>4
<1> QED BY <1>5

\* A step that leaves the values and their counts alone, and moves references.
LEMMA QuietStep ==
  ASSUME NodesInv, UNCHANGED <<mem, pool, d_maxedOut>>, \A b \in Live : References(b)' = References(b)
  PROVE  Exact' /\ Pooled' /\ HashConsed' /\ Acyclic' /\ FiniteUses' /\ Live' = Live
<1>1. SameNodes
  BY DEF SameNodes, Live
<1>2. Exact'
  BY <1>1 DEF NodesInv, Exact, SameNodes, Rc
<1> QED BY <1>1, <1>2, UsesSame DEF NodesInv, SameNodes

\* A step that makes one reference.
LEMMA IncStep ==
  ASSUME NodeManagerAssumption, NodesInv, NEW a \in Live, mem' = inc(mem, a),
         d_maxedOut' = d_maxedOut \o MaxedBy(mem, a), UNCHANGED <<pool, phase, topo>>,
         \A b \in Live : References(b)' = References(b) + (IF b = a THEN 1 ELSE 0)
  PROVE  /\ Exact' /\ Pooled' /\ HashConsed' /\ Acyclic' /\ FiniteUses' /\ SortRight'
         /\ SameNodes
         /\ mem' \in [Addr -> NodeValueType \cup {None}]
         /\ d_maxedOut' \in Seq(Addr) /\ IsInjective(d_maxedOut')
         /\ Range(d_maxedOut') \subseteq Range(d_maxedOut) \cup {a}
         /\ \A b \in Live : Rc(mem, b)' = 0 => Rc(mem, b) = 0 /\ b # a
<1> USE DEF NodesInv
<1>1. /\ mem' \in [Addr -> NodeValueType \cup {None}]
      /\ SameNodes
      /\ \A b \in Live : Rc(mem, b)' = IF b = a /\ Rc(mem, a) < MaxRc THEN Rc(mem, a) + 1 ELSE Rc(mem, b)
  BY IncMemory
<1>2. /\ Exact' /\ d_maxedOut' \in Seq(Addr) /\ IsInjective(d_maxedOut')
      /\ Range(d_maxedOut) \subseteq Range(d_maxedOut')
      /\ Range(d_maxedOut') \subseteq Range(d_maxedOut) \cup {a}
  BY IncExact
<1>3. Pooled' /\ HashConsed' /\ Acyclic' /\ FiniteUses'
  BY <1>1, UsesSame
<1>4. SortRight'
  BY <1>2 DEF SortRight
<1>5. \A b \in Live : Rc(mem, b)' = 0 => Rc(mem, b) = 0 /\ b # a
  <2>1. Rc(mem, a) \in 0 .. MaxRc /\ MaxRc \in Nat \ {0}
    BY DEF NodesTypeOK, Live, NodeManagerAssumption, NodeValueType, Rc
  <2> QED BY <1>1, <2>1
<1> QED BY <1>1, <1>2, <1>3, <1>4, <1>5

\* A copy of a Node preserves the invariant.
LEMMA CopyNodeStep ==
  ASSUME NodeManagerAssumption, NodesInv, NEW a \in Addr, CopyNode(a)
  PROVE  NodesInv'
<1> USE DEF NodesInv, CopyNode, Idle
<1>1. a \in Live /\ held \in [Addr -> 0 .. MaxHeld] /\ MaxHeld \in Nat
  BY DEF NoDangling, NodesTypeOK, NodeManagerAssumption
<1>2. SameNodes
  BY <1>1, IncMemory
<1>3. \A b \in Live : References(b)' = References(b) + (IF b = a THEN 1 ELSE 0)
  <2> SUFFICES ASSUME NEW b \in Live PROVE References(b)' = References(b) + (IF b = a THEN 1 ELSE 0)
    OBVIOUS
  <2>1. /\ b \in Addr
        /\ held[b] \in Nat /\ Times(b, todo) \in Nat /\ InBuilder(b) \in Nat
        /\ Cardinality(Keys(b)) \in Nat /\ Cardinality(Uses(b)) \in Nat
    BY ReferencesType DEF Live
  <2>2. held'[b] = held[b] + (IF b = a THEN 1 ELSE 0)
    BY <1>1, <2>1
  <2>3. /\ todo' = todo /\ InBuilder(b)' = InBuilder(b) /\ Keys(b)' = Keys(b) /\ Uses(b)' = Uses(b)
    BY <1>2, <2>1, UsesSame DEF InBuilder, Keys
  <2> QED BY <2>1, <2>2, <2>3, ReferencesChange
<1>4. /\ Exact' /\ Pooled' /\ HashConsed' /\ Acyclic' /\ FiniteUses' /\ SortRight'
      /\ mem' \in [Addr -> NodeValueType \cup {None}]
      /\ d_maxedOut' \in Seq(Addr) /\ IsInjective(d_maxedOut')
      /\ Range(d_maxedOut') \subseteq Range(d_maxedOut) \cup {a}
      /\ \A b \in Live : Rc(mem, b)' = 0 => Rc(mem, b) = 0 /\ b # a
  BY <1>1, <1>3, IncStep
<1>5. NodesTypeOK'
  BY <1>1, <1>4 DEF NodesTypeOK
<1>6. NoDangling'
  BY <1>1, <1>2, <1>4 DEF NoDangling, SameNodes
<1>7. NothingLost'
  BY <1>2, <1>4 DEF NothingLost, SameNodes
<1>8. ResultSafe' /\ ControlRight'
  BY DEF ResultSafe, ControlRight
<1> QED BY <1>4, <1>5, <1>6, <1>7, <1>8

\* So does the end of a Node, whose dec is still to be made,
LEMMA DropNodeStep ==
  ASSUME NodeManagerAssumption, NodesInv, NEW a \in Addr, DropNode(a)
  PROVE  NodesInv'
<1> USE DEF NodesInv, DropNode, Idle
<1>1. a \in Live /\ held \in [Addr -> 0 .. MaxHeld] /\ MaxHeld \in Nat
  BY DEF NoDangling, NodesTypeOK, NodeManagerAssumption
<1>3. \A b \in Live : References(b)' = References(b)
  <2> SUFFICES ASSUME NEW b \in Live PROVE References(b)' = References(b)
    OBVIOUS
  <2>1. /\ b \in Addr /\ b # None
        /\ held[b] \in Nat /\ Times(b, todo) \in Nat /\ InBuilder(b) \in Nat
        /\ Cardinality(Keys(b)) \in Nat /\ Cardinality(Uses(b)) \in Nat
    BY ReferencesType DEF Live, NodeManagerAssumption
  <2>2. held'[b] = held[b] - (IF b = a THEN 1 ELSE 0)
    BY <1>1, <2>1
  <2>3. Times(b, todo) = 0 /\ Times(b, todo') = IF b = a THEN 1 ELSE 0
    BY TimesEmpty, TimesOne
  <2>4. InBuilder(b)' = InBuilder(b) /\ Keys(b)' = Keys(b) /\ Uses(b)' = Uses(b)
    BY DEF InBuilder, Keys, Uses, Live
  <2> QED BY <2>1, <2>2, <2>3, <2>4, ReferencesChange
<1>4. Exact' /\ Pooled' /\ HashConsed' /\ Acyclic' /\ FiniteUses' /\ Live' = Live
  BY <1>3, QuietStep
<1>5. NodesTypeOK'
  BY <1>1 DEF NodesTypeOK
<1>6. NoDangling'
  <2>1. Range(todo') = {a}
    BY DEF Range
  <2> QED BY <1>1, <1>4, <2>1 DEF NoDangling
<1>7. NothingLost' /\ SortRight'
  BY <1>4 DEF NothingLost, Rc, SortRight
<1>8. ResultSafe' /\ ControlRight'
  BY DEF ResultSafe, ControlRight
<1> QED BY <1>4, <1>5, <1>6, <1>7, <1>8

\* and operator=, where the child is kept by its parent until the parent's dec.
LEMMA AssignChildStep ==
  ASSUME NodeManagerAssumption, NodesInv, NEW a \in Addr, NEW c \in Addr, AssignChild(a, c)
  PROVE  NodesInv'
<1> USE DEF NodesInv, AssignChild, Idle
<1>1. /\ a \in Live /\ c \in Live /\ c \in Range(mem[a].kids)
      /\ held \in [Addr -> 0 .. MaxHeld] /\ MaxHeld \in Nat
  BY DEF NoDangling, NodesTypeOK, NodeManagerAssumption
<1>2. result' = [place |-> "handle", key |-> c, nv |-> c] /\ result' # None
  BY DEF NodeManagerAssumption, Places
<1>3. \A b \in Live : References(b)' = References(b)
  <2> SUFFICES ASSUME NEW b \in Live PROVE References(b)' = References(b)
    OBVIOUS
  <2>1. /\ b \in Addr /\ b # None
        /\ held[b] \in Nat /\ Times(b, todo) \in Nat /\ InBuilder(b) \in Nat
        /\ Cardinality(Keys(b)) \in Nat /\ Cardinality(Uses(b)) \in Nat
    BY ReferencesType DEF Live, NodeManagerAssumption
  <2>2. held'[b] = held[b] - (IF b = a THEN 1 ELSE 0)
    BY <1>1, <2>1
  <2>3. Times(b, todo) = 0 /\ Times(b, todo') = IF b = a THEN 1 ELSE 0
    BY TimesEmpty, TimesOne
  <2>4. InBuilder(b)' = InBuilder(b) /\ Keys(b)' = Keys(b) /\ Uses(b)' = Uses(b)
    BY DEF InBuilder, Keys, Uses, Live
  <2> QED BY <2>1, <2>2, <2>3, <2>4, ReferencesChange
<1>4. Exact' /\ Pooled' /\ HashConsed' /\ Acyclic' /\ FiniteUses' /\ Live' = Live
  BY <1>3, QuietStep
<1>5. NodesTypeOK'
  BY <1>1, <1>2 DEF NodesTypeOK, Places
<1>6. NoDangling'
  <2>1. Range(todo') = {a}
    BY DEF Range
  <2> QED BY <1>1, <1>2, <1>4, <2>1 DEF NoDangling
<1>7. NothingLost' /\ SortRight'
  BY <1>4 DEF NothingLost, Rc, SortRight
<1>8. ResultSafe'
  BY <1>1, <1>2, <1>4 DEF ResultSafe
<1>9. ControlRight'
  BY DEF ControlRight
<1> QED BY <1>4, <1>5, <1>6, <1>7, <1>8, <1>9

\* The new value of an attribute is held by the client meanwhile.
LEMMA SetAttributeStep ==
  ASSUME NodeManagerAssumption, NodesInv, NEW a \in Addr, NEW c \in Addr, setAttribute(a, c)
  PROVE  NodesInv'
<1> USE DEF NodesInv, setAttribute, Idle
<1>1. /\ a \in Live /\ c \in Live /\ attr \in [Addr -> Addr \cup {None}] /\ None \notin Addr
      /\ attr' \in [Addr -> Addr \cup {None}]
  BY DEF NoDangling, NodesTypeOK, NodeManagerAssumption
<1>2. result' = [place |-> "attribute", key |-> a, nv |-> c] /\ result' # None
  BY DEF NodeManagerAssumption, Places
<1>3. \A b \in Live : References(b)' = References(b)
  <2> SUFFICES ASSUME NEW b \in Live PROVE References(b)' = References(b)
    OBVIOUS
  <2>1. /\ b \in Addr /\ b # None
        /\ held[b] \in Nat /\ Times(b, todo) \in Nat /\ InBuilder(b) \in Nat
        /\ Cardinality(Keys(b)) \in Nat /\ Cardinality(Uses(b)) \in Nat
    BY ReferencesType DEF Live, NodeManagerAssumption
  <2>2. held'[b] = held[b] /\ InBuilder(b)' = InBuilder(b) /\ Uses(b)' = Uses(b)
    BY DEF InBuilder, Uses, Live
  <2>3. Times(b, todo) = 0 /\ Times(b, todo') = IF attr[a] = b THEN 1 ELSE 0
    BY <2>1, TimesEmpty, TimesOne
  <2>4. Cardinality(Keys(b)') = Cardinality(Keys(b)) - (IF attr[a] = b THEN 1 ELSE 0)
    BY <2>1, KeysSet
  <2> QED BY <2>1, <2>2, <2>3, <2>4, ReferencesChange
<1>4. Exact' /\ Pooled' /\ HashConsed' /\ Acyclic' /\ FiniteUses' /\ Live' = Live
  BY <1>3, QuietStep
<1>5. todo' \in Seq(Live) /\ Range(todo') \subseteq Live
  <2>1. attr[a] = None \/ attr[a] \in Live
    BY DEF NoDangling
  <2>2. CASE attr[a] = None
    <3>1. todo' = <<>> /\ Range(<<>>) = {} /\ <<>> \in Seq(Live)
      BY <2>2 DEF Range
    <3> QED BY <3>1
  <2>3. CASE attr[a] \in Live /\ attr[a] # None
    <3>1. todo' = <<attr[a]>>
      BY <2>3
    <3>2. \A x \in Live : <<x>> \in Seq(Live) /\ Range(<<x>>) = {x}
      BY DEF Range
    <3> QED BY <2>3, <3>1, <3>2
  <2> QED BY <2>1, <2>2, <2>3
<1>6. NodesTypeOK'
  BY <1>1, <1>2, <1>5 DEF NodesTypeOK, Places, Live
<1>7. NoDangling'
  BY <1>1, <1>2, <1>4, <1>5 DEF NoDangling
<1>8. NothingLost' /\ SortRight'
  BY <1>4 DEF NothingLost, Rc, SortRight
<1>9. ResultSafe'
  BY <1>1, <1>2, <1>4 DEF ResultSafe
<1>10. ControlRight'
  BY DEF ControlRight
<1> QED BY <1>4, <1>6, <1>7, <1>8, <1>9, <1>10

\* A builder begins without children
LEMMA NewBuilderStep ==
  ASSUME NodeManagerAssumption, NodesInv, NEW k \in Kind, NewBuilder(k)
  PROVE  NodesInv'
<1> USE DEF NodesInv, NewBuilder, Idle
<1>1. builder' = [kind |-> k, kids |-> <<>>] /\ builder' # None /\ builder' \in [kind : Kind, kids : Seq(Addr)]
  <2>1. builder' = [kind |-> k, kids |-> <<>>] /\ <<>> \in Seq(Addr)
    OBVIOUS
  <2>2. builder' \in [kind : Kind, kids : Seq(Addr)]
    BY <2>1
  <2>3. None \notin [kind : Kind, kids : Seq(Addr)]
    BY DEF NodeManagerAssumption
  <2> QED BY <2>1, <2>2, <2>3
<1>3. \A b \in Live : References(b)' = References(b)
  <2> SUFFICES ASSUME NEW b \in Live PROVE References(b)' = References(b)
    OBVIOUS
  <2>1. /\ b \in Addr /\ b # None
        /\ held[b] \in Nat /\ Times(b, todo) \in Nat /\ InBuilder(b) \in Nat
        /\ Cardinality(Keys(b)) \in Nat /\ Cardinality(Uses(b)) \in Nat
    BY ReferencesType DEF Live, NodeManagerAssumption
  <2>2. held'[b] = held[b] /\ todo' = todo /\ Keys(b)' = Keys(b) /\ Uses(b)' = Uses(b)
    BY DEF Keys, Uses, Live
  <2>3. InBuilder(b)' = 0 /\ InBuilder(b) = 0
    BY <1>1, TimesEmpty DEF InBuilder
  <2> QED BY <2>1, <2>2, <2>3, ReferencesChange
<1>4. Exact' /\ Pooled' /\ HashConsed' /\ Acyclic' /\ FiniteUses' /\ Live' = Live
  BY <1>3, QuietStep
<1>5. NodesTypeOK'
  BY <1>1 DEF NodesTypeOK
<1>6. NoDangling'
  <2>1. Range(builder'.kids) = {}
    BY <1>1 DEF Range
  <2> QED BY <1>4, <2>1 DEF NoDangling
<1>7. NothingLost' /\ SortRight'
  BY <1>4 DEF NothingLost, Rc, SortRight
<1>8. ResultSafe' /\ ControlRight'
  BY DEF ResultSafe, ControlRight
<1> QED BY <1>4, <1>5, <1>6, <1>7, <1>8

\* and takes one reference for each that it gets.
LEMMA AppendStep ==
  ASSUME NodeManagerAssumption, NodesInv, NEW a \in Addr, append(a)
  PROVE  NodesInv'
<1> USE DEF NodesInv, append, Idle
<1>1. /\ a \in Live /\ a \in Addr /\ builder \in [kind : Kind, kids : Seq(Addr)]
  BY DEF NoDangling, NodesTypeOK
<1>2. /\ builder' = [kind |-> builder.kind, kids |-> Append(builder.kids, a)]
      /\ builder' \in [kind : Kind, kids : Seq(Addr)] /\ builder' # None
      /\ builder'.kids = Append(builder.kids, a)
      /\ builder.kids \in Seq(Addr) /\ Range(builder.kids) \subseteq Live
  <2>1. builder.kids \in Seq(Addr) /\ builder.kind \in Kind
    BY <1>1
  <2>2. builder' = [kind |-> builder.kind, kids |-> Append(builder.kids, a)]
    BY <1>1
  <2>3. Append(builder.kids, a) \in Seq(Addr)
    BY <2>1
  <2>4. builder' \in [kind : Kind, kids : Seq(Addr)] /\ builder'.kids = Append(builder.kids, a)
    BY <2>1, <2>2, <2>3
  <2>5. None \notin [kind : Kind, kids : Seq(Addr)]
    BY DEF NodeManagerAssumption
  <2>6. Range(builder.kids) \subseteq Live
    BY DEF NoDangling
  <2> QED BY <2>1, <2>2, <2>4, <2>5, <2>6
<1>3. SameNodes
  BY <1>1, IncMemory
<1>4. \A b \in Live : References(b)' = References(b) + (IF b = a THEN 1 ELSE 0)
  <2> SUFFICES ASSUME NEW b \in Live PROVE References(b)' = References(b) + (IF b = a THEN 1 ELSE 0)
    OBVIOUS
  <2>1. /\ b \in Addr /\ b # None
        /\ held[b] \in Nat /\ Times(b, todo) \in Nat /\ InBuilder(b) \in Nat
        /\ Cardinality(Keys(b)) \in Nat /\ Cardinality(Uses(b)) \in Nat
    BY ReferencesType DEF Live, NodeManagerAssumption
  <2>2. held'[b] = held[b] /\ todo' = todo /\ Keys(b)' = Keys(b) /\ Uses(b)' = Uses(b)
    BY <1>3, <2>1, UsesSame DEF Keys
  <2>3. Times(b, builder'.kids) = Times(b, builder.kids) + (IF a = b THEN 1 ELSE 0)
    BY <1>1, <1>2, TimesAppend
  <2>4. InBuilder(b)' = InBuilder(b) + (IF b = a THEN 1 ELSE 0)
    BY <1>2, <2>3 DEF InBuilder
  <2> QED BY <2>1, <2>2, <2>4, ReferencesChange
<1>5. /\ Exact' /\ Pooled' /\ HashConsed' /\ Acyclic' /\ FiniteUses' /\ SortRight'
      /\ mem' \in [Addr -> NodeValueType \cup {None}]
      /\ d_maxedOut' \in Seq(Addr) /\ IsInjective(d_maxedOut')
      /\ Range(d_maxedOut') \subseteq Range(d_maxedOut) \cup {a}
      /\ \A b \in Live : Rc(mem, b)' = 0 => Rc(mem, b) = 0 /\ b # a
  BY <1>1, <1>4, IncStep
<1>6. NodesTypeOK'
  BY <1>2, <1>5 DEF NodesTypeOK
<1>7. NoDangling'
  <2>1. Range(builder'.kids) \subseteq Live
    <3>1. \A i \in DOMAIN Append(builder.kids, a) : Append(builder.kids, a)[i] \in Live
      <4>1. \A i \in 1 .. Len(builder.kids) : builder.kids[i] \in Live
        BY <1>2 DEF Range
      <4> QED BY <1>1, <1>2, <4>1
    <3> QED BY <1>2, <3>1 DEF Range
  <2> QED BY <1>1, <1>3, <1>5, <2>1 DEF NoDangling, SameNodes
<1>8. NothingLost'
  BY <1>3, <1>5 DEF NothingLost, SameNodes
<1>9. ResultSafe' /\ ControlRight'
  BY DEF ResultSafe, ControlRight
<1> QED BY <1>5, <1>6, <1>7, <1>8, <1>9

\* One that is not used gives them up.
LEMMA DropBuilderStep ==
  ASSUME NodeManagerAssumption, NodesInv, DropBuilder
  PROVE  NodesInv'
<1> USE DEF NodesInv, DropBuilder, Idle
<1>1. /\ builder.kids \in Seq(Addr) /\ Range(builder.kids) \subseteq Live
      /\ todo' = builder.kids
  BY DEF NodesTypeOK, NoDangling
<1>3. \A b \in Live : References(b)' = References(b)
  <2> SUFFICES ASSUME NEW b \in Live PROVE References(b)' = References(b)
    OBVIOUS
  <2>1. /\ b \in Addr /\ b # None
        /\ held[b] \in Nat /\ Times(b, todo) \in Nat /\ InBuilder(b) \in Nat
        /\ Cardinality(Keys(b)) \in Nat /\ Cardinality(Uses(b)) \in Nat
    BY ReferencesType DEF Live, NodeManagerAssumption
  <2>2. held'[b] = held[b] /\ Keys(b)' = Keys(b) /\ Uses(b)' = Uses(b)
    BY DEF Keys, Uses, Live
  <2>3. Times(b, todo) = 0 /\ Times(b, todo') = InBuilder(b) /\ InBuilder(b)' = 0
    BY <1>1, TimesEmpty DEF InBuilder
  <2> QED BY <2>1, <2>2, <2>3, ReferencesChange
<1>4. Exact' /\ Pooled' /\ HashConsed' /\ Acyclic' /\ FiniteUses' /\ Live' = Live
  BY <1>3, QuietStep
<1>5. NodesTypeOK'
  BY <1>1 DEF NodesTypeOK
<1>6. NoDangling'
  BY <1>1, <1>4 DEF NoDangling
<1>7. NothingLost' /\ SortRight'
  BY <1>4 DEF NothingLost, Rc, SortRight
<1>8. ResultSafe' /\ ControlRight'
  BY DEF ResultSafe, ControlRight
<1> QED BY <1>4, <1>5, <1>6, <1>7, <1>8

\* The node that is in the pool is not freed when its children's counts fall:
\* they are its own.
LEMMA ConstructKnownStep ==
  ASSUME NodeManagerAssumption, NodesInv, ConstructKnown
  PROVE  NodesInv'
<1> USE DEF NodesInv, ConstructKnown, Idle
<1>1. /\ builder.kids \in Seq(Addr) /\ Range(builder.kids) \subseteq Live
      /\ todo' = builder.kids
  BY DEF NodesTypeOK, NoDangling
<1>2. PICK p \in Live : /\ held[p] < MaxHeld /\ mem[p].kids = builder.kids
                        /\ result' = [place |-> "handle", key |-> p, nv |-> p] /\ result' # None
  <2>1. PICK p \in poolLookup(builder) : /\ held[p] < MaxHeld
                                         /\ result' = [place |-> "handle", key |-> p, nv |-> p]
    OBVIOUS
  <2>2. p \in Live /\ p \in Addr /\ mem[p].kids = builder.kids
    BY <2>1 DEF poolLookup, NoDangling, Live
  <2>3. result' # None
    BY <2>1, <2>2 DEF NodeManagerAssumption, Places
  <2> QED BY <2>1, <2>2, <2>3
<1>3. \A b \in Live : References(b)' = References(b)
  <2> SUFFICES ASSUME NEW b \in Live PROVE References(b)' = References(b)
    OBVIOUS
  <2>1. /\ b \in Addr /\ b # None
        /\ held[b] \in Nat /\ Times(b, todo) \in Nat /\ InBuilder(b) \in Nat
        /\ Cardinality(Keys(b)) \in Nat /\ Cardinality(Uses(b)) \in Nat
    BY ReferencesType DEF Live, NodeManagerAssumption
  <2>2. held'[b] = held[b] /\ Keys(b)' = Keys(b) /\ Uses(b)' = Uses(b)
    BY DEF Keys, Uses, Live
  <2>3. Times(b, todo) = 0 /\ Times(b, todo') = InBuilder(b) /\ InBuilder(b)' = 0
    BY <1>1, TimesEmpty DEF InBuilder
  <2> QED BY <2>1, <2>2, <2>3, ReferencesChange
<1>4. Exact' /\ Pooled' /\ HashConsed' /\ Acyclic' /\ FiniteUses' /\ Live' = Live
  BY <1>3, QuietStep
<1>5. NodesTypeOK'
  BY <1>1, <1>2 DEF NodesTypeOK, Live, Places
<1>6. NoDangling'
  BY <1>1, <1>2, <1>4 DEF NoDangling
<1>7. NothingLost' /\ SortRight'
  BY <1>4 DEF NothingLost, Rc, SortRight
<1>8. ResultSafe'
  BY <1>1, <1>2 DEF ResultSafe
<1>9. ControlRight'
  BY DEF ControlRight
<1> QED BY <1>4, <1>5, <1>6, <1>7, <1>8, <1>9

\* Nothing refers to free memory.
LEMMA FreeUnreferred ==
  ASSUME NodeManagerAssumption, NodesTypeOK, NoDangling, NEW a \in Addr \ Live
  PROVE  References(a) = 0
<1>1. held[a] = 0
  BY DEF NoDangling, NodesTypeOK, NodeManagerAssumption
<1>2. Times(a, todo) = 0
  BY TimesType DEF NoDangling, NodesTypeOK
<1>3. InBuilder(a) = 0
  <2>1. CASE builder = None
    BY <2>1 DEF InBuilder
  <2>2. CASE builder # None
    <3>1. builder.kids \in Seq(Addr) /\ a \notin Range(builder.kids)
      BY <2>2 DEF NoDangling, NodesTypeOK
    <3> QED BY <3>1, <2>2, TimesType DEF InBuilder
  <2> QED BY <2>1, <2>2
<1>4. Keys(a) = {}
  BY DEF Keys, NoDangling, NodeManagerAssumption
<1>5. Uses(a) = {}
  BY DEF Uses, At, Range, NoDangling
<1>6. Cardinality(Keys(a)) = 0 /\ Cardinality(Uses(a)) = 0
  BY <1>4, <1>5, FS_EmptySet
<1> QED BY <1>1, <1>2, <1>3, <1>6 DEF References

\* The new node takes over the references of the builder.
LEMMA ConstructNewStep ==
  ASSUME NodeManagerAssumption, NodesInv, ConstructNew
  PROVE  NodesInv'
<1> USE DEF NodesInv, ConstructNew, Idle
<1>1. /\ builder.kids \in Seq(Addr) /\ Range(builder.kids) \subseteq Live /\ builder.kind \in Kind
      /\ mem \in [Addr -> NodeValueType \cup {None}]
      /\ MaxRc \in Nat \ {0} /\ MaxHeld \in Nat \ {0} /\ builder' = None
      /\ None \notin [kind : Kind, kids : Seq(Addr), rc : Nat]
  BY DEF NodesTypeOK, NoDangling, NodeManagerAssumption
<1> DEFINE nv == [kind |-> builder.kind, kids |-> builder.kids, rc |-> 0]
<1>2. PICK a \in Addr \ Live :
        /\ mem' = [mem EXCEPT ![a] = nv]
        /\ pool' = IF builder.kind \in Variable THEN pool ELSE pool \cup {a}
        /\ result' = [place |-> "handle", key |-> a, nv |-> a]
  OBVIOUS
<1>3. nv \in NodeValueType /\ nv # None /\ nv.kind = builder.kind /\ nv.kids = builder.kids /\ nv.rc = 0
  BY <1>1 DEF NodeValueType
<1> HIDE DEF nv
<1>4. /\ mem' \in [Addr -> NodeValueType \cup {None}]
      /\ mem'[a] = nv /\ \A b \in Addr \ {a} : mem'[b] = mem[b]
  BY <1>1, <1>2, <1>3
<1>5. Live' = Live \cup {a} /\ a \notin Live
  BY <1>2, <1>3, <1>4 DEF Live
<1>6. result' # None
  BY <1>2 DEF NodeManagerAssumption, Places
<1>7. ASSUME NEW b \in Addr
      PROVE  /\ IsFiniteSet(Uses(b)')
             /\ Cardinality(Uses(b)') = Cardinality(Uses(b)) + Times(b, builder.kids)
  <2> DEFINE new == {a} \X At(b, builder.kids)
  <2>1. Uses(b)' = Uses(b) \cup new
    BY <1>3, <1>4, <1>5 DEF Uses, Live
  <2>2. Uses(b) \cap new = {}
    BY <1>5 DEF Uses
  <2>3. IsFiniteSet(new) /\ Cardinality(new) = Times(b, builder.kids)
    BY <1>1, ByOneParent
  <2>4. IsFiniteSet(Uses(b)) /\ Cardinality(Uses(b)) \in Nat /\ Times(b, builder.kids) \in Nat
    BY <1>1, TimesType, FS_CardinalityType DEF FiniteUses
  <2> HIDE DEF new
  <2>5. /\ IsFiniteSet(Uses(b) \cup new)
        /\ Cardinality(Uses(b) \cup new) = Cardinality(Uses(b)) + Cardinality(new) - Cardinality(Uses(b) \cap new)
    BY <2>3, <2>4, FS_Union
  <2>6. Cardinality(Uses(b) \cap new) = 0
    BY <2>2, FS_EmptySet
  <2> QED BY <2>1, <2>3, <2>4, <2>5, <2>6
<1>8. ASSUME NEW b \in Addr
      PROVE  References(b)' = References(b)
  <2>1. /\ held[b] \in Nat /\ Times(b, todo) \in Nat /\ Times(b, builder.kids) \in Nat
        /\ Cardinality(Keys(b)) \in Nat /\ Cardinality(Uses(b)) \in Nat
    BY <1>1, ReferencesType, TimesType
  <2>2. held'[b] = held[b] /\ todo' = todo /\ Keys(b)' = Keys(b)
    BY DEF Keys
  <2>3. InBuilder(b) = Times(b, builder.kids) /\ InBuilder(b)' = 0
    BY <1>1 DEF InBuilder
  <2>4. Cardinality(Uses(b)') = Cardinality(Uses(b)) + Times(b, builder.kids)
    BY <1>7
  <2>5. Cardinality(Uses(b)') \in Int /\ held'[b] \in Int /\ Times(b, todo') \in Int
        /\ InBuilder(b)' \in Int /\ Cardinality(Keys(b)') \in Int
    BY <2>1, <2>2, <2>3, <2>4
  <2>6. References(b)' =
          References(b) + ((held'[b] - held[b]) + (Times(b, todo') - Times(b, todo))
                           + (InBuilder(b)' - InBuilder(b))
                           + (Cardinality(Keys(b)') - Cardinality(Keys(b)))
                           + (Cardinality(Uses(b)') - Cardinality(Uses(b))))
        /\ References(b) \in Nat
    BY <2>5, ReferencesChange
  <2> QED BY <2>1, <2>2, <2>3, <2>4, <2>6
<1>9. NodesTypeOK'
  BY <1>1, <1>2, <1>4 DEF NodesTypeOK, Places
<1>10. NoDangling'
  <2>1. \A b \in Live' : Range(mem'[b].kids) \subseteq Live'
    BY <1>1, <1>3, <1>4, <1>5 DEF NoDangling, Live
  <2>2. pool' \subseteq Live'
    BY <1>2, <1>5 DEF NoDangling
  <2> QED BY <1>1, <1>2, <1>5, <2>1, <2>2 DEF NoDangling
<1>11. Exact'
  <2> SUFFICES ASSUME NEW b \in Live'
               PROVE  \/ b \in Range(d_maxedOut) /\ Rc(mem, b)' = MaxRc
                      \/ b \notin Range(d_maxedOut) /\ Rc(mem, b)' = References(b)' /\ Rc(mem, b)' < MaxRc
    BY DEF Exact
  <2>1. CASE b = a
    <3>1. References(b)' = 0
      BY <1>2, <1>8, <2>1, FreeUnreferred
    <3>2. b \notin Range(d_maxedOut)
      BY <1>5, <2>1 DEF NoDangling
    <3>3. Rc(mem, b)' = 0
      BY <1>3, <1>4, <2>1 DEF Rc
    <3> QED BY <1>1, <3>1, <3>2, <3>3
  <2>2. CASE b # a
    <3>1. b \in Live /\ b \in Addr /\ Rc(mem, b)' = Rc(mem, b)
      BY <1>4, <1>5, <2>2 DEF Live, Rc
    <3> QED BY <1>8, <3>1 DEF Exact
  <2> QED BY <2>1, <2>2
<1>12. Pooled'
  BY <1>2, <1>3, <1>4, <1>5 DEF Pooled, Live
<1>13. HashConsed'
  <2> SUFFICES ASSUME NEW b \in Live', NEW c \in Live', b # c, mem'[b].kind \notin Variable,
                      mem'[b].kind = mem'[c].kind, mem'[b].kids = mem'[c].kids
               PROVE  FALSE
    BY DEF HashConsed
  <2>1. ASSUME NEW d \in Live, mem[d].kind = builder.kind, mem[d].kids = builder.kids, builder.kind \notin Variable
        PROVE  FALSE
    BY <2>1 DEF Pooled, poolLookup
  <2>2. CASE b = a
    BY <1>3, <1>4, <1>5, <2>1, <2>2 DEF Live
  <2>3. CASE c = a
    BY <1>3, <1>4, <1>5, <2>1, <2>3 DEF Live
  <2>4. CASE b # a /\ c # a
    BY <1>4, <1>5, <2>4 DEF HashConsed, Live
  <2> QED BY <2>2, <2>3, <2>4
<1>14. NothingLost'
  BY <1>2, <1>4, <1>5, <1>6 DEF NothingLost, Rc, Live
<1>15. Acyclic'
  <2> SUFFICES ASSUME NEW S \in SUBSET Live', S # {}
               PROVE  \E m \in S : \A p \in S : m \notin Range(mem'[p].kids)
    BY DEF Acyclic
  <2>1. CASE a \in S
    <3>1. \A p \in S : a \notin Range(mem'[p].kids)
      BY <1>1, <1>3, <1>4, <1>5 DEF NoDangling, Live
    <3> QED BY <2>1, <3>1
  <2>2. CASE a \notin S
    <3>1. S \in SUBSET Live
      BY <1>5, <2>2
    <3>2. PICK m \in S : \A p \in S : m \notin Range(mem[p].kids)
      BY <3>1 DEF Acyclic
    <3>3. \A p \in S : mem'[p] = mem[p]
      BY <1>4, <2>2, <3>1 DEF Live
    <3> QED BY <3>2, <3>3
  <2> QED BY <2>1, <2>2
<1>16. ResultSafe'
  <2>1. held[a] = 0
    BY <1>2 DEF NoDangling, NodesTypeOK, NodeManagerAssumption
  <2> QED BY <1>1, <1>2, <2>1 DEF ResultSafe
<1>17. ControlRight' /\ SortRight' /\ FiniteUses'
  BY <1>7 DEF ControlRight, SortRight, FiniteUses
<1> QED BY <1>9, <1>10, <1>11, <1>12, <1>13, <1>14, <1>15, <1>16, <1>17

\* The Node that is returned, or assigned, takes its reference.
LEMMA StoreStep ==
  ASSUME NodeManagerAssumption, NodesInv, Store
  PROVE  NodesInv'
<1> USE DEF NodesInv, Store
<1> DEFINE a == result.nv
<1>1. /\ a \in Live /\ a \in Addr /\ result.key \in Live /\ result.key \in Addr
      /\ result.place \in Places
      /\ held \in [Addr -> 0 .. MaxHeld] /\ MaxHeld \in Nat
      /\ attr \in [Addr -> Addr \cup {None}] /\ None \notin Addr
  BY DEF NoDangling, NodesTypeOK, NodeManagerAssumption
<1>2. SameNodes
  BY <1>1, IncMemory
<1>3. result.place = "attribute" => attr[result.key] = None
  BY DEF ResultSafe
<1>4. /\ held' \in [Addr -> 0 .. MaxHeld] /\ attr' \in [Addr -> Addr \cup {None}]
      /\ \A b \in Addr : held'[b] > 0 => b \in Live
      /\ \A b \in Addr : attr'[b] # None => b \in Live /\ attr'[b] \in Live
  BY <1>1 DEF ResultSafe, NoDangling
<1>5. \A b \in Live : References(b)' = References(b) + (IF b = a THEN 1 ELSE 0)
  <2> SUFFICES ASSUME NEW b \in Live PROVE References(b)' = References(b) + (IF b = a THEN 1 ELSE 0)
    OBVIOUS
  <2>1. /\ b \in Addr /\ b # None
        /\ held[b] \in Nat /\ Times(b, todo) \in Nat /\ InBuilder(b) \in Nat
        /\ Cardinality(Keys(b)) \in Nat /\ Cardinality(Uses(b)) \in Nat
    BY ReferencesType DEF Live, NodeManagerAssumption
  <2>2. InBuilder(b)' = InBuilder(b) /\ todo' = todo /\ Uses(b)' = Uses(b)
    BY <1>2, <2>1, UsesSame DEF InBuilder
  <2>3. CASE result.place = "handle"
    <3>1. held'[b] = held[b] + (IF b = a THEN 1 ELSE 0)
      BY <1>1, <2>1, <2>3
    <3>2. Keys(b)' = Keys(b)
      BY <2>3 DEF Keys
    <3> QED BY <2>1, <2>2, <3>1, <3>2, ReferencesChange
  <2>4. CASE result.place = "attribute"
    <3>1. held'[b] = held[b]
      BY <2>4
    <3>2. Cardinality(Keys(b)') = Cardinality(Keys(b)) + (IF a = b THEN 1 ELSE 0)
      BY <1>1, <1>3, <2>1, <2>4, KeysSet
    <3>3. Cardinality(Uses(b)') \in Int /\ held'[b] \in Int /\ Times(b, todo') \in Int
          /\ InBuilder(b)' \in Int /\ Cardinality(Keys(b)') \in Int
      BY <2>1, <2>2, <3>1, <3>2
    <3>4. References(b)' =
            References(b) + ((held'[b] - held[b]) + (Times(b, todo') - Times(b, todo))
                             + (InBuilder(b)' - InBuilder(b))
                             + (Cardinality(Keys(b)') - Cardinality(Keys(b)))
                             + (Cardinality(Uses(b)') - Cardinality(Uses(b))))
          /\ References(b) \in Nat
      BY <2>1, <3>3, ReferencesChange
    <3>5. References(b)' = References(b) + (IF a = b THEN 1 ELSE 0)
      BY <2>1, <2>2, <3>1, <3>2, <3>4
    <3> QED BY <3>5
  <2> QED BY <1>1, <2>3, <2>4 DEF Places
<1>6. /\ Exact' /\ Pooled' /\ HashConsed' /\ Acyclic' /\ FiniteUses' /\ SortRight'
      /\ mem' \in [Addr -> NodeValueType \cup {None}]
      /\ d_maxedOut' \in Seq(Addr) /\ IsInjective(d_maxedOut')
      /\ Range(d_maxedOut') \subseteq Range(d_maxedOut) \cup {a}
      /\ \A b \in Live : Rc(mem, b)' = 0 => Rc(mem, b) = 0 /\ b # a
  BY <1>1, <1>5, IncStep
<1>7. NodesTypeOK'
  BY <1>4, <1>6 DEF NodesTypeOK
<1>8. NoDangling'
  BY <1>1, <1>2, <1>4, <1>6 DEF NoDangling, SameNodes
<1>9. NothingLost'
  BY <1>2, <1>6 DEF NothingLost, SameNodes
<1>10. ResultSafe' /\ ControlRight'
  BY DEF ResultSafe, ControlRight
<1> QED BY <1>6, <1>7, <1>8, <1>9, <1>10

-----------------------------------------------------------------------------
(* Steps of the manager. *)

\* A step that gives up n[b] references to every b.
LEMMA DecStep ==
  ASSUME NodeManagerAssumption, NodesInv, NEW n \in [Addr -> Nat],
         NEW s, s = decrRefCounts([mem |-> mem, zs |-> d_zombies], n),
         mem' = s.mem, UNCHANGED <<pool, d_maxedOut>>,
         \A b \in Live : n[b] <= References(b) /\ References(b)' = References(b) - n[b]
  PROVE  /\ Exact' /\ Pooled' /\ HashConsed' /\ Acyclic' /\ FiniteUses' /\ SameNodes
         /\ mem' \in [Addr -> NodeValueType \cup {None}]
         /\ d_zombies \subseteq s.zs /\ s.zs \subseteq Live
         /\ \A b \in Live : Rc(mem, b)' = 0 => Rc(mem, b) = 0 \/ b \in s.zs
<1> USE DEF NodesInv
<1>1. /\ mem' \in [Addr -> NodeValueType \cup {None}]
      /\ \A b \in Addr : mem'[b] = None <=> mem[b] = None
      /\ \A b \in Live : /\ mem'[b].kind = mem[b].kind /\ mem'[b].kids = mem[b].kids
                         /\ mem'[b].rc = Lowered(Rc(mem, b), n[b])
      /\ s.zs = d_zombies \cup {b \in Live : Rc(mem, b) \in (1 .. n[b]) \ {MaxRc}}
  BY DecMemory
<1>2. Live' = Live
  BY <1>1 DEF Live
<1>3. SameNodes
  BY <1>1, <1>2 DEF SameNodes
<1>4. ASSUME NEW b \in Live
      PROVE  /\ \/ b \in Range(d_maxedOut) /\ Rc(mem, b)' = MaxRc
                \/ b \notin Range(d_maxedOut) /\ Rc(mem, b)' = References(b)' /\ Rc(mem, b)' < MaxRc
             /\ Rc(mem, b)' = 0 => Rc(mem, b) = 0 \/ b \in s.zs
  <2>1. n[b] \in Nat /\ n[b] <= References(b) /\ References(b)' = References(b) - n[b]
    BY DEF Live
  <2>2. Rc(mem, b)' = Lowered(Rc(mem, b), n[b])
    BY <1>1 DEF Rc
  <2>3. /\ \/ b \in Range(d_maxedOut) /\ Lowered(Rc(mem, b), n[b]) = MaxRc
           \/ b \notin Range(d_maxedOut) /\ Lowered(Rc(mem, b), n[b]) = References(b) - n[b]
              /\ Lowered(Rc(mem, b), n[b]) < MaxRc
        /\ Lowered(Rc(mem, b), n[b]) = 0 <=> Rc(mem, b) = 0 \/ Rc(mem, b) \in (1 .. n[b]) \ {MaxRc}
    BY <2>1, DecExact
  <2> QED BY <1>1, <2>1, <2>2, <2>3
<1>5. Exact'
  BY <1>2, <1>4 DEF Exact
<1>6. d_zombies \subseteq s.zs /\ s.zs \subseteq Live
  BY <1>1 DEF NoDangling
<1> QED BY <1>1, <1>3, <1>4, <1>5, <1>6, UsesSame

\* A call of dec, and the collection that it may start.
LEMMA DecActionStep ==
  ASSUME NodeManagerAssumption, NodesInv, Dec
  PROVE  NodesInv'
<1> USE DEF NodesInv, Dec
<1>0. PICK a \in Live : a = Head(todo)
  <2>1. todo \in Seq(Addr) /\ todo # <<>> /\ Range(todo) \subseteq Live
    BY DEF NodesTypeOK, NoDangling
  <2>2. Head(todo) \in Range(todo)
    BY <2>1 DEF Range
  <2> QED BY <2>1, <2>2
<1> DEFINE n == [b \in Addr |-> IF b = a THEN 1 ELSE 0]
           s == dec([mem |-> mem, zs |-> d_zombies], a)
           full == Rc(s.mem, a) = 0 /\ Cardinality(s.zs) > ZombieLimit
<1>1. /\ a \in Live /\ a \in Addr /\ todo \in Seq(Addr) /\ todo' = Tail(todo) /\ todo' \in Seq(Addr)
      /\ Range(todo') \subseteq Range(todo) /\ Range(todo) \subseteq Live /\ a \in Range(todo)
  <2>1. todo \in Seq(Addr) /\ todo # <<>> /\ Range(todo) \subseteq Live
    BY DEF NodesTypeOK, NoDangling
  <2>2. Head(todo) \in Range(todo) /\ Tail(todo) \in Seq(Addr) /\ Range(Tail(todo)) \subseteq Range(todo)
    BY <2>1 DEF Range
  <2> QED BY <1>0, <2>1, <2>2 DEF Live
<1>2. /\ n \in [Addr -> Nat] /\ \A b \in Addr : n[b] = IF b = a THEN 1 ELSE 0
      /\ s = decrRefCounts([mem |-> mem, zs |-> d_zombies], n)
      /\ mem' = s.mem /\ UNCHANGED <<pool, d_maxedOut>>
  BY <1>0 DEF dec
<1>3. ASSUME NEW b \in Live
      PROVE  /\ n[b] <= References(b) /\ References(b)' = References(b) - n[b]
             /\ References(b)' >= held[b] + Cardinality(Uses(b))
  <2>1. /\ b \in Addr /\ b # None
        /\ held[b] \in Nat /\ Times(b, todo) \in Nat /\ InBuilder(b) \in Nat
        /\ Cardinality(Keys(b)) \in Nat /\ Cardinality(Uses(b)) \in Nat
    BY ReferencesType DEF Live, NodeManagerAssumption
  <2>2. /\ held'[b] = held[b] /\ InBuilder(b)' = InBuilder(b) /\ Keys(b)' = Keys(b)
        /\ Times(b, todo) = Times(b, todo') + n[b] /\ Times(b, todo') \in Nat /\ n[b] \in Nat
    BY <1>0, <1>1, <1>2, <2>1, TimesTail, TimesType DEF InBuilder, Keys
  <2>3. Uses(b)' = Uses(b)
    <3>1. SameNodes
      <4> HIDE DEF s, n
      <4>1. /\ \A c \in Addr : mem'[c] = None <=> mem[c] = None
            /\ \A c \in Live : mem'[c].kind = mem[c].kind /\ mem'[c].kids = mem[c].kids
        BY <1>2, DecMemory
      <4> QED BY <4>1 DEF SameNodes, Live
    <3> QED BY <2>1, <3>1, UsesSame
  <2>4. References(b)' = References(b) - n[b]
    <3>1. Cardinality(Uses(b)') \in Int /\ held'[b] \in Int /\ Times(b, todo') \in Int
          /\ InBuilder(b)' \in Int /\ Cardinality(Keys(b)') \in Int
      BY <2>1, <2>2, <2>3
    <3>2. /\ References(b)' =
               References(b) + ((held'[b] - held[b]) + (Times(b, todo') - Times(b, todo))
                                + (InBuilder(b)' - InBuilder(b))
                                + (Cardinality(Keys(b)') - Cardinality(Keys(b)))
                                + (Cardinality(Uses(b)') - Cardinality(Uses(b))))
          /\ References(b) \in Nat
      BY <2>1, <3>1, ReferencesChange
    <3> HIDE DEF n
    <3> QED BY <2>1, <2>2, <2>3, <3>2
  <2>5. n[b] <= References(b)
    <3>1. References(b) \in Nat
      BY <2>1, ReferencesType
    <3>2. b = a => References(b) # 0
      BY <1>1, Unreferred
    <3> QED BY <1>2, <2>1, <3>1, <3>2
  <2>6. References(b)' >= held[b] + Cardinality(Uses(b))
    <3> DEFINE h == held[b]
               t == Times(b, todo')
               i == InBuilder(b)
               k == Cardinality(Keys(b))
               u == Cardinality(Uses(b))
    <3>1. h \in Nat /\ t \in Nat /\ i \in Nat /\ k \in Nat /\ u \in Nat
      BY <2>1, <2>2
    <3>2. References(b)' = h + t + i + k + u
      BY <2>2, <2>3 DEF References
    <3>3. References(b)' >= h + u
      <4> HIDE DEF h, t, i, k, u
      <4> QED BY <3>1, <3>2
    <3> QED BY <3>3
  <2> QED BY <2>4, <2>5, <2>6
<1> HIDE DEF n
<1>4. /\ Exact' /\ Pooled' /\ HashConsed' /\ Acyclic' /\ FiniteUses' /\ SameNodes
      /\ mem' \in [Addr -> NodeValueType \cup {None}]
      /\ d_zombies \subseteq s.zs /\ s.zs \subseteq Live
      /\ \A b \in Live : Rc(mem, b)' = 0 => Rc(mem, b) = 0 \/ b \in s.zs
  <2> HIDE DEF s
  <2> QED BY <1>2, <1>3, DecStep
<1>5. /\ zombies' = IF full THEN {z \in s.zs : Rc(mem, z)' = 0} ELSE {}
      /\ d_zombies' = IF full THEN {} ELSE s.zs
      /\ full => Rc(mem, a)' = 0
      /\ zombies' \subseteq Live /\ d_zombies' \subseteq Live
  <2>1. /\ zombies' = IF full THEN ToReclaim(s.mem, s.zs) ELSE {}
        /\ d_zombies' = IF full THEN {} ELSE s.zs
        /\ full => Rc(s.mem, a) = 0
    BY <1>0
  <2> HIDE DEF s, full
  <2>2. ToReclaim(s.mem, s.zs) = {z \in s.zs : Rc(mem, z)' = 0} /\ Rc(s.mem, a) = Rc(mem, a)'
    BY <1>2 DEF ToReclaim, Rc
  <2> QED BY <1>4, <2>1, <2>2
<1> HIDE DEF s, full
<1>6. NodesTypeOK'
  BY <1>1, <1>4, <1>5 DEF NodesTypeOK, Live
<1>7. NoDangling'
  BY <1>1, <1>4, <1>5 DEF NoDangling, SameNodes
<1>8. NothingLost'
  <2> SUFFICES ASSUME NEW b \in Live, Rc(mem, b)' = 0
               PROVE  b \in d_zombies' \cup zombies' \/ (result # None /\ result.nv = b)
    BY <1>4 DEF NothingLost, SameNodes
  <2>1. b \in s.zs \/ (result # None /\ result.nv = b)
    BY <1>4 DEF NothingLost
  <2> QED BY <1>5, <2>1
<1>9. SortRight'
  BY DEF SortRight
<1>10. ControlRight'
  BY <1>5 DEF ControlRight
<1>11. ASSUME NEW b \in Live, NEW p \in Live, b \in Range(mem[p].kids) \/ held[b] > 0
       PROVE  Rc(mem, b)' # 0 /\ b \notin zombies'
  <2>1. b \in Addr /\ held[b] \in Nat /\ Cardinality(Uses(b)) \in Nat /\ IsFiniteSet(Uses(b))
    BY ReferencesType DEF Live, FiniteUses
  <2>2. b \in Range(mem[p].kids) => Cardinality(Uses(b)) # 0
    <3> SUFFICES ASSUME NEW i \in DOMAIN mem[p].kids, mem[p].kids[i] = b PROVE Uses(b) # {}
      BY <2>1, FS_EmptySet DEF Range
    <3>1. <<p, i>> \in {p} \X At(b, mem[p].kids)
      BY DEF At
    <3> QED BY <3>1 DEF Uses
  <2>3. References(b)' >= held[b] + Cardinality(Uses(b))
    BY <1>3
  <2>4. References(b)' # 0
    BY <1>11, <2>1, <2>2, <2>3
  <2>5. Rc(mem, b)' # 0
    <3>1. b \in Live' /\ MaxRc # 0
      BY <1>4 DEF SameNodes, NodeManagerAssumption
    <3> QED BY <1>4, <2>4, <3>1 DEF Exact
  <2> QED BY <1>5, <2>5
<1>12. ResultSafe'
  <2> SUFFICES ASSUME result # None PROVE ResultSafe'
    BY DEF ResultSafe
  <2>1. result.nv \in Live /\ result.key \in Live
    BY DEF NoDangling
  <2>2. /\ result.place = "handle" => held[result.nv] < MaxHeld /\ result.key = result.nv
        /\ result.place = "attribute" => attr[result.key] = None
    BY DEF ResultSafe
  <2>3. CASE \E p \in Live : todo = <<p>> /\ result.nv \in Range(mem[p].kids) /\ result.key = result.nv
    <3>1. PICK p \in Live : todo = <<p>> /\ result.nv \in Range(mem[p].kids) /\ result.key = result.nv
      BY <2>3
    <3>2. todo' = <<>>
      BY <3>1
    <3>3. result.nv \notin zombies'
      BY <1>11, <2>1, <3>1
    <3> QED BY <2>2, <3>1, <3>2, <3>3 DEF ResultSafe
  <2>4. CASE Range(todo) \subseteq Range(mem[result.nv].kids) /\ result.key = result.nv
    <3>1. Rc(mem, a)' # 0
      <4>1. a \in Range(mem[result.nv].kids)
        BY <1>1, <2>4
      <4> QED BY <1>1, <1>11, <2>1, <4>1
    <3>2. zombies' = {}
      BY <1>5, <3>1
    <3>3. Range(todo') \subseteq Range(mem'[result.nv].kids)
      BY <1>1, <1>4, <2>1, <2>4 DEF SameNodes
    <3> QED BY <2>2, <2>4, <3>2, <3>3 DEF ResultSafe
  <2>5. CASE held[result.nv] > 0 /\ held[result.key] > 0
    <3>1. result.nv \notin zombies' /\ result.key \notin zombies'
      BY <1>11, <2>1, <2>5
    <3> QED BY <2>2, <2>5, <3>1 DEF ResultSafe
  <2> QED BY <2>3, <2>4, <2>5 DEF ResultSafe
<1> QED BY <1>4, <1>6, <1>7, <1>8, <1>9, <1>10, <1>12

\* A collection starts with the zombies that nothing refers to.
LEMMA StartStep ==
  ASSUME NodeManagerAssumption, NodesInv, zombies = {}, result = None,
         phase \notin {"sort", "gone"},
         zombies' = ToReclaim(mem, d_zombies) /\ d_zombies' = {},
         UNCHANGED <<mem, pool, d_maxedOut, attr, held, builder, todo, result, phase, topo>>
  PROVE  NodesInv'
<1> USE DEF NodesInv
<1>1. zombies' \subseteq d_zombies /\ (\A z \in zombies' : Rc(mem, z) = 0) /\ d_zombies \subseteq Live
  BY DEF ToReclaim, NoDangling
<1>2. \A b \in Live : References(b)' = References(b)
  BY DEF References, InBuilder, Keys, Uses, Live
<1>3. Exact' /\ Pooled' /\ HashConsed' /\ Acyclic' /\ FiniteUses' /\ Live' = Live
  BY <1>2, QuietStep
<1>4. NodesTypeOK'
  BY <1>1 DEF NodesTypeOK
<1>5. NoDangling'
  BY <1>1, <1>3 DEF NoDangling
<1>6. NothingLost'
  BY <1>1, <1>3 DEF NothingLost, Rc, ToReclaim
<1>7. ResultSafe' /\ SortRight'
  BY DEF ResultSafe, SortRight
<1>8. ControlRight'
  BY <1>1 DEF ControlRight, Rc
<1> QED BY <1>3, <1>4, <1>5, <1>6, <1>7, <1>8

\* A zombie is freed: nothing refers to it, and what it referred to is referred to
\* once less for every occurrence.
LEMMA ReclaimStep ==
  ASSUME NodeManagerAssumption, NodesInv, Unforced, NEW a \in zombies, zombies' = zombies \ {a},
         Rc(mem, a) = 0, Reclaim(a),
         UNCHANGED <<d_maxedOut, held, builder, todo, result, phase, topo>>
  PROVE  NodesInv'
<1> USE DEF NodesInv
<1> DEFINE n == GivenUpBy(a)
           s == decrRefCounts([mem |-> mem, zs |-> d_zombies], n)
           kids == mem[a].kids
<1>1. /\ a \in Live /\ a \in Addr /\ a \notin d_zombies
      /\ kids \in Seq(Addr) /\ Range(kids) \subseteq Live
      /\ attr \in [Addr -> Addr \cup {None}] /\ None \notin Addr
      /\ MaxRc \in Nat \ {0}
  BY DEF NodesTypeOK, NoDangling, ControlRight, Live, NodeValueType, NodeManagerAssumption
<1>2. /\ pool' = pool \ {a} /\ attr' = [attr EXCEPT ![a] = None]
      /\ mem' = [s.mem EXCEPT ![a] = None] /\ d_zombies' = s.zs
  BY DEF Reclaim
<1>3. /\ n \in [Addr -> Nat]
      /\ \A b \in Addr : n[b] = Times(b, kids) + (IF attr[a] = b THEN 1 ELSE 0)
  <2>1. \A b \in Addr : Times(b, kids) \in Nat
    BY <1>1, TimesType
  <2> HIDE DEF kids
  <2>2. n = [b \in Addr |-> Times(b, kids) + IF attr[a] = b THEN 1 ELSE 0]
    BY DEF GivenUpBy, kids
  <2> QED BY <2>1, <2>2
<1> HIDE DEF n
<1>4. /\ s.mem \in [Addr -> NodeValueType \cup {None}]
      /\ \A b \in Addr : s.mem[b] = None <=> mem[b] = None
      /\ \A b \in Live : /\ s.mem[b].kind = mem[b].kind /\ s.mem[b].kids = mem[b].kids
                         /\ s.mem[b].rc = Lowered(Rc(mem, b), n[b])
      /\ s.zs = d_zombies \cup {b \in Live : Rc(mem, b) \in (1 .. n[b]) \ {MaxRc}}
  BY <1>3, DecMemory
<1> HIDE DEF s
<1>5. /\ mem' \in [Addr -> NodeValueType \cup {None}]
      /\ mem'[a] = None /\ \A b \in Addr \ {a} : mem'[b] = s.mem[b]
  BY <1>1, <1>2, <1>4
<1>6. /\ Live' = Live \ {a}
      /\ \A b \in Live' : mem'[b].kind = mem[b].kind /\ mem'[b].kids = mem[b].kids
                          /\ Rc(mem, b)' = Lowered(Rc(mem, b), n[b])
  BY <1>1, <1>4, <1>5 DEF Live, Rc
<1>7. a \notin Range(d_maxedOut) /\ References(a) = 0
  BY <1>1 DEF Exact
<1>8. /\ held[a] = 0 /\ a \notin Range(todo)
      /\ builder # None => a \notin Range(builder.kids)
      /\ \A k \in Addr : attr[k] # a
      /\ \A p \in Live : a \notin Range(mem[p].kids)
  BY <1>1, <1>7, Unreferred
<1>9. ASSUME NEW b \in Live
      PROVE  /\ IsFiniteSet(Uses(b)')
             /\ Cardinality(Uses(b)') = Cardinality(Uses(b)) - Times(b, kids)
             /\ Cardinality(Uses(b)') \in Nat /\ Times(b, kids) \in Nat
  <2> DEFINE old == {a} \X At(b, kids)
  <2>1. IsFiniteSet(Uses(b)) /\ Cardinality(Uses(b)) \in Nat
    BY FS_CardinalityType DEF FiniteUses, Live
  <2>2. IsFiniteSet(old) /\ Cardinality(old) = Times(b, kids) /\ Times(b, kids) \in Nat
    BY <1>1, ByOneParent, TimesType
  <2>3. Uses(b) = Uses(b)' \cup old
    <3>1. Uses(b) = (UNION {{p} \X At(b, mem[p].kids) : p \in Live \ {a}}) \cup old
      BY <1>1 DEF Uses
    <3>2. Uses(b)' = UNION {{p} \X At(b, mem[p].kids) : p \in Live \ {a}}
      BY <1>6 DEF Uses
    <3> QED BY <3>1, <3>2
  <2>4. Uses(b)' \cap old = {}
    BY <1>6 DEF Uses
  <2> HIDE DEF old
  <2>5. IsFiniteSet(Uses(b)') /\ Cardinality(Uses(b)') \in Nat
    <3>1. Uses(b)' \subseteq Uses(b)
      BY <2>3
    <3> QED BY <2>1, <3>1, FS_Subset, FS_CardinalityType
  <2>6. Cardinality(Uses(b)' \cup old) = Cardinality(Uses(b)') + Cardinality(old) - Cardinality(Uses(b)' \cap old)
    BY <2>2, <2>5, FS_Union
  <2>7. Cardinality(Uses(b)' \cap old) = 0
    BY <2>4, FS_EmptySet
  <2> QED BY <2>1, <2>2, <2>3, <2>5, <2>6, <2>7
<1>10. ASSUME NEW b \in Live
       PROVE  References(b)' = References(b) - n[b] /\ References(b)' \in Nat /\ References(b) \in Nat /\ n[b] \in Nat
  <2>1. /\ b \in Addr /\ b # None
        /\ held[b] \in Nat /\ Times(b, todo) \in Nat /\ InBuilder(b) \in Nat
        /\ Cardinality(Keys(b)) \in Nat /\ Cardinality(Uses(b)) \in Nat
    BY ReferencesType DEF Live, NodeManagerAssumption
  <2>2. held'[b] = held[b] /\ todo' = todo /\ InBuilder(b)' = InBuilder(b)
    BY DEF InBuilder
  <2>3. Cardinality(Keys(b)') = Cardinality(Keys(b)) - (IF attr[a] = b THEN 1 ELSE 0)
    BY <1>1, <1>2, <2>1, KeysSet
  <2>4. Cardinality(Keys(b)') \in Nat
    <3>1. Keys(b)' \subseteq Addr /\ IsFiniteSet(Addr)
      BY DEF Keys, NodeManagerAssumption
    <3> QED BY <3>1, FS_Subset, FS_CardinalityType
  <2>5. Cardinality(Uses(b)') \in Int /\ held'[b] \in Int /\ Times(b, todo') \in Int
        /\ InBuilder(b)' \in Int /\ Cardinality(Keys(b)') \in Int
    BY <1>9, <2>1, <2>2, <2>4
  <2>6. References(b)' =
               References(b) + ((held'[b] - held[b]) + (Times(b, todo') - Times(b, todo))
                                + (InBuilder(b)' - InBuilder(b))
                                + (Cardinality(Keys(b)') - Cardinality(Keys(b)))
                                + (Cardinality(Uses(b)') - Cardinality(Uses(b))))
          /\ References(b) \in Nat
    BY <2>1, <2>5, ReferencesChange
  <2>7. /\ n[b] = Times(b, kids) + (IF attr[a] = b THEN 1 ELSE 0)
        /\ Cardinality(Uses(b)') = Cardinality(Uses(b)) - Times(b, kids) /\ Times(b, kids) \in Nat
    BY <1>3, <1>9, <2>1
  <2>8. References(b)' = References(b) - n[b] /\ n[b] \in Nat
    <3> HIDE DEF kids
    <3> QED BY <2>1, <2>2, <2>3, <2>6, <2>7
  <2>9. References(b)' \in Nat
    <3>1. References(b)' = held'[b] + Times(b, todo') + InBuilder(b)' + Cardinality(Keys(b)') + Cardinality(Uses(b)')
      BY DEF References
    <3>2. held'[b] \in Nat /\ Times(b, todo') \in Nat /\ InBuilder(b)' \in Nat
      BY <2>1, <2>2
    <3>3. Cardinality(Uses(b)') \in Nat
      BY <1>9
    <3> QED BY <2>4, <3>1, <3>2, <3>3
  <2> QED BY <2>6, <2>8, <2>9
<1>11. ASSUME NEW b \in Live'
       PROVE  /\ \/ b \in Range(d_maxedOut) /\ Rc(mem, b)' = MaxRc
                 \/ b \notin Range(d_maxedOut) /\ Rc(mem, b)' = References(b)' /\ Rc(mem, b)' < MaxRc
              /\ Rc(mem, b)' = 0 => Rc(mem, b) = 0 \/ b \in s.zs
  <2>1. b \in Live /\ Rc(mem, b)' = Lowered(Rc(mem, b), n[b])
    BY <1>6
  <2>2. n[b] \in Nat /\ n[b] <= References(b) /\ References(b)' = References(b) - n[b]
    BY <1>10, <2>1
  <2>3. /\ \/ b \in Range(d_maxedOut) /\ Lowered(Rc(mem, b), n[b]) = MaxRc
           \/ b \notin Range(d_maxedOut) /\ Lowered(Rc(mem, b), n[b]) = References(b) - n[b]
              /\ Lowered(Rc(mem, b), n[b]) < MaxRc
        /\ Lowered(Rc(mem, b), n[b]) = 0 <=> Rc(mem, b) = 0 \/ Rc(mem, b) \in (1 .. n[b]) \ {MaxRc}
    BY <2>1, <2>2, DecExact
  <2> QED BY <1>4, <2>1, <2>2, <2>3
<1>12. s.zs \subseteq Live' /\ d_zombies \subseteq s.zs
  BY <1>1, <1>4, <1>6 DEF NoDangling
<1>13. Exact'
  BY <1>11 DEF Exact
<1>14. NodesTypeOK'
  <2>1. d_zombies' \subseteq Addr /\ attr' \in [Addr -> Addr \cup {None}]
    BY <1>1, <1>2, <1>12 DEF Live
  <2> QED BY <1>2, <1>5, <2>1 DEF NodesTypeOK
<1>15. NoDangling'
  <2>1. \A b \in Live' : Range(mem'[b].kids) \subseteq Live'
    BY <1>6, <1>8 DEF NoDangling
  <2>2. \A b \in Addr : attr'[b] # None => b \in Live' /\ attr'[b] \in Live'
    BY <1>1, <1>2, <1>6, <1>8 DEF NoDangling
  <2>3. result # None => result.key \in Live' /\ result.nv \in Live'
    BY <1>6 DEF NoDangling, ResultSafe
  <2>4. Range(d_maxedOut) \subseteq Live' /\ Range(topo.order) \subseteq Live'
    <3>1. a \notin Range(topo.order)
      <4>1. CASE phase \in {"open", "sort"}
        BY <1>7, <4>1 DEF SortRight
      <4>2. CASE phase \notin {"open", "sort"}
        <5>1. topo.order = <<>>
          BY <4>2 DEF Unforced, SortRight
        <5> QED BY <5>1 DEF Range
      <4> QED BY <4>1, <4>2
    <3> QED BY <1>6, <1>7, <3>1 DEF NoDangling
  <2>5. d_zombies' \cup zombies' \cup pool' \subseteq Live'
    BY <1>2, <1>6, <1>12 DEF NoDangling
  <2>6. (\A b \in Addr : held'[b] > 0 => b \in Live') /\ Range(todo') \subseteq Live'
    BY <1>6, <1>8 DEF NoDangling
  <2>7. builder' # None => Range(builder'.kids) \subseteq Live'
    BY <1>6, <1>8 DEF NoDangling
  <2> QED BY <2>1, <2>2, <2>3, <2>4, <2>5, <2>6, <2>7 DEF NoDangling
<1>16. Pooled' /\ HashConsed'
  BY <1>2, <1>6 DEF Pooled, HashConsed
<1>17. NothingLost'
  <2> SUFFICES ASSUME NEW b \in Live', Rc(mem, b)' = 0
               PROVE  b \in d_zombies' \cup zombies' \/ (result' # None /\ result'.nv = b)
    BY DEF NothingLost
  <2>1. b \in Live /\ b # a /\ (Rc(mem, b) = 0 \/ b \in s.zs)
    BY <1>6, <1>11
  <2> QED BY <1>2, <1>12, <2>1 DEF NothingLost
<1>18. Acyclic'
  <2> SUFFICES ASSUME NEW S \in SUBSET Live', S # {}
               PROVE  \E m \in S : \A p \in S : m \notin Range(mem'[p].kids)
    BY DEF Acyclic
  <2>1. S \in SUBSET Live
    BY <1>6
  <2>2. PICK m \in S : \A p \in S : m \notin Range(mem[p].kids)
    BY <2>1 DEF Acyclic
  <2> QED BY <1>6, <2>2
<1>19. ResultSafe'
  <2> SUFFICES ASSUME result # None PROVE ResultSafe'
    BY DEF ResultSafe
  <2>1. result.nv \in Live' /\ result.key \in Live'
    BY <1>6 DEF NoDangling, ResultSafe
  <2>2. /\ result.nv \notin zombies' /\ result.key \notin zombies'
        /\ result.place = "handle" => held[result.nv] < MaxHeld /\ result.key = result.nv
        /\ result.place = "attribute" => attr'[result.key] = None
    BY <1>1, <1>2, <1>6, <2>1 DEF ResultSafe, Live
  <2>3. ASSUME NEW p \in Live, todo = <<p>> PROVE p \in Live'
    <3>1. p \in Range(<<p>>)
      BY DEF Range
    <3> QED BY <1>6, <1>8, <2>3, <3>1
  <2>4. \/ todo' = <<>>
        \/ \E p \in Live' : todo' = <<p>> /\ result'.nv \in Range(mem'[p].kids) /\ result'.key = result'.nv
        \/ Range(todo') \subseteq Range(mem'[result'.nv].kids) /\ result'.key = result'.nv
        \/ held'[result'.nv] > 0 /\ held'[result'.key] > 0
    BY <1>6, <2>1, <2>3 DEF ResultSafe
  <2> QED BY <2>2, <2>4 DEF ResultSafe
<1>20. ControlRight'
  <2>1. ASSUME NEW z \in zombies' PROVE Rc(mem, z)' = 0 /\ z \notin d_zombies'
    <3>1. z \in zombies /\ z # a /\ z \in Live /\ z \in Live' /\ Rc(mem, z) = 0 /\ z \notin d_zombies
      BY <1>6, <2>1 DEF NoDangling, ControlRight
    <3>2. References(z) = 0
      BY <1>1, <3>1 DEF Exact
    <3>3. n[z] = 0
      BY <1>10, <3>1, <3>2
    <3>4. Rc(mem, z)' = 0
      BY <1>1, <1>6, <3>1, <3>3 DEF Lowered
    <3>5. z \notin s.zs
      BY <1>4, <3>1
    <3> QED BY <1>2, <3>4, <3>5
  <2>2. \A b \in Addr : attr[b] = None => attr'[b] = None
    BY <1>1, <1>2
  <2> QED BY <2>1, <2>2 DEF ControlRight
<1>21. SortRight'
  BY DEF SortRight
<1>22. FiniteUses'
  <2> SUFFICES ASSUME NEW b \in Addr PROVE IsFiniteSet(Uses(b)')
    BY DEF FiniteUses
  <2>1. Uses(b)' \subseteq Uses(b)
    BY <1>6 DEF Uses
  <2> QED BY <2>1, FS_Subset DEF FiniteUses
<1> QED BY <1>13, <1>14, <1>15, <1>16, <1>17, <1>18, <1>19, <1>20, <1>21, <1>22

\* reclaimZombies leaves a zombie alone that came back to life; none did, because
\* nothing else runs while it goes through its copy of the list.
LEMMA ReclaimZombieStep ==
  ASSUME NodeManagerAssumption, NodesInv, Unforced, NEW a \in Addr, reclaimZombie(a)
  PROVE  NodesInv'
<1>1. a \in zombies /\ zombies' = zombies \ {a} /\ Rc(mem, a) = 0
  BY DEF reclaimZombie, NodesInv, ControlRight
<1>2. Reclaim(a) /\ UNCHANGED <<d_maxedOut, held, builder, todo, result, phase, topo>>
  BY <1>1 DEF reclaimZombie
<1> QED BY <1>1, <1>2, ReclaimStep

\* reclaimZombiesUntil starts a collection.
LEMMA ReclaimUntilStep ==
  ASSUME NodeManagerAssumption, NodesInv, reclaimZombiesUntil
  PROVE  NodesInv'
BY StartStep DEF reclaimZombiesUntil, Idle

\* So does the loop of the destructor.
LEMMA ReclaimAllStep ==
  ASSUME NodeManagerAssumption, NodesInv, ReclaimAll
  PROVE  NodesInv'
BY StartStep DEF ReclaimAll, NodesInv, ControlRight

-----------------------------------------------------------------------------
(* The destructor. *)

\* The attributes give up their references all at once.
LEMMA DestroyStep ==
  ASSUME NodeManagerAssumption, NodesInv, Destroy
  PROVE  NodesInv'
<1> USE DEF NodesInv
<1> DEFINE n == [b \in Addr |-> Cardinality(Keys(b))]
           s == decrRefCounts([mem |-> mem, zs |-> d_zombies], n)
<1>0. /\ phase = "open" /\ todo = <<>> /\ result = None /\ zombies = {}
      /\ builder = None /\ \A b \in Addr : held[b] = 0
      /\ attr' = [b \in Addr |-> None] /\ phase' = "sort"
      /\ UNCHANGED <<pool, d_maxedOut, held, builder, todo, result, zombies, topo>>
  BY DEF Destroy, Idle
<1>1. /\ n \in [Addr -> Nat] /\ s = decrRefCounts([mem |-> mem, zs |-> d_zombies], n)
      /\ mem' = s.mem /\ d_zombies' = s.zs /\ UNCHANGED <<pool, d_maxedOut>>
  <2>1. n \in [Addr -> Nat]
    BY ReferencesType
  <2>2. mem' = s.mem /\ d_zombies' = s.zs
    BY DEF Destroy
  <2> QED BY <1>0, <2>1, <2>2
<1>a. \A b \in Addr : n[b] = Cardinality(Keys(b))
  OBVIOUS
<1> HIDE DEF n, s
<1>2. SameNodes
  <2>1. /\ \A b \in Addr : mem'[b] = None <=> mem[b] = None
        /\ \A b \in Live : mem'[b].kind = mem[b].kind /\ mem'[b].kids = mem[b].kids
    BY <1>1, DecMemory
  <2> QED BY <2>1 DEF SameNodes, Live
<1>3. ASSUME NEW b \in Live
      PROVE  n[b] <= References(b) /\ References(b)' = References(b) - n[b]
  <2>1. /\ b \in Addr
        /\ held[b] \in Nat /\ Times(b, todo) \in Nat /\ InBuilder(b) \in Nat
        /\ Cardinality(Keys(b)) \in Nat /\ Cardinality(Uses(b)) \in Nat
    BY ReferencesType DEF Live
  <2>2. Keys(b)' = {}
    BY <1>0, <2>1 DEF Keys, NodeManagerAssumption
  <2>3. Cardinality(Keys(b)') = 0
    BY <2>2, FS_EmptySet
  <2>4. /\ todo' = todo /\ held' = held /\ InBuilder(b)' = InBuilder(b) /\ Uses(b)' = Uses(b)
        /\ held'[b] = held[b] /\ Times(b, todo') = Times(b, todo)
        /\ Cardinality(Uses(b)') = Cardinality(Uses(b))
    <3>1. Uses(b)' = Uses(b)
      BY <1>2, <2>1, UsesSame
    <3> QED BY <1>0, <3>1 DEF InBuilder
  <2>5. /\ References(b)' = References(b) + ((held'[b] - held[b]) + (Times(b, todo') - Times(b, todo))
                               + (InBuilder(b)' - InBuilder(b))
                               + (Cardinality(Keys(b)') - Cardinality(Keys(b)))
                               + (Cardinality(Uses(b)') - Cardinality(Uses(b))))
        /\ References(b) \in Nat
    BY <2>1, <2>3, <2>4, ReferencesChange
  <2>6. References(b)' = References(b) - Cardinality(Keys(b))
    <3> DEFINE R == References(b)
               h == held[b]
               t == Times(b, todo)
               i == InBuilder(b)
               k == Cardinality(Keys(b))
               u == Cardinality(Uses(b))
    <3>1. References(b)' = R + ((h - h) + (t - t) + (i - i) + (0 - k) + (u - u)) /\ R \in Nat
      BY <2>3, <2>4, <2>5
    <3>2. h \in Nat /\ t \in Nat /\ i \in Nat /\ k \in Nat /\ u \in Nat
      BY <2>1
    <3>3. References(b)' = R - k
      <4> HIDE DEF R, h, t, i, k, u
      <4> QED BY <3>1, <3>2
    <3> QED BY <3>3
  <2>7. Cardinality(Keys(b)) <= References(b)
    <3> DEFINE h == held[b]
               t == Times(b, todo)
               i == InBuilder(b)
               k == Cardinality(Keys(b))
               u == Cardinality(Uses(b))
    <3>1. References(b) = h + t + i + k + u
      BY DEF References
    <3>2. h \in Nat /\ t \in Nat /\ i \in Nat /\ k \in Nat /\ u \in Nat
      BY <2>1
    <3>3. k <= h + t + i + k + u
      <4> HIDE DEF h, t, i, k, u
      <4> QED BY <3>2
    <3> QED BY <3>1, <3>3
  <2>8. n[b] = Cardinality(Keys(b))
    BY <1>a, <2>1
  <2> QED BY <2>6, <2>7, <2>8
<1>4. /\ Exact' /\ Pooled' /\ HashConsed' /\ Acyclic' /\ FiniteUses' /\ SameNodes
      /\ mem' \in [Addr -> NodeValueType \cup {None}]
      /\ d_zombies \subseteq s.zs /\ s.zs \subseteq Live
      /\ \A b \in Live : Rc(mem, b)' = 0 => Rc(mem, b) = 0 \/ b \in s.zs
  BY <1>1, <1>3, DecStep
<1>5. NodesTypeOK'
  BY <1>0, <1>1, <1>4 DEF NodesTypeOK, Live
<1>6. NoDangling'
  BY <1>0, <1>1, <1>4 DEF NoDangling, SameNodes
<1>7. NothingLost'
  BY <1>0, <1>1, <1>4 DEF NothingLost, SameNodes
<1>8. ResultSafe' /\ ControlRight'
  BY <1>0 DEF ResultSafe, ControlRight
<1>9. SortRight'
  BY <1>0 DEF SortRight
<1> QED BY <1>4, <1>5, <1>6, <1>7, <1>8, <1>9

\* The sort does not touch the values.
LEMMA SortOnly ==
  ASSUME NodeManagerAssumption, NodesInv, phase = "sort",
         UNCHANGED <<mem, pool, d_zombies, d_maxedOut, attr, held, builder, todo, result, zombies, phase>>,
         topo'.order \in Seq(Addr), Range(topo'.order) \subseteq Range(d_maxedOut), SortRight'
  PROVE  NodesInv'
<1> USE DEF NodesInv
<1>1. \A b \in Live : References(b)' = References(b)
  BY DEF References, InBuilder, Keys, Uses, Live
<1>2. Exact' /\ Pooled' /\ HashConsed' /\ Acyclic' /\ FiniteUses' /\ Live' = Live
  BY <1>1, QuietStep
<1>3. NodesTypeOK'
  BY DEF NodesTypeOK
<1>4. NoDangling'
  BY <1>2 DEF NoDangling
<1>5. NothingLost' /\ ResultSafe' /\ ControlRight'
  BY <1>2 DEF NothingLost, ResultSafe, ControlRight, Rc
<1> QED BY <1>2, <1>3, <1>4, <1>5

\* The next root of the sort has a full count.
LEMMA SortRootStep ==
  ASSUME NodeManagerAssumption, NodesInv, SortRoot
  PROVE  NodesInv'
<1> USE DEF NodesInv, SortRoot
<1> DEFINE root == d_maxedOut[topo.index]
           stack == IF root \in topo.visited THEN <<>> ELSE <<[done |-> FALSE, nv |-> root]>>
<1>1. DOMAIN topo = {"index", "stack", "visited", "order"}
  BY DEF SortRight
<1>2. topo' = [topo EXCEPT !.index = @ + 1, !.stack = stack]
  OBVIOUS
<1>3. DOMAIN topo' = DOMAIN topo /\ topo'.visited = topo.visited /\ topo'.order = topo.order /\ topo'.stack = stack
  <2> HIDE DEF stack, SortRoot
  <2> QED BY <1>1, <1>2
<1>4. topo'.order \in Seq(Addr) /\ Range(topo'.order) \subseteq Range(d_maxedOut)
  BY <1>3 DEF SortRight, NodesTypeOK
<1>5. ASSUME topo.visited = {}
      PROVE  topo.order = <<>> /\ \E r \in Addr : stack = <<[done |-> FALSE, nv |-> r]>>
  <2>1. topo.index = 1 /\ topo.order = <<>>
    BY <1>5 DEF SortRight
  <2>2. root \in Addr
    BY <2>1 DEF NodesTypeOK
  <2> QED BY <1>5, <2>1, <2>2
<1>6. SortRight'
  <2> HIDE DEF stack
  <2> QED BY <1>1, <1>3, <1>4, <1>5 DEF SortRight
<1> QED BY <1>4, <1>6, SortOnly

\* What is visited stays visited, and only full counts are listed.
LEMMA SortStepStep ==
  ASSUME NodeManagerAssumption, NodesInv, SortStep
  PROVE  NodesInv'
<1> USE DEF NodesInv
<1> DEFINE top == topo.stack[Len(topo.stack)]
           new == SelectSeq(Children(top.nv), LAMBDA c : c \notin topo.visited \cup {top.nv})
           left == Front(topo.stack)
           pushed == Append(left, [top EXCEPT !.done = TRUE])
                       \o [i \in 1 .. Len(new) |-> [done |-> FALSE, nv |-> new[i]]]
           order == IF top.nv \in Range(d_maxedOut) THEN Append(topo.order, top.nv) ELSE topo.order
<1>0. /\ phase = "sort" /\ topo.stack # <<>>
      /\ UNCHANGED <<mem, pool, d_zombies, d_maxedOut, attr, held, builder, todo, result, zombies, phase>>
  BY DEF SortStep
<1>1. DOMAIN topo = {"index", "stack", "visited", "order"}
  BY DEF SortRight
<1>2. /\ DOMAIN topo' = DOMAIN topo
      /\ \/ top.done /\ topo'.visited = topo.visited /\ topo'.order = order
         \/ ~top.done /\ topo'.visited = topo.visited \cup {top.nv} /\ topo'.order = topo.order
  <2>1. CASE top.done
    <3>1. topo' = [topo EXCEPT !.stack = left, !.order = order]
      BY <2>1 DEF SortStep
    <3> HIDE DEF top, left, order
    <3>2. DOMAIN topo' = DOMAIN topo /\ topo'.visited = topo.visited /\ topo'.order = order
      BY <1>1, <3>1
    <3> QED BY <2>1, <3>2
  <2>2. CASE ~top.done
    <3> DEFINE seen == topo.visited \cup {top.nv}
    <3>1. topo' = [topo EXCEPT !.visited = seen, !.stack = pushed]
      BY <2>2 DEF SortStep
    <3> HIDE DEF top, pushed, seen
    <3>2. DOMAIN topo' = DOMAIN topo /\ topo'.visited = seen /\ topo'.order = topo.order
      BY <1>1, <3>1
    <3> QED BY <2>2, <3>2 DEF seen
  <2> QED BY <2>1, <2>2
<1>3. topo.order \in Seq(Addr) /\ Range(topo.order) \subseteq Range(d_maxedOut) /\ Range(d_maxedOut) \subseteq Addr
  <2>1. topo.order \in Seq(Addr) /\ d_maxedOut \in Seq(Addr)
    BY DEF NodesTypeOK
  <2>2. Range(topo.order) \subseteq Range(d_maxedOut)
    BY <1>0 DEF SortRight
  <2>3. Range(d_maxedOut) \subseteq Addr
    BY <2>1 DEF Range
  <2> QED BY <2>1, <2>2, <2>3
<1>4. order \in Seq(Addr) /\ Range(order) \subseteq Range(d_maxedOut)
  <2>1. CASE top.nv \in Range(d_maxedOut)
    <3> DEFINE v == top.nv
    <3>1. v \in Range(d_maxedOut) /\ v \in Addr /\ order = Append(topo.order, v)
      BY <1>3, <2>1
    <3> HIDE DEF v
    <3>2. Append(topo.order, v) \in Seq(Addr) /\ Range(Append(topo.order, v)) \subseteq Range(d_maxedOut)
      <4> HIDE DEF order, top
      <4>1. Range(Append(topo.order, v)) \subseteq Range(topo.order) \cup {v}
        BY <1>3, <3>1 DEF Range
      <4> QED BY <1>3, <3>1, <4>1
    <3> QED BY <3>1, <3>2
  <2>2. CASE top.nv \notin Range(d_maxedOut)
    BY <1>3, <2>2
  <2> QED BY <2>1, <2>2
<1>5. ASSUME topo.visited = {} PROVE ~top.done
  <2>1. PICK r \in Addr : topo.stack = <<[done |-> FALSE, nv |-> r]>>
    BY <1>0, <1>5 DEF SortRight
  <2> QED BY <2>1
<1> HIDE DEF top, left, pushed, order
<1>6. /\ DOMAIN topo' = DOMAIN topo
      /\ topo'.order \in Seq(Addr) /\ Range(topo'.order) \subseteq Range(d_maxedOut)
      /\ topo'.visited # {}
  <2>1. CASE top.done
    BY <1>2, <1>4, <1>5, <2>1
  <2>2. CASE ~top.done
    <3>1. DOMAIN topo' = DOMAIN topo /\ topo'.visited = topo.visited \cup {top.nv} /\ topo'.order = topo.order
      BY <1>2, <2>2
    <3>2. topo.visited \cup {top.nv} # {}
      OBVIOUS
    <3> QED BY <1>3, <3>1, <3>2
  <2> QED BY <2>1, <2>2
<1>7. SortRight'
  BY <1>0, <1>1, <1>6 DEF SortRight
<1> QED BY <1>0, <1>6, <1>7, SortOnly

\* When the sort has visited nothing, no value has a full count.
LEMMA SortDoneStep ==
  ASSUME NodeManagerAssumption, NodesInv, SortDone, Unforced'
  PROVE  NodesInv'
<1> USE DEF NodesInv
<1>0. /\ phase = "sort" /\ topo.stack = <<>> /\ topo.index > Len(d_maxedOut)
      /\ phase' = "force" /\ d_maxedOut' = <<>>
      /\ UNCHANGED <<mem, pool, d_zombies, attr, held, builder, todo, result, zombies, topo>>
  BY DEF SortDone
<1>1. topo.visited = {}
  BY <1>0 DEF Unforced
<1>2. topo.order = <<>> /\ topo.index = 1
  BY <1>0, <1>1 DEF SortRight
<1>3. d_maxedOut' = d_maxedOut
  BY <1>0, <1>2 DEF NodesTypeOK
<1>4. \A b \in Live : References(b)' = References(b)
  BY <1>0 DEF References, InBuilder, Keys, Uses, Live
<1>5. Exact' /\ Pooled' /\ HashConsed' /\ Acyclic' /\ FiniteUses' /\ Live' = Live
  BY <1>0, <1>3, <1>4, QuietStep
<1>6. NodesTypeOK'
  BY <1>0, <1>3 DEF NodesTypeOK
<1>7. NoDangling'
  BY <1>0, <1>3, <1>5 DEF NoDangling
<1>8. NothingLost' /\ ResultSafe' /\ ControlRight'
  BY <1>0, <1>5 DEF NothingLost, ResultSafe, ControlRight, Rc
<1>9. SortRight'
  BY <1>0, <1>1, <1>2 DEF SortRight
<1> QED BY <1>5, <1>6, <1>7, <1>8, <1>9

\* The destructor ends with nothing left to collect.
LEMMA GoneStep ==
  ASSUME NodeManagerAssumption, NodesInv, Gone, Unforced'
  PROVE  NodesInv'
<1> USE DEF NodesInv
<1>0. /\ phase = "force" /\ zombies = {} /\ d_zombies = {} /\ phase' = "gone"
      /\ UNCHANGED <<mem, pool, d_zombies, d_maxedOut, attr, held, builder, todo, result, zombies, topo>>
  BY DEF Gone
<1>1. \A b \in Live : References(b)' = References(b)
  BY <1>0 DEF References, InBuilder, Keys, Uses, Live
<1>2. Exact' /\ Pooled' /\ HashConsed' /\ Acyclic' /\ FiniteUses' /\ Live' = Live
  BY <1>0, <1>1, QuietStep
<1>3. NodesTypeOK' /\ NoDangling'
  BY <1>0, <1>2 DEF NodesTypeOK, NoDangling
<1>4. NothingLost' /\ ResultSafe' /\ ControlRight'
  BY <1>0, <1>2 DEF NothingLost, ResultSafe, ControlRight, Rc
<1>5. SortRight'
  BY <1>0 DEF SortRight
<1> QED BY <1>2, <1>3, <1>4, <1>5

\* Steps that leave the manager alone preserve the invariant.
LEMMA StutterStep ==
  ASSUME NodesInv, UNCHANGED vars
  PROVE  NodesInv'
<1> USE DEF NodesInv, vars
<1>1. Live' = Live
  BY DEF Live
<1>2. \A b \in Live : References(b)' = References(b)
  BY DEF References, InBuilder, Keys, Uses, Live
<1>3. Exact' /\ Pooled' /\ HashConsed' /\ Acyclic' /\ FiniteUses'
  BY <1>1, <1>2, QuietStep
<1>4. NodesTypeOK' /\ NoDangling' /\ NothingLost' /\ ResultSafe'
  BY <1>1 DEF NodesTypeOK, NoDangling, NothingLost, ResultSafe, Rc
<1>5. ControlRight' /\ SortRight'
  BY <1>1 DEF ControlRight, SortRight, Rc
<1> QED BY <1>3, <1>4, <1>5

-----------------------------------------------------------------------------
(* The inductive invariant. *)

\* The fields of the sort's record.
TopoFields == DOMAIN topo = {"index", "stack", "visited", "order"}

\* Once a full count has been sorted the destructor does not go back.
LEMMA ForcedStays ==
  ASSUME TopoFields, ~Unforced, [NodesNext]_vars
  PROVE  ~Unforced'
<1> USE DEF TopoFields, Unforced
<1>1. ~Client
  BY DEF Client, CopyNode, DropNode, append, AssignChild, setAttribute, NewBuilder, DropBuilder,
         ConstructKnown, ConstructNew, Idle
<1>2. CASE Manager
  BY <1>2 DEF Manager, Dec, Store, reclaimZombiesUntil, reclaimZombie, Idle
<1>3. CASE Destructor
  <2>1. ~(Destroy \/ SortRoot \/ SortStep \/ SortDone)
    BY DEF Destroy, SortRoot, SortStep, SortDone, Idle
  <2>2. CASE ReclaimAll
    BY <2>2 DEF ReclaimAll
  <2>3. CASE ForceZombie
    BY <2>3 DEF ForceZombie
  <2>4. CASE Gone
    BY <2>4 DEF Gone
  <2> QED BY <1>3, <2>1, <2>2, <2>3, <2>4 DEF Destructor
<1>4. CASE UNCHANGED vars
  BY <1>4 DEF vars
<1> QED BY <1>1, <1>2, <1>3, <1>4 DEF NodesNext

\* The sort's record keeps its fields.
LEMMA TopoFieldsStep ==
  ASSUME TopoFields, [NodesNext]_vars
  PROVE  TopoFields'
<1> USE DEF TopoFields
<1>1. CASE Client
  BY <1>1 DEF Client, CopyNode, DropNode, append, AssignChild, setAttribute, NewBuilder, DropBuilder,
         ConstructKnown, ConstructNew
<1>2. CASE Manager
  BY <1>2 DEF Manager, Dec, Store, reclaimZombiesUntil, reclaimZombie
<1>3. CASE Destructor
  <2>1. CASE SortRoot
    BY <2>1 DEF SortRoot
  <2>2. CASE SortStep
    BY <2>2 DEF SortStep
  <2>3. CASE ForceZombie
    BY <2>3 DEF ForceZombie
  <2>4. CASE Destroy \/ SortDone \/ ReclaimAll \/ Gone
    BY <2>4 DEF Destroy, SortDone, ReclaimAll, Gone
  <2> QED BY <1>3, <2>1, <2>2, <2>3, <2>4 DEF Destructor
<1>4. CASE UNCHANGED vars
  BY <1>4 DEF vars
<1> QED BY <1>1, <1>2, <1>3, <1>4 DEF NodesNext

\* Every step preserves the invariant, unless it forces a full count.
LEMMA NodesStep ==
  ASSUME NodeManagerAssumption, NodesInv, Unforced, Unforced', [NodesNext]_vars
  PROVE  NodesInv'
<1>1. CASE Client
  <2>1. ASSUME NEW a \in Addr, CopyNode(a) \/ DropNode(a) \/ append(a) PROVE NodesInv'
    BY <2>1, CopyNodeStep, DropNodeStep, AppendStep
  <2>2. ASSUME NEW a \in Addr, NEW b \in Addr, AssignChild(a, b) \/ setAttribute(a, b) PROVE NodesInv'
    BY <2>2, AssignChildStep, SetAttributeStep
  <2>3. ASSUME NEW k \in Kind, NewBuilder(k) PROVE NodesInv'
    BY <2>3, NewBuilderStep
  <2>4. CASE DropBuilder \/ ConstructKnown \/ ConstructNew
    BY <2>4, DropBuilderStep, ConstructKnownStep, ConstructNewStep
  <2> QED BY <1>1, <2>1, <2>2, <2>3, <2>4 DEF Client
<1>2. CASE Manager
  BY <1>2, DecActionStep, StoreStep, ReclaimUntilStep, ReclaimZombieStep DEF Manager
<1>3. CASE Destructor
  <2>1. ~ForceZombie
    <3>1. topo.order # <<>> /\ phase = "force" /\ topo.visited = {} => FALSE
      BY DEF NodesInv, SortRight
    <3> QED BY <3>1 DEF ForceZombie, Unforced
  <2> QED BY <1>3, <2>1, DestroyStep, SortRootStep, SortStepStep, SortDoneStep, ReclaimAllStep, GoneStep
          DEF Destructor
<1>4. CASE UNCHANGED vars
  BY <1>4, StutterStep
<1> QED BY <1>1, <1>2, <1>3, <1>4 DEF NodesNext

\* The invariant holds in every reachable state in which no full count has been
\* sorted to be forced.
LEMMA NodesInvariant ==
  ASSUME NodeManagerAssumption
  PROVE  NodesSpec => [](Unforced => NodesInv)
<1> DEFINE IInv == TopoFields /\ (Unforced => NodesInv)
<1>1. NodesInit => IInv
  BY NodesInvInit DEF NodesInit, TopoFields
<1>2. IInv /\ [NodesNext]_vars => IInv'
  BY ForcedStays, TopoFieldsStep, NodesStep
<1>3. IInv => (Unforced => NodesInv)
  OBVIOUS
<1> QED BY <1>1, <1>2, <1>3, PTL DEF NodesSpec

-----------------------------------------------------------------------------
(* What it implies. *)

\* The sorted values are among those with a full count, or there are none.
LEMMA ReferencesFollow ==
  ASSUME NodesInv, Unforced
  PROVE  ReferencesRight
<1>1. Range(topo.order) \subseteq Range(d_maxedOut)
  <2>1. CASE phase \in {"open", "sort"}
    BY <2>1 DEF NodesInv, SortRight
  <2>2. CASE phase \notin {"open", "sort"}
    BY <2>2 DEF NodesInv, SortRight, Unforced, Range
  <2> QED BY <2>1, <2>2
<1>2. CountsRight
  BY <1>1 DEF CountsRight, NodesInv, Exact
<1> QED BY <1>2 DEF ReferencesRight, NodesInv

\* What is left when the destructor ends has a value that no other refers to.
\* Its count is 0, and it would have been collected.
LEMMA CollectionFollows ==
  ASSUME NodeManagerAssumption, NodesInv
  PROVE  CollectionRight
<1> USE DEF NodesInv
<1>1. ASSUME phase = "gone", Live # {} PROVE FALSE
  <2>1. /\ todo = <<>> /\ result = None /\ builder = None /\ d_maxedOut = <<>>
        /\ zombies = {} /\ d_zombies = {}
        /\ \A b \in Addr : held[b] = 0 /\ attr[b] = None
    BY <1>1 DEF ControlRight
  <2>2. PICK m \in Live : \A p \in Live : m \notin Range(mem[p].kids)
    BY <1>1 DEF Acyclic
  <2>3. m \in Addr /\ m # None
    BY DEF Live, NodeManagerAssumption
  <2>4. Times(m, todo) = 0 /\ InBuilder(m) = 0 /\ held[m] = 0
    BY <2>1, <2>3, TimesEmpty DEF InBuilder
  <2>5. Keys(m) = {} /\ Uses(m) = {}
    BY <2>1, <2>2, <2>3 DEF Keys, Uses, At, Range
  <2>6. Cardinality(Keys(m)) = 0 /\ Cardinality(Uses(m)) = 0
    BY <2>5, FS_EmptySet
  <2>7. References(m) = 0
    BY <2>4, <2>6 DEF References
  <2>8. m \notin Range(d_maxedOut)
    BY <2>1 DEF Range
  <2>9. Rc(mem, m) = 0
    BY <2>7, <2>8 DEF Exact
  <2> QED BY <2>1, <2>9 DEF NothingLost
<1>2. AllFreed
  BY <1>1 DEF AllFreed, NoDangling
<1> QED BY <1>2 DEF CollectionRight

\* As long as the manager is used, and in its destructor too unless full counts
\* are forced there: no Node, child, builder, attribute or list refers to a freed
\* NodeValue, and d_rc is the number of references or full (inc, dec,
\* constructNV, setAttribute, reclaimZombies).
THEOREM ReferencesStayRight ==
  ASSUME NodeManagerAssumption
  PROVE  NodesSpec => [](Unforced => ReferencesRight)
<1>1. (Unforced => NodesInv) => (Unforced => ReferencesRight)
  BY ReferencesFollow
<1> QED BY <1>1, NodesInvariant, PTL

\* In the same states: equal expressions are one NodeValue, a value that nothing
\* refers to waits for collection, and ~NodeManager leaves nothing behind
\* (poolLookup, markForDeletion, reclaimZombies, ~NodeManager).
THEOREM CollectionStaysRight ==
  ASSUME NodeManagerAssumption
  PROVE  NodesSpec => [](Unforced => CollectionRight)
<1>1. (Unforced => NodesInv) => (Unforced => CollectionRight)
  BY CollectionFollows
<1> QED BY <1>1, NodesInvariant, PTL
=============================================================================
