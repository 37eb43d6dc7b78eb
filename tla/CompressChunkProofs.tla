-------------------------- MODULE CompressChunkProofs --------------------------
(* Theorems about compress_chunk on any number of threads, chunks and columns. *)
EXTENDS CompressChunk, SequenceTheorems, TLAPS

Compressing == {"copying", "spawning", "joining", "locking", "locked", "swapping", "swapped",
                "returning"}
Locking == {"locked", "swapping", "swapped"}

\* A chunk with all columns in their order, all compressed or none.
IsWhole(chunk) ==
    \E kind \in {"value", "dictionary"} : chunk = [i \in 1 .. Columns |-> Segment(kind, i)]
Dictionaries == [i \in 1 .. Columns |-> Segment("dictionary", i)]

\* The thread t between two steps: what its call has to do with is what its place says.
ThreadInv(t) ==
    /\ pc[t] = "idle" <=> chunkId[t] = 0
    /\ pc[t] \in Compressing <=> newChunk[t] # 0
    /\ pc[t] \notin Compressing \/ pc[t] = "copying" => workers[t] = NoWorkers
    /\ pc[t] \in {"spawning", "joining"} => object[t] # 0 /\ IsWhole(heap[object[t]])
    /\ pc[t] \in {"copying", "spawning"} => heap[newChunk[t]] = <<>>
    /\ pc[t] = "joining" =>
        \A i \in DOMAIN heap[newChunk[t]] :
            /\ i <= Columns /\ workers[t][i] = "finished"
            /\ heap[newChunk[t]][i] = Segment("dictionary", i)
    /\ pc[t] \in {"locking", "locked", "swapping", "swapped", "returning"} =>
        /\ heap[newChunk[t]] = Dictionaries
        /\ \A i \in 1 .. Columns : workers[t][i] = "finished"
    /\ \A i \in 1 .. Columns :
            workers[t][i] = "finished" => compressed[t][i] = Segment("dictionary", i)

LockInv ==
    /\ \A t \in Threads : t \in mutex <=> pc[t] \in Locking
    /\ \A t, u \in mutex : t = u

CompressInv ==
    /\ TypeOK
    /\ \A t \in Threads : ThreadInv(t)
    /\ \A t, u \in Threads : newChunk[t] # 0 /\ newChunk[t] = newChunk[u] => t = u
    /\ \A c \in ChunkIds : IsWhole(heap[slots[c]])
    /\ LockInv

\* What belongs to the call of a thread.
Same(t) ==
    /\ pc'[t] = pc[t] /\ chunkId'[t] = chunkId[t] /\ object'[t] = object[t]
    /\ newChunk'[t] = newChunk[t] /\ workers'[t] = workers[t] /\ compressed'[t] = compressed[t]

-----------------------------------------------------------------------------
\* A whole chunk has a segment for every column.
LEMMA WholeFacts ==
    ASSUME NEW chunk, IsWhole(chunk)
    PROVE  /\ DOMAIN chunk = 1 .. Columns /\ Len(chunk) = Columns
           /\ \A i \in 1 .. Columns : chunk[i].column = i
<1>1. PICK kind \in {"value", "dictionary"} : chunk = [i \in 1 .. Columns |-> Segment(kind, i)]
  BY DEF IsWhole
<1>2. Columns \in Nat
  BY SizesAssumption
<1> QED
  BY <1>1, <1>2 DEF Segment

\* A sequence of the dictionaries of the first columns that is long enough has all.
LEMMA AllColumns ==
    ASSUME NEW chunk \in Seq(Segments), Len(chunk) + 1 > Columns,
           \A i \in DOMAIN chunk : i <= Columns /\ chunk[i] = Segment("dictionary", i)
    PROVE  chunk = Dictionaries
<1>1. Columns \in Nat /\ Len(chunk) \in Nat /\ DOMAIN chunk = 1 .. Len(chunk)
  BY SizesAssumption
<1>2. Len(chunk) = Columns
  <2> DEFINE n == Len(chunk)
  <2>1. n \in Nat /\ n + 1 > Columns
    BY <1>1
  <2>2. \A i \in 1 .. n : i <= Columns
    BY <1>1
  <2> HIDE DEF n
  <2>3. n = Columns
    BY <1>1, <2>1, <2>2
  <2> QED
    BY <2>3 DEF n
<1>3. \A i \in 1 .. Columns : Segment("dictionary", i) \in Segments
  BY DEF Segments
<1>4. Dictionaries \in Seq(Segments) /\ Len(Dictionaries) = Columns
  BY <1>1, <1>3 DEF Dictionaries
<1>5. \A i \in 1 .. Len(chunk) : chunk[i] = Dictionaries[i]
  BY <1>1, <1>2 DEF Dictionaries
<1> QED
  BY <1>2, <1>4, <1>5, SeqEqual

\* A thread is not disturbed by what others do to chunks that it does not use.
LEMMA NotDisturbed ==
    ASSUME NEW u \in Threads, ThreadInv(u), Same(u),
           newChunk[u] # 0 => heap'[newChunk[u]] = heap[newChunk[u]],
           object[u] # 0 /\ IsWhole(heap[object[u]]) => IsWhole(heap'[object[u]])
    PROVE  ThreadInv(u)'
<1>1. pc[u] \in Compressing => heap'[newChunk[u]] = heap[newChunk[u]]
  BY DEF ThreadInv
<1>2. pc[u] \in {"copying", "spawning", "joining", "locking", "locked", "swapping", "swapped",
                 "returning"} <=> pc[u] \in Compressing
  BY DEF Compressing
<1>3. IsWhole(heap'[object[u]]) <=> IsWhole(heap[object[u]])'
  BY DEF IsWhole, Same
<1> QED
  BY <1>1, <1>2, <1>3 DEF ThreadInv, Same

\* A step of one thread on its own.
LEMMA LocalStep ==
    ASSUME CompressInv, NEW t \in Threads, TypeOK', ThreadInv(t)', LockInv',
           heap' = heap, slots' = slots, newChunk'[t] \in {0, newChunk[t]},
           \A u \in Threads \ {t} : Same(u)
    PROVE  CompressInv'
<1>1. ASSUME NEW u \in Threads \ {t} PROVE ThreadInv(u)'
  BY NotDisturbed DEF CompressInv
<1>2. \A u, v \in Threads : newChunk'[u] # 0 /\ newChunk'[u] = newChunk'[v] => u = v
  BY DEF CompressInv, Same
<1>3. ASSUME NEW c \in ChunkIds PROVE IsWhole(heap[slots[c]])'
  BY DEF CompressInv, IsWhole
<1> QED
  BY <1>1, <1>2, <1>3 DEF CompressInv

\* The lock stays with who has it when nobody passes it.
LEMMA LockStays ==
    ASSUME CompressInv, NEW t \in Threads, mutex' = mutex,
           \A u \in Threads \ {t} : pc'[u] = pc[u],
           pc'[t] \in Locking <=> pc[t] \in Locking
    PROVE  LockInv'
BY DEF CompressInv, LockInv

\* Places are what they are: the sets of them that the proofs distinguish.
LEMMA PlaceFacts ==
    /\ Compressing \subseteq Places /\ Locking \subseteq Compressing
    /\ {"idle", "fetching", "reading"} \cap Compressing = {}
    /\ {"idle", "fetching", "reading"} \subseteq Places
    /\ {"copying", "spawning", "joining", "locking", "returning"} \cap Locking = {}
BY DEF Compressing, Locking, Places

LEMMA ReaderSteps ==
    ASSUME CompressInv, NEW t \in Threads,
           (\E c \in ChunkIds : BeginFetch(t, c)) \/ EndFetch(t) \/ EndReading(t)
    PROVE  CompressInv'
<1>1. TypeOK /\ ThreadInv(t) /\ NumChunks \in Nat \ {0} /\ ChunkIds = 1 .. NumChunks
  BY SizesAssumption DEF CompressInv, ChunkIds
<1>2. ASSUME NEW c \in ChunkIds, BeginFetch(t, c) PROVE CompressInv'
  <2>1. TypeOK'
    BY SMTT(30), <1>1, <1>2, PlaceFacts DEF TypeOK, BeginFetch, GoTo
  <2>2. ThreadInv(t)'
    BY <1>1, <1>2, PlaceFacts DEF TypeOK, BeginFetch, GoTo, ThreadInv
  <2>3. LockInv'
    BY <1>1, <1>2, PlaceFacts, LockStays DEF TypeOK, BeginFetch, GoTo, Locking
  <2> QED
    BY <1>1, <1>2, <2>1, <2>2, <2>3, LocalStep DEF TypeOK, BeginFetch, GoTo, Same
<1>3. CASE EndFetch(t)
  <2>1. chunkId[t] \in ChunkIds
    BY <1>1, <1>3 DEF EndFetch, ThreadInv, TypeOK
  <2>2. TypeOK'
    BY SMTT(30), <1>1, <1>3, <2>1, PlaceFacts DEF TypeOK, EndFetch, GoTo
  <2>3. ThreadInv(t)'
    BY <1>1, <1>3, PlaceFacts DEF TypeOK, EndFetch, GoTo, ThreadInv
  <2>4. LockInv'
    BY <1>1, <1>3, PlaceFacts, LockStays DEF TypeOK, EndFetch, GoTo, Locking
  <2> QED
    BY <1>1, <1>3, <2>2, <2>3, <2>4, LocalStep DEF TypeOK, EndFetch, GoTo, Same
<1>4. CASE EndReading(t)
  <2>1. TypeOK'
    BY SMTT(30), <1>1, <1>4, PlaceFacts DEF TypeOK, EndReading, GoTo
  <2>2. ThreadInv(t)'
    BY <1>1, <1>4, PlaceFacts DEF TypeOK, EndReading, GoTo, ThreadInv
  <2>3. LockInv'
    BY <1>1, <1>4, PlaceFacts, LockStays DEF TypeOK, EndReading, GoTo, Locking
  <2> QED
    BY <1>1, <1>4, <2>1, <2>2, <2>3, LocalStep DEF TypeOK, EndReading, GoTo, Same
<1> QED
  BY <1>2, <1>3, <1>4

\* Steps between the call and the lock that leave the chunks alone.
LEMMA CallSteps ==
    ASSUME CompressInv, NEW t \in Threads,
           CopySlot(t) \/ StartWorker(t) \/ StartFails(t) \/ AllStarted(t) \/ AllJoined(t)
    PROVE  CompressInv'
<1>1. /\ TypeOK /\ ThreadInv(t) /\ NumChunks \in Nat \ {0} /\ ChunkIds = 1 .. NumChunks
      /\ Columns \in Nat /\ heap \in Seq(Seq(Segments))
      /\ \A c \in ChunkIds : IsWhole(heap[slots[c]])
  BY SizesAssumption DEF CompressInv, ChunkIds, TypeOK
<1>2. CASE CopySlot(t)
  <2>1. chunkId[t] \in ChunkIds /\ slots[chunkId[t]] \in 1 .. Len(heap)
    BY <1>1, <1>2 DEF CopySlot, ThreadInv, TypeOK
  <2>2. TypeOK'
    <3>1. object' \in [Threads -> 0 .. Len(heap)]
      BY <1>1, <1>2, <2>1 DEF TypeOK, CopySlot
    <3>2. pc' \in [Threads -> Places]
      BY <1>1, <1>2 DEF TypeOK, CopySlot, GoTo, Places
    <3> QED
      BY <1>1, <1>2, <3>1, <3>2 DEF TypeOK, CopySlot
  <2>3. object'[t] # 0 /\ IsWhole(heap'[object'[t]]) /\ pc'[t] = "spawning"
    BY <1>1, <1>2, <2>1 DEF TypeOK, CopySlot, GoTo
  <2>4. ThreadInv(t)'
    BY <1>1, <1>2, <2>3, PlaceFacts
    DEF TypeOK, CopySlot, GoTo, ThreadInv, IsWhole, NoWorkers, Compressing
  <2>5. LockInv'
    BY <1>1, <1>2, PlaceFacts, LockStays DEF TypeOK, CopySlot, GoTo, Locking
  <2> QED
    BY <1>1, <1>2, <2>2, <2>4, <2>5, LocalStep DEF TypeOK, CopySlot, GoTo, Same
<1>3. CASE StartWorker(t)
  <2>1. PICK i \in 1 .. Columns : workers' = [workers EXCEPT ![t][i] = "running"]
    BY <1>3 DEF StartWorker
  <2>2. TypeOK'
    <3>1. [workers[t] EXCEPT ![i] = "running"]
              \in [1 .. Columns -> {"unstarted", "running", "finished"}]
      BY <1>1, <2>1 DEF TypeOK
    <3>2. workers' = [workers EXCEPT ![t] = [workers[t] EXCEPT ![i] = "running"]]
      BY <2>1
    <3>3. workers' \in [Threads -> [1 .. Columns -> {"unstarted", "running", "finished"}]]
      BY <1>1, <3>1, <3>2 DEF TypeOK
    <3> QED
      BY <1>1, <1>3, <3>3 DEF TypeOK, StartWorker
  <2>3. ThreadInv(t)'
    BY <1>1, <1>3, <2>1 DEF TypeOK, StartWorker, ThreadInv, IsWhole, Compressing
  <2>4. LockInv'
    BY <1>1, <1>3, LockStays DEF StartWorker
  <2> QED
    BY <1>1, <1>3, <2>1, <2>2, <2>3, <2>4, LocalStep DEF TypeOK, StartWorker, Same
<1>4. CASE StartFails(t) /\ Started(t) # {}
  <2>1. terminated' = TRUE /\ UNCHANGED <<slots, heap, unknownColumns, mutex, threadVars>>
    BY <1>4 DEF StartFails, threadVars
  <2>2. TypeOK'
    BY <1>1, <2>1 DEF TypeOK, threadVars
  <2>3. ThreadInv(t)'
    BY <1>1, <2>1 DEF ThreadInv, IsWhole, threadVars
  <2>4. LockInv'
    BY <2>1, LockStays DEF threadVars
  <2> QED
    BY <2>1, <2>2, <2>3, <2>4, LocalStep DEF threadVars, Same
<1>5. CASE StartFails(t) /\ Started(t) = {}
  <2>1. /\ pc[t] = "spawning" /\ pc' = [pc EXCEPT ![t] = "idle"]
        /\ chunkId' = [chunkId EXCEPT ![t] = 0]
        /\ object' = [object EXCEPT ![t] = 0]
        /\ newChunk' = [newChunk EXCEPT ![t] = 0]
        /\ UNCHANGED <<slots, heap, unknownColumns, mutex, workers, compressed, terminated>>
    BY <1>5 DEF StartFails, GoTo
  <2>2. workers[t] = NoWorkers
    BY <1>1, <1>5 DEF Started, NoWorkers, TypeOK
  <2>3. TypeOK'
    BY <1>1, <2>1, PlaceFacts DEF TypeOK
  <2>4. ThreadInv(t)'
    BY <1>1, <2>1, <2>2, PlaceFacts DEF TypeOK, ThreadInv, NoWorkers
  <2>5. LockInv'
    BY <1>1, <2>1, LockStays DEF TypeOK, Locking
  <2> QED
    BY <1>1, <2>1, <2>3, <2>4, <2>5, LocalStep DEF TypeOK, Same
<1>6. CASE AllStarted(t)
  <2>1. TypeOK'
    BY <1>1, <1>6, PlaceFacts DEF TypeOK, AllStarted, GoTo, Places
  <2>2. heap[newChunk[t]] = <<>>
    BY <1>6, <1>1 DEF AllStarted, ThreadInv
  <2>3. ThreadInv(t)'
    BY <1>1, <1>6, <2>2 DEF TypeOK, AllStarted, GoTo, ThreadInv, IsWhole, Compressing
  <2>4. LockInv'
    BY <1>1, <1>6, LockStays DEF TypeOK, AllStarted, GoTo, Locking
  <2> QED
    BY <1>1, <1>6, <2>1, <2>3, <2>4, LocalStep DEF TypeOK, AllStarted, GoTo, Same
<1>7. CASE AllJoined(t)
  <2> DEFINE chunk == heap[newChunk[t]]
  <2>1. pc[t] = "joining" /\ Len(chunk) + 1 > Columns
    BY <1>7 DEF AllJoined, NextJoined
  <2>2. newChunk[t] \in 1 .. Len(heap) /\ chunk \in Seq(Segments)
    <3>1. newChunk[t] \in 1 .. Len(heap)
      BY <1>1, <2>1 DEF ThreadInv, TypeOK, Compressing
    <3> QED
      BY <1>1, <3>1
  <2>3. \A i \in DOMAIN chunk : /\ i <= Columns /\ workers[t][i] = "finished"
                                /\ chunk[i] = Segment("dictionary", i)
    BY <1>1, <2>1 DEF ThreadInv
  <2> HIDE DEF chunk
  <2>4. chunk = Dictionaries
    BY <2>1, <2>2, <2>3, AllColumns
  <2>5. DOMAIN chunk = 1 .. Columns
    BY <2>4 DEF Dictionaries
  <2>6. \A i \in 1 .. Columns : workers[t][i] = "finished"
    BY <2>3, <2>5
  <2>7. TypeOK'
    BY <1>1, <1>7 DEF TypeOK, AllJoined, GoTo, Places
  <2>8. ThreadInv(t)'
    BY <1>1, <1>7, <2>1, <2>4, <2>6 DEF chunk, TypeOK, AllJoined, GoTo, ThreadInv, Compressing, Dictionaries
  <2>9. LockInv'
    BY <1>1, <1>7, LockStays DEF TypeOK, AllJoined, GoTo, Locking
  <2> QED
    BY <1>1, <1>7, <2>7, <2>8, <2>9, LocalStep DEF TypeOK, AllJoined, GoTo, Same
<1> QED
  BY <1>2, <1>3, <1>4, <1>5, <1>6, <1>7

\* Passing the lock, and the end of a call.
LEMMA LockSteps ==
    ASSUME CompressInv, NEW t \in Threads, Lock(t) \/ BeginSwap(t) \/ Unlock(t) \/ Return(t)
    PROVE  CompressInv'
<1>1. /\ TypeOK /\ ThreadInv(t) /\ LockInv
  BY DEF CompressInv
<1>2. CASE Lock(t)
  <2>1. TypeOK'
    BY <1>1, <1>2 DEF TypeOK, Lock, GoTo, Places
  <2>2. ThreadInv(t)'
    BY <1>1, <1>2 DEF TypeOK, Lock, GoTo, ThreadInv, Compressing, Dictionaries
  <2>3. mutex = {} /\ mutex' = {t} /\ pc' = [pc EXCEPT ![t] = "locked"]
    BY <1>2 DEF Lock, MutexIsFree, GoTo
  <2>4. LockInv'
    BY <1>1, <2>3 DEF TypeOK, LockInv, Locking
  <2> QED
    BY <1>1, <1>2, <2>1, <2>2, <2>4, LocalStep DEF TypeOK, Lock, GoTo, Same
<1>3. CASE BeginSwap(t)
  <2>1. TypeOK'
    BY <1>1, <1>3 DEF TypeOK, BeginSwap, GoTo, Places
  <2>2. ThreadInv(t)'
    BY <1>1, <1>3 DEF TypeOK, BeginSwap, GoTo, ThreadInv, Compressing, Dictionaries
  <2>3. LockInv'
    BY <1>1, <1>3, LockStays DEF TypeOK, BeginSwap, GoTo, Locking
  <2> QED
    BY <1>1, <1>3, <2>1, <2>2, <2>3, LocalStep DEF TypeOK, BeginSwap, GoTo, Same
<1>4. CASE Unlock(t)
  <2>1. TypeOK'
    BY <1>1, <1>4 DEF TypeOK, Unlock, Unlocked, GoTo, Places
  <2>2. ThreadInv(t)'
    BY <1>1, <1>4 DEF TypeOK, Unlock, GoTo, ThreadInv, Compressing, Dictionaries
  <2>3. mutex' = mutex \ {t} /\ pc' = [pc EXCEPT ![t] = "returning"]
    BY <1>4 DEF Unlock, Unlocked, GoTo
  <2>4. LockInv'
    BY <1>1, <2>3 DEF TypeOK, LockInv, Locking
  <2> QED
    BY <1>1, <1>4, <2>1, <2>2, <2>4, LocalStep DEF TypeOK, Unlock, GoTo, Same
<1>5. CASE Return(t)
  <2>1. NoWorkers \in [1 .. Columns -> {"unstarted", "running", "finished"}]
        /\ NoSegments \in [1 .. Columns -> Segments \cup {NullSegment}]
    BY DEF NoWorkers, NoSegments
  <2>2. TypeOK'
    <3>1. /\ pc' \in [Threads -> Places] /\ chunkId' \in [Threads -> 0 .. NumChunks]
          /\ object' \in [Threads -> 0 .. Len(heap)]
          /\ newChunk' \in [Threads -> 0 .. Len(heap)]
      BY <1>1, <1>5, SizesAssumption DEF TypeOK, Return, GoTo, Places
    <3>2. /\ workers' \in [Threads -> [1 .. Columns -> {"unstarted", "running", "finished"}]]
          /\ compressed' \in [Threads -> [1 .. Columns -> Segments \cup {NullSegment}]]
      BY <1>1, <1>5, <2>1 DEF TypeOK, Return
    <3> QED
      BY <1>1, <1>5, <3>1, <3>2 DEF TypeOK, Return
  <2>3. ThreadInv(t)'
    BY <1>1, <1>5, PlaceFacts DEF TypeOK, Return, GoTo, ThreadInv, NoWorkers
  <2>4. LockInv'
    BY <1>1, <1>5, LockStays DEF TypeOK, Return, GoTo, Locking
  <2> QED
    BY <1>1, <1>5, <2>2, <2>3, <2>4, LocalStep DEF TypeOK, Return, GoTo, Same
<1> QED
  BY <1>2, <1>3, <1>4, <1>5

\* A step of one thread that writes to a chunk only it uses, or makes a new one.
LEMMA OwnChunkStep ==
    ASSUME CompressInv, NEW t \in Threads, TypeOK', ThreadInv(t)', LockInv', slots' = slots,
           \A u \in Threads \ {t} : Same(u),
           \A u \in Threads \ {t} : newChunk[u] # 0 =>
                /\ newChunk'[t] # newChunk[u]
                /\ heap'[newChunk[u]] = heap[newChunk[u]],
           \A o \in 1 .. Len(heap) : IsWhole(heap[o]) => IsWhole(heap'[o])
    PROVE  CompressInv'
<1>1. TypeOK
  BY DEF CompressInv
<1>2. ASSUME NEW u \in Threads \ {t} PROVE ThreadInv(u)'
  <2>1. object[u] # 0 => object[u] \in 1 .. Len(heap)
    BY <1>1 DEF TypeOK
  <2> QED
    BY <2>1, NotDisturbed DEF CompressInv
<1>3. \A u, v \in Threads : newChunk'[u] # 0 /\ newChunk'[u] = newChunk'[v] => u = v
  BY DEF CompressInv, Same
<1>4. ASSUME NEW c \in ChunkIds PROVE IsWhole(heap[slots[c]])'
  <2>1. slots[c] \in 1 .. Len(heap) /\ IsWhole(heap[slots[c]])
    BY <1>1 DEF TypeOK, CompressInv
  <2>2. IsWhole(heap'[slots[c]])
    BY <2>1
  <2> QED
    BY <2>2 DEF IsWhole
<1> QED
  BY <1>2, <1>3, <1>4 DEF CompressInv

LEMMA BeginStep ==
    ASSUME CompressInv, NEW t \in Threads, NEW c \in ChunkIds, BeginCompress(t, c)
    PROVE  CompressInv'
<1>1. /\ TypeOK /\ ThreadInv(t) /\ NumChunks \in Nat \ {0} /\ ChunkIds = 1 .. NumChunks
      /\ heap \in Seq(Seq(Segments))
  BY SizesAssumption DEF CompressInv, ChunkIds, TypeOK
<1>2. /\ heap' = Append(heap, <<>>) /\ heap' \in Seq(Seq(Segments))
      /\ Len(heap') = Len(heap) + 1 /\ Len(heap) \in Nat
      /\ heap'[Len(heap) + 1] = <<>>
      /\ \A o \in 1 .. Len(heap) : heap'[o] = heap[o]
  <2>1. heap' = Append(heap, <<>>) /\ <<>> \in Seq(Segments)
    BY DEF BeginCompress
  <2> QED
    BY <1>1, <2>1, AppendProperties
<1>3. /\ pc[t] = "idle" /\ pc' = [pc EXCEPT ![t] = "copying"]
      /\ newChunk' = [newChunk EXCEPT ![t] = Len(heap) + 1]
      /\ chunkId' = [chunkId EXCEPT ![t] = c]
      /\ UNCHANGED <<slots, unknownColumns, mutex, terminated, object, workers, compressed>>
  BY DEF BeginCompress, GoTo
<1>4. TypeOK'
  <2>1. newChunk' \in [Threads -> 0 .. Len(heap')] /\ object' \in [Threads -> 0 .. Len(heap')]
    <3>1. /\ newChunk \in [Threads -> 0 .. Len(heap)] /\ object \in [Threads -> 0 .. Len(heap)]
          /\ 0 .. Len(heap) \subseteq 0 .. Len(heap') /\ Len(heap) + 1 \in 0 .. Len(heap')
      BY SMTT(30), <1>1, <1>2 DEF TypeOK
    <3> QED
      BY <1>3, <3>1
  <2>2. slots' \in [ChunkIds -> 1 .. Len(heap')]
    BY SMTT(30), <1>1, <1>2, <1>3 DEF TypeOK
  <2>3. pc' \in [Threads -> Places] /\ chunkId' \in [Threads -> 0 .. NumChunks]
    BY <1>1, <1>3 DEF TypeOK, Places
  <2> QED
    BY <1>1, <1>2, <1>3, <2>1, <2>2, <2>3 DEF TypeOK
<1>5. ThreadInv(t)'
  <2>1. /\ pc'[t] = "copying" /\ chunkId'[t] # 0 /\ newChunk'[t] = Len(heap) + 1
        /\ workers'[t] = workers[t] /\ compressed'[t] = compressed[t]
    BY <1>1, <1>3 DEF TypeOK
  <2>2. heap'[newChunk'[t]] = <<>> /\ newChunk'[t] # 0
    BY <1>2, <2>1
  <2> QED
    BY <1>1, <1>3, <2>1, <2>2 DEF ThreadInv, Compressing
<1>6. LockInv'
  BY <1>1, <1>3, LockStays DEF TypeOK, Locking
<1>7. \A u \in Threads \ {t} : newChunk[u] # 0 =>
        newChunk'[t] # newChunk[u] /\ heap'[newChunk[u]] = heap[newChunk[u]]
  BY <1>1, <1>2, <1>3 DEF TypeOK
<1>8. \A o \in 1 .. Len(heap) : IsWhole(heap[o]) => IsWhole(heap'[o])
  BY <1>2
<1>9. \A u \in Threads \ {t} : Same(u)
  BY <1>1, <1>3 DEF TypeOK, Same
<1> QED
  BY <1>3, <1>4, <1>5, <1>6, <1>7, <1>8, <1>9, OwnChunkStep

\* A worker's column is in the chunk that it compresses.
LEMMA WorkSteps ==
    ASSUME CompressInv, NEW t \in Threads, NEW i \in 1 .. Columns, Work(t, i)
    PROVE  CompressInv'
<1>1. TypeOK /\ ThreadInv(t)
  BY DEF CompressInv
<1>2. CASE WorkerStores(t, i)
  <2>1. /\ workers[t][i] = "running"
        /\ compressed' = [compressed EXCEPT
                            ![t][i] = Segment("dictionary", heap[object[t]][i].column)]
        /\ workers' = [workers EXCEPT ![t][i] = "finished"]
        /\ UNCHANGED <<slots, heap, unknownColumns, mutex, terminated, pc, chunkId, object,
                       newChunk>>
    BY <1>2 DEF WorkerStores
  <2>2. pc[t] \in {"spawning", "joining"}
    <3>1. workers[t] # NoWorkers
      BY <2>1 DEF NoWorkers
    <3>2. ~(pc[t] \in {"locking", "locked", "swapping", "swapped", "returning"})
      BY <1>1, <2>1 DEF ThreadInv
    <3> QED
      BY <1>1, <3>1, <3>2 DEF ThreadInv, Compressing
  <2>3. IsWhole(heap[object[t]])
    BY <1>1, <2>2 DEF ThreadInv
  <2>4. heap[object[t]][i].column = i
    BY <2>3, WholeFacts
  <2> DEFINE made == Segment("dictionary", i)
             stored == [compressed[t] EXCEPT ![i] = made]
             done == [workers[t] EXCEPT ![i] = "finished"]
  <2>5. compressed' = [compressed EXCEPT ![t] = stored] /\ workers' = [workers EXCEPT ![t] = done]
    BY <2>1, <2>4
  <2>6. stored \in [1 .. Columns -> Segments \cup {NullSegment}]
        /\ done \in [1 .. Columns -> {"unstarted", "running", "finished"}]
    <3>1. made \in Segments
      BY DEF Segments
    <3> HIDE DEF made
    <3>2. /\ workers[t] \in [1 .. Columns -> {"unstarted", "running", "finished"}]
          /\ compressed[t] \in [1 .. Columns -> Segments \cup {NullSegment}]
      BY <1>1 DEF TypeOK
    <3> QED
      BY <3>1, <3>2
  <2>7. \A j \in 1 .. Columns : done[j] = "finished" => stored[j] = Segment("dictionary", j)
    BY <1>1 DEF TypeOK, ThreadInv
  <2>8. \A j \in 1 .. Columns : workers[t][j] = "finished" => done[j] = "finished"
    BY <1>1 DEF TypeOK
  <2> HIDE DEF stored, done
  <2>9. compressed'[t] = stored /\ workers'[t] = done
    BY <1>1, <2>5 DEF TypeOK
  <2>10. TypeOK'
    BY <1>1, <2>1, <2>5, <2>6 DEF TypeOK
  <2>11. ThreadInv(t)'
    <3>1. \A k \in DOMAIN heap[newChunk[t]] : pc[t] = "joining" =>
            /\ k <= Columns /\ done[k] = "finished"
            /\ heap[newChunk[t]][k] = Segment("dictionary", k)
      <4> SUFFICES ASSUME NEW k \in DOMAIN heap[newChunk[t]], pc[t] = "joining"
                   PROVE  /\ k <= Columns /\ done[k] = "finished"
                          /\ heap[newChunk[t]][k] = Segment("dictionary", k)
        OBVIOUS
      <4>1. /\ k <= Columns /\ workers[t][k] = "finished"
            /\ heap[newChunk[t]][k] = Segment("dictionary", k)
        BY <1>1 DEF ThreadInv
      <4>2. newChunk[t] \in 1 .. Len(heap) /\ heap \in Seq(Seq(Segments))
        BY <1>1 DEF ThreadInv, TypeOK, Compressing
      <4>3. heap[newChunk[t]] \in Seq(Segments)
        BY <4>2
      <4>4. k \in 1 .. Columns
        BY <4>1, <4>3, SizesAssumption
      <4> QED
        BY <2>8, <4>1, <4>4
    <3> QED
      BY <1>1, <2>1, <2>2, <2>7, <2>9, <3>1 DEF ThreadInv, IsWhole, Compressing
  <2>12. LockInv'
    BY <2>1, LockStays
  <2> QED
    BY <1>1, <2>1, <2>5, <2>10, <2>11, <2>12, LocalStep DEF TypeOK, Same
<1>3. CASE WorkerThrows(t, i)
  <2>1. terminated' = TRUE /\ UNCHANGED <<slots, heap, unknownColumns, mutex, threadVars>>
    BY <1>3 DEF WorkerThrows
  <2>2. TypeOK'
    BY <1>1, <2>1 DEF TypeOK, threadVars
  <2>3. ThreadInv(t)'
    BY <1>1, <2>1 DEF ThreadInv, IsWhole, threadVars
  <2>4. LockInv'
    BY <2>1, LockStays DEF threadVars
  <2> QED
    BY <2>1, <2>2, <2>3, <2>4, LocalStep DEF threadVars, Same
<1> QED
  BY <1>2, <1>3 DEF Work

\* A finished worker's segment is appended to the new chunk, which is not whole yet.
LEMMA JoinStep ==
    ASSUME CompressInv, NEW t \in Threads, JoinWorker(t)
    PROVE  CompressInv'
<1> DEFINE new == newChunk[t]
           next == NextJoined(t)
           joined == Append(heap[new], compressed[t][next])
<1>1. TypeOK /\ ThreadInv(t) /\ heap \in Seq(Seq(Segments)) /\ Columns \in Nat
  BY SizesAssumption DEF CompressInv, TypeOK
<1>2. /\ pc[t] = "joining" /\ next <= Columns /\ workers[t][next] = "finished"
      /\ heap' = [heap EXCEPT ![new] = joined]
      /\ UNCHANGED <<slots, unknownColumns, mutex, terminated, pc, chunkId, object, newChunk,
                     workers, compressed>>
  BY DEF JoinWorker, IsJoinable, threadVars
<1>3. new \in 1 .. Len(heap) /\ heap[new] \in Seq(Segments)
  <2>1. new \in 1 .. Len(heap)
    BY <1>1, <1>2 DEF ThreadInv, TypeOK, Compressing
  <2> QED
    BY <1>1, <2>1
<1>4. next = Len(heap[new]) + 1 /\ next \in 1 .. Columns
  BY <1>1, <1>2, <1>3 DEF NextJoined
<1>5. compressed[t][next] = Segment("dictionary", next)
  BY <1>1, <1>2, <1>4 DEF ThreadInv
<1>6. compressed[t][next] \in Segments
  BY <1>4, <1>5 DEF Segments
<1>7. /\ joined \in Seq(Segments) /\ Len(joined) = next
      /\ joined[next] = Segment("dictionary", next)
      /\ \A k \in 1 .. Len(heap[new]) : joined[k] = heap[new][k]
  BY <1>3, <1>4, <1>5, <1>6, AppendProperties
<1> HIDE DEF joined, next
<1>8. /\ heap' \in Seq(Seq(Segments)) /\ Len(heap') = Len(heap) /\ heap'[new] = joined
      /\ \A o \in 1 .. Len(heap) : o # new => heap'[o] = heap[o]
  BY <1>1, <1>2, <1>3, <1>7
<1> HIDE DEF new
<1>9. TypeOK'
  BY <1>1, <1>2, <1>8 DEF TypeOK
<1>10. \A k \in DOMAIN joined : /\ k <= Columns /\ workers[t][k] = "finished"
                                /\ joined[k] = Segment("dictionary", k)
  <2>1. \A k \in DOMAIN heap[new] : /\ k <= Columns /\ workers[t][k] = "finished"
                                    /\ heap[new][k] = Segment("dictionary", k)
    BY <1>1, <1>2 DEF ThreadInv, new
  <2>2. DOMAIN joined = 1 .. next /\ DOMAIN heap[new] = 1 .. Len(heap[new])
        /\ Len(heap[new]) \in Nat
    BY <1>3, <1>7
  <2>3. \A k \in DOMAIN joined : k = next \/ k \in DOMAIN heap[new]
    BY <1>4, <2>2
  <2>4. \A k \in DOMAIN heap[new] : joined[k] = heap[new][k]
    BY <1>7, <2>2
  <2> QED
    BY <1>2, <1>4, <1>7, <2>1, <2>3, <2>4
<1>11. ~IsWhole(heap[new])
  <2>1. Len(heap[new]) # Columns
    BY <1>1, <1>3, <1>4
  <2> QED
    BY <2>1, WholeFacts
<1>12. \A o \in 1 .. Len(heap) : IsWhole(heap[o]) => IsWhole(heap'[o])
  BY <1>8, <1>11
<1>13. ThreadInv(t)'
  <2>1. IsWhole(heap'[object[t]]) /\ object[t] # 0
    <3>1. object[t] # 0 /\ IsWhole(heap[object[t]])
      BY <1>1, <1>2 DEF ThreadInv
    <3>2. object[t] \in 1 .. Len(heap)
      BY <1>1, <3>1 DEF TypeOK
    <3> QED
      BY <1>12, <3>1, <3>2
  <2>2. heap'[newChunk'[t]] = joined
    BY <1>2, <1>8 DEF new
  <2>3. IsWhole(heap[object[t]])'
    BY <1>2, <2>1 DEF IsWhole
  <2> QED
    BY <1>1, <1>2, <1>10, <2>1, <2>2, <2>3 DEF ThreadInv, Compressing
<1>14. LockInv'
  BY <1>2, LockStays
<1>15. \A u \in Threads \ {t} : newChunk[u] # 0 =>
        newChunk'[t] # newChunk[u] /\ heap'[newChunk[u]] = heap[newChunk[u]]
  <2> SUFFICES ASSUME NEW u \in Threads \ {t}, newChunk[u] # 0
               PROVE  newChunk'[t] # newChunk[u] /\ heap'[newChunk[u]] = heap[newChunk[u]]
    OBVIOUS
  <2>1. newChunk[u] # newChunk[t] /\ newChunk[u] \in 1 .. Len(heap)
    BY <1>1 DEF CompressInv, TypeOK
  <2> QED
    BY <1>2, <1>8, <2>1 DEF new
<1> QED
  BY <1>2, <1>9, <1>12, <1>13, <1>14, <1>15, OwnChunkStep DEF Same

\* The slot gets the new chunk, with all its columns compressed.
LEMMA SwapStep ==
    ASSUME CompressInv, NEW t \in Threads, EndSwap(t)
    PROVE  CompressInv'
<1>1. /\ TypeOK /\ ThreadInv(t) /\ NumChunks \in Nat \ {0} /\ ChunkIds = 1 .. NumChunks
      /\ \A c \in ChunkIds : IsWhole(heap[slots[c]])
  BY SizesAssumption DEF CompressInv, ChunkIds
<1>2. /\ pc[t] = "swapping" /\ pc' = [pc EXCEPT ![t] = "swapped"]
      /\ slots' = [slots EXCEPT ![chunkId[t]] = newChunk[t]]
      /\ UNCHANGED <<heap, unknownColumns, mutex, terminated, chunkId, object, newChunk, workers,
                     compressed>>
  BY DEF EndSwap, WrittenSlot, GoTo
<1>3. newChunk[t] \in 1 .. Len(heap) /\ heap[newChunk[t]] = Dictionaries
  BY <1>1, <1>2 DEF ThreadInv, TypeOK, Compressing
<1>4. IsWhole(heap[newChunk[t]])
  BY <1>3 DEF IsWhole, Dictionaries
<1>5. TypeOK'
  <2>1. slots' \in [ChunkIds -> 1 .. Len(heap)] /\ pc' \in [Threads -> Places]
    BY <1>1, <1>2, <1>3 DEF TypeOK, Places
  <2> QED
    BY <1>1, <1>2, <2>1 DEF TypeOK
<1>6. ASSUME NEW c \in ChunkIds PROVE IsWhole(heap[slots[c]])'
  <2>1. slots'[c] \in {slots[c], newChunk[t]}
    BY <1>1, <1>2 DEF TypeOK
  <2>2. IsWhole(heap'[slots'[c]])
    BY <1>1, <1>2, <1>4, <2>1
  <2> QED
    BY <2>2 DEF IsWhole
<1>7. ThreadInv(t)'
  BY <1>1, <1>2 DEF TypeOK, ThreadInv, Compressing, Dictionaries
<1>8. ASSUME NEW u \in Threads \ {t} PROVE ThreadInv(u)'
  <2>1. Same(u)
    BY <1>1, <1>2 DEF TypeOK, Same
  <2> QED
    BY <1>2, <2>1, NotDisturbed DEF CompressInv
<1>9. LockInv'
  BY <1>1, <1>2, LockStays DEF TypeOK, Locking
<1> QED
  BY <1>2, <1>5, <1>6, <1>7, <1>8, <1>9 DEF CompressInv

LEMMA CompressInit == Init => CompressInv
<1> SUFFICES ASSUME Init PROVE CompressInv
  OBVIOUS
<1>1. NumChunks \in Nat \ {0} /\ Columns \in Nat /\ ChunkIds = 1 .. NumChunks
  BY SizesAssumption DEF ChunkIds
<1> DEFINE plain == [i \in 1 .. Columns |-> Segment("value", i)]
<1>2. plain \in Seq(Segments) /\ IsWhole(plain)
  <2>1. \A i \in 1 .. Columns : Segment("value", i) \in Segments
    BY DEF Segments
  <2> QED
    BY <1>1, <2>1 DEF IsWhole
<1> HIDE DEF plain
<1>3. heap = [c \in 1 .. NumChunks |-> plain] /\ slots = [c \in 1 .. NumChunks |-> c]
  BY <1>1 DEF Init, plain
<1>4. /\ heap \in Seq(Seq(Segments)) /\ Len(heap) = NumChunks
      /\ \A c \in 1 .. NumChunks : heap[c] = plain
  BY <1>1, <1>2, <1>3
<1>5. /\ NoWorkers \in [1 .. Columns -> {"unstarted", "running", "finished"}]
      /\ NoSegments \in [1 .. Columns -> Segments \cup {NullSegment}]
      /\ \A i \in 1 .. Columns : NoWorkers[i] # "finished"
  BY DEF NoWorkers, NoSegments
<1>6. TypeOK
  <2>1. slots \in [ChunkIds -> 1 .. Len(heap)]
    BY <1>1, <1>3, <1>4
  <2>2. /\ pc \in [Threads -> Places] /\ chunkId \in [Threads -> 0 .. NumChunks]
        /\ object \in [Threads -> 0 .. Len(heap)] /\ newChunk \in [Threads -> 0 .. Len(heap)]
    BY <1>1, <1>4 DEF Init, Places
  <2>3. /\ workers \in [Threads -> [1 .. Columns -> {"unstarted", "running", "finished"}]]
        /\ compressed \in [Threads -> [1 .. Columns -> Segments \cup {NullSegment}]]
    BY <1>5 DEF Init
  <2> QED
    BY <1>4, <2>1, <2>2, <2>3 DEF Init, TypeOK
<1>7. ASSUME NEW t \in Threads PROVE ThreadInv(t)
  <2>1. /\ pc[t] = "idle" /\ chunkId[t] = 0 /\ newChunk[t] = 0 /\ workers[t] = NoWorkers
    BY DEF Init
  <2> QED
    BY <1>5, <2>1 DEF ThreadInv, Compressing
<1>8. \A c \in ChunkIds : IsWhole(heap[slots[c]])
  BY <1>1, <1>2, <1>3, <1>4
<1>9. LockInv
  BY DEF Init, LockInv, Locking
<1>10. \A t, u \in Threads : newChunk[t] # 0 /\ newChunk[t] = newChunk[u] => t = u
  BY DEF Init
<1> QED
  BY <1>6, <1>7, <1>8, <1>9, <1>10 DEF CompressInv

LEMMA CompressStep == CompressInv /\ [Next]_vars => CompressInv'
<1> SUFFICES ASSUME CompressInv, [Next]_vars PROVE CompressInv'
  OBVIOUS
<1>1. ASSUME NEW t \in Threads, NEW c \in ChunkIds, BeginCompress(t, c) \/ BeginFetch(t, c)
      PROVE  CompressInv'
  BY <1>1, BeginStep, ReaderSteps
<1>2. ASSUME NEW t \in Threads, Continue(t) \/ EndFetch(t) \/ EndReading(t)
      PROVE  CompressInv'
  BY <1>2, ReaderSteps, CallSteps, LockSteps, JoinStep, SwapStep DEF Continue
<1>3. ASSUME NEW t \in Threads, NEW i \in 1 .. Columns, Work(t, i) PROVE CompressInv'
  BY <1>3, WorkSteps
<1>4. CASE UNCHANGED vars
  <2>1. UNCHANGED <<slots, heap, unknownColumns, mutex, terminated, pc, chunkId, object, newChunk,
                    workers, compressed>>
    BY <1>4 DEF vars, threadVars
  <2>2. TypeOK'
    BY <2>1 DEF CompressInv, TypeOK
  <2>3. ASSUME NEW t \in Threads PROVE ThreadInv(t)'
    BY <2>1, NotDisturbed DEF CompressInv, Same
  <2>4. ASSUME NEW c \in ChunkIds PROVE IsWhole(heap[slots[c]])'
    BY <2>1 DEF CompressInv, IsWhole
  <2>5. LockInv'
    BY <2>1 DEF CompressInv, LockInv
  <2> QED
    BY <2>1, <2>2, <2>3, <2>4, <2>5 DEF CompressInv
<1> QED
  BY <1>1, <1>2, <1>3, <1>4 DEF Next

LEMMA CompressInvariant == Spec => []CompressInv
<1> QED
  BY CompressInit, CompressStep, PTL DEF Spec

-----------------------------------------------------------------------------
\* The state of compress_chunk on any number of threads stays in its type.
THEOREM CompressTypeCorrect == Spec => []TypeOK
<1>1. CompressInv => TypeOK
  BY DEF CompressInv
<1> QED
  BY <1>1, CompressInvariant, PTL

\* Only one thread at a time is between lock and unlock of chunk_access_mutex.
THEOREM SwapsStayExclusive == Spec => []SwapsAreExclusive
<1>1. CompressInv => SwapsAreExclusive
  BY DEF CompressInv, LockInv, Locking, SwapsAreExclusive
<1> QED
  BY <1>1, CompressInvariant, PTL

\* However the calls on any chunks interleave, every slot holds a whole chunk.
THEOREM SlotsStayWhole == Spec => []SlotsHoldWholeChunks
<1>1. CompressInv => SlotsHoldWholeChunks
  BY DEF CompressInv, IsWhole, SlotsHoldWholeChunks
<1> QED
  BY <1>1, CompressInvariant, PTL

-----------------------------------------------------------------------------
\* A chunk that is not shared has one user, so what its reader refers to stays in its slot.
Owns(t) == chunkId[t] # 0 /\ chunkId[t] \notin Shared
OwnChunks ==
    /\ \A t, u \in Threads : Owns(t) /\ chunkId[t] = chunkId[u] => t = u
    /\ \A t \in Threads : pc[t] = "reading" /\ Owns(t) => object[t] = slots[chunkId[t]]

LEMMA OwnChunksInit == Init => OwnChunks
BY DEF Init, OwnChunks, Owns

LEMMA OwnChunksStep == CompressInv /\ OwnChunks /\ [Next]_vars => OwnChunks'
<1> SUFFICES ASSUME CompressInv, OwnChunks, [Next]_vars PROVE OwnChunks'
  OBVIOUS
<1>1. /\ TypeOK /\ \A t \in Threads : ThreadInv(t)
      /\ \A t, u \in Threads : Owns(t) /\ chunkId[t] = chunkId[u] => t = u
      /\ \A t \in Threads : pc[t] = "reading" /\ Owns(t) => object[t] = slots[chunkId[t]]
  BY DEF CompressInv, OwnChunks
<1>2. \A t \in Threads : pc[t] # "idle" => chunkId[t] # 0
  BY <1>1 DEF ThreadInv
\* A step that gives a thread no other chunk and does not make it a reader.
<1>3. ASSUME NEW t \in Threads,
             \A u \in Threads \ {t} : pc'[u] = pc[u] /\ object'[u] = object[u]
                                      /\ chunkId'[u] = chunkId[u],
             chunkId'[t] \in {0, chunkId[t]}, slots' = slots,
             pc'[t] = "reading" => object'[t] = slots[chunkId'[t]]
      PROVE  OwnChunks'
  BY <1>1, <1>3 DEF OwnChunks, Owns
<1>4. ASSUME NEW t \in Threads, NEW c \in ChunkIds, BeginCompress(t, c) \/ BeginFetch(t, c)
      PROVE  OwnChunks'
  <2>1. /\ MayUse(t, c) /\ chunkId' = [chunkId EXCEPT ![t] = c]
        /\ slots' = slots /\ object' = object
        /\ pc' = [pc EXCEPT ![t] = "copying"] \/ pc' = [pc EXCEPT ![t] = "fetching"]
    BY <1>4 DEF BeginCompress, BeginFetch, GoTo
  <2> QED
    BY <1>1, <2>1 DEF TypeOK, MayUse, OwnChunks, Owns
<1>5. ASSUME NEW t \in Threads, EndSwap(t)
      PROVE  OwnChunks'
  <2>1. /\ pc[t] = "swapping" /\ pc' = [pc EXCEPT ![t] = "swapped"]
        /\ slots' = [slots EXCEPT ![chunkId[t]] = newChunk[t]]
        /\ chunkId' = chunkId /\ object' = object
    BY <1>5 DEF EndSwap, WrittenSlot, GoTo
  <2>2. ASSUME NEW u \in Threads, pc'[u] = "reading", Owns(u)'
        PROVE  object'[u] = slots'[chunkId'[u]]
    <3>1. u # t /\ pc[u] = "reading"
      BY <1>1, <2>1, <2>2 DEF TypeOK
    <3>2. chunkId[u] # chunkId[t]
      BY <1>1, <1>2, <2>1, <2>2, <3>1 DEF Owns
    <3>3. chunkId[u] \in ChunkIds
      BY <1>1, <1>2, <3>1, SizesAssumption DEF TypeOK, ChunkIds
    <3>4. object[u] = slots[chunkId[u]]
      BY <1>1, <2>1, <2>2, <3>1 DEF Owns
    <3>5. slots'[chunkId[u]] = slots[chunkId[u]]
      BY <1>1, <2>1, <3>2, <3>3 DEF TypeOK
    <3> QED
      BY <2>1, <3>4, <3>5
  <2> QED
    BY <1>1, <2>1, <2>2 DEF OwnChunks, Owns
<1>6. ASSUME NEW t \in Threads, Continue(t) \/ EndFetch(t) \/ EndReading(t)
      PROVE  OwnChunks'
  <2>1. CASE CopySlot(t)
    BY <1>1, <1>3, <2>1 DEF TypeOK, CopySlot, GoTo
  <2>2. CASE StartWorker(t) \/ JoinWorker(t)
    BY <1>1, <1>3, <2>2 DEF StartWorker, JoinWorker, threadVars
  <2>3. CASE StartFails(t)
    BY ZenonT(60), <1>1, <1>3, <2>3 DEF TypeOK, StartFails, GoTo
  <2>4. CASE AllStarted(t) \/ AllJoined(t)
    BY <1>1, <1>3, <2>4 DEF TypeOK, AllStarted, AllJoined, GoTo
  <2>5. CASE Lock(t) \/ BeginSwap(t) \/ Unlock(t)
    BY <1>1, <1>3, <2>5 DEF TypeOK, Lock, BeginSwap, Unlock, GoTo
  <2>6. CASE Return(t) \/ EndReading(t)
    BY <1>1, <1>3, <2>6 DEF TypeOK, Return, EndReading, GoTo
  <2>7. CASE EndFetch(t)
    BY <1>1, <1>3, <2>7 DEF TypeOK, EndFetch, GoTo
  <2> QED
    BY <1>5, <1>6, <2>1, <2>2, <2>3, <2>4, <2>5, <2>6, <2>7 DEF Continue
<1>7. ASSUME NEW t \in Threads, NEW i \in 1 .. Columns, Work(t, i)
      PROVE  OwnChunks'
  BY <1>1, <1>7 DEF Work, WorkerStores, WorkerThrows, threadVars, OwnChunks, Owns
<1>8. CASE UNCHANGED vars
  BY <1>1, <1>8 DEF vars, threadVars, OwnChunks, Owns
<1> QED
  BY <1>4, <1>6, <1>7, <1>8 DEF Next

LEMMA OwnChunksAreSafe == CompressInv /\ OwnChunks => CoordinatedChunksAreSafe
<1> SUFFICES ASSUME CompressInv, OwnChunks, NEW c \in ChunkIds \ Shared
             PROVE  ~RaceFor(c) /\ \A t \in Threads : chunkId[t] = c => ~IsDangling(t)
  BY DEF CoordinatedChunksAreSafe
<1>1. c # 0
  BY SizesAssumption DEF ChunkIds
<1>2. \A t \in Threads : chunkId[t] = c => Owns(t)
  BY <1>1 DEF Owns
<1>3. ~RaceFor(c)
  BY <1>2 DEF RaceFor, Writes, Reads, WrittenSlot, OwnChunks
<1>4. ASSUME NEW t \in Threads, chunkId[t] = c PROVE ~IsDangling(t)
  BY <1>2, <1>4 DEF IsDangling, Exists, OwnChunks
<1> QED
  BY <1>3, <1>4

\* A chunk that one thread uses at a time is never raced for and never lost.
THEOREM CoordinatedChunksStaySafe == Spec => []CoordinatedChunksAreSafe
<1>1. Init => CompressInv /\ OwnChunks
  BY CompressInit, OwnChunksInit
<1>2. CompressInv /\ OwnChunks /\ [Next]_vars => (CompressInv /\ OwnChunks)'
  BY CompressStep, OwnChunksStep
<1> QED
  BY <1>1, <1>2, OwnChunksAreSafe, PTL DEF Spec

-----------------------------------------------------------------------------
(* compress_chunk implements the abstract service: what a caller sees of a     *)
(* step is one step of the service, or nothing.                                *)

Contents == [c \in ChunkIds |-> heap[slots[c]]]

CallOf(t) ==
    IF IsCompressing(t)
    THEN [stage |-> IF pc[t] \in {"swapped", "returning"} THEN "compressed" ELSE "called",
          chunk |-> chunkId[t]]
    ELSE [stage |-> "idle", chunk |-> 0]

Calls == [t \in Threads |-> CallOf(t)]

\* A step that changes neither a call's stage nor what a slot holds is not seen.
LEMMA UnseenStep ==
    ASSUME NEW t \in Threads,
           \A u \in Threads \ {t} : pc'[u] = pc[u] /\ chunkId'[u] = chunkId[u],
           CallOf(t)' = CallOf(t), \A c \in ChunkIds : heap'[slots'[c]] = heap[slots[c]],
           terminated' = terminated
    PROVE  UNCHANGED CS!vars
<1>1. ASSUME NEW u \in Threads \ {t} PROVE CallOf(u)' = CallOf(u)
  BY DEF CallOf, IsCompressing
<1>2. Calls' = Calls
  BY <1>1 DEF Calls
<1>3. Contents' = Contents
  BY DEF Contents
<1> QED
  BY <1>2, <1>3 DEF Calls, Contents, CallOf, CS!vars

\* A step of one thread that changes the stage of its call.
LEMMA CallChanges ==
    ASSUME NEW t \in Threads,
           \A u \in Threads \ {t} : pc'[u] = pc[u] /\ chunkId'[u] = chunkId[u],
           NEW call, CallOf(t)' = call
    PROVE  Calls' = [Calls EXCEPT ![t] = call]
<1>1. ASSUME NEW u \in Threads \ {t} PROVE CallOf(u)' = CallOf(u)
  BY DEF CallOf, IsCompressing
<1> QED
  BY <1>1 DEF Calls

LEMMA ServiceInit == Init => CS!Init
<1> SUFFICES ASSUME Init PROVE CS!Init
  OBVIOUS
<1>1. Contents = [c \in ChunkIds |-> [i \in 1 .. Columns |-> [kind |-> "value", column |-> i]]]
  BY DEF Init, Contents, Segment
<1>2. Calls = [t \in Threads |-> [stage |-> "idle", chunk |-> 0]]
  BY DEF Init, Calls, CallOf, IsCompressing
<1> QED
  BY <1>1, <1>2 DEF Init, Contents, Calls, CallOf, CS!Init, CS!Chunk, CS!Idle

\* The steps that a caller sees.
LEMMA CallIsSeen ==
    ASSUME CompressInv, NEW t \in Threads, NEW c \in ChunkIds, BeginCompress(t, c)
    PROVE  CS!Next
<1>1. /\ TypeOK /\ ThreadInv(t) /\ heap \in Seq(Seq(Segments)) /\ c # 0
  BY SMTT(30), SizesAssumption DEF CompressInv, TypeOK, ChunkIds
<1>2. /\ ~terminated /\ terminated' = terminated /\ slots' = slots
      /\ heap' = Append(heap, <<>>)
      /\ pc[t] = "idle" /\ pc' = [pc EXCEPT ![t] = "copying"]
      /\ chunkId' = [chunkId EXCEPT ![t] = c]
  BY DEF BeginCompress, GoTo, Running
<1>3. \A o \in 1 .. Len(heap) : heap'[o] = heap[o]
  BY <1>1, <1>2
<1>4. Contents' = Contents
  BY <1>1, <1>2, <1>3 DEF TypeOK, Contents
<1>5. CallOf(t) = [stage |-> "idle", chunk |-> 0]
  BY <1>1, <1>2 DEF ThreadInv, CallOf, IsCompressing
<1>6. CallOf(t)' = [stage |-> "called", chunk |-> c]
  BY <1>1, <1>2 DEF TypeOK, CallOf, IsCompressing
<1>7. Calls' = [Calls EXCEPT ![t] = [stage |-> "called", chunk |-> c]]
  BY <1>1, <1>2, <1>6, CallChanges DEF TypeOK
<1>8. CS!Call(t, c)
  BY <1>2, <1>4, <1>5, <1>7 DEF Calls, CallOf, Contents, CS!Call, CS!Idle
<1> QED
  BY <1>2, <1>8 DEF CS!Next

LEMMA SwapIsSeen ==
    ASSUME CompressInv, NEW t \in Threads, EndSwap(t)
    PROVE  CS!Next
<1>1. TypeOK /\ ThreadInv(t) /\ ChunkIds = 1 .. NumChunks /\ NumChunks \in Nat
  BY SizesAssumption DEF CompressInv, ChunkIds
<1>2. /\ ~terminated /\ terminated' = terminated /\ heap' = heap /\ chunkId' = chunkId
      /\ slots' = [slots EXCEPT ![chunkId[t]] = newChunk[t]]
      /\ pc[t] = "swapping" /\ pc' = [pc EXCEPT ![t] = "swapped"]
  BY DEF EndSwap, WrittenSlot, GoTo, Running
<1>3. chunkId[t] \in ChunkIds /\ heap[newChunk[t]] = Dictionaries
  BY <1>1, <1>2 DEF ThreadInv, TypeOK
<1>4. Contents' = [Contents EXCEPT ![chunkId[t]] = Dictionaries]
  BY <1>1, <1>2, <1>3 DEF TypeOK, Contents
<1>5. CallOf(t) = [stage |-> "called", chunk |-> chunkId[t]]
  BY <1>1, <1>2, <1>3 DEF CallOf, IsCompressing
<1>6. CallOf(t)' = [stage |-> "compressed", chunk |-> chunkId[t]]
  BY <1>1, <1>2, <1>3 DEF TypeOK, CallOf, IsCompressing
<1>7. Calls' = [Calls EXCEPT ![t] = [stage |-> "compressed", chunk |-> chunkId[t]]]
  BY <1>1, <1>2, <1>6, CallChanges DEF TypeOK
<1>8. Calls[t] = [stage |-> "called", chunk |-> chunkId[t]]
  BY <1>5 DEF Calls
<1>9. Calls' = [Calls EXCEPT ![t].stage = "compressed"]
  <2>1. [Calls[t] EXCEPT !.stage = "compressed"] = [stage |-> "compressed", chunk |-> chunkId[t]]
    BY <1>8
  <2> QED
    BY <1>7, <2>1
<1>10. /\ Calls[t].stage = "called"
       /\ Contents' = [Contents EXCEPT ![Calls[t].chunk] = Dictionaries]
  BY <1>4, <1>8
<1>11. CS!Compress(t)
  BY <1>2, <1>9, <1>10
  DEF Calls, CallOf, Contents, Dictionaries, Segment, CS!Compress, CS!Chunk
<1> QED
  BY <1>2, <1>11 DEF CS!Next

LEMMA ReturnIsSeen ==
    ASSUME CompressInv, NEW t \in Threads, Return(t)
    PROVE  CS!Next
<1>1. TypeOK /\ ThreadInv(t)
  BY DEF CompressInv
<1>2. /\ ~terminated /\ terminated' = terminated /\ heap' = heap /\ slots' = slots
      /\ pc[t] = "returning" /\ pc' = [pc EXCEPT ![t] = "idle"]
      /\ chunkId' = [chunkId EXCEPT ![t] = 0]
  BY DEF Return, GoTo, Running
<1>3. Calls[t].stage = "compressed"
  BY <1>1, <1>2 DEF ThreadInv, Calls, CallOf, IsCompressing
<1>4. CallOf(t)' = [stage |-> "idle", chunk |-> 0]
  BY <1>1, <1>2 DEF TypeOK, CallOf, IsCompressing
<1>5. Calls' = [Calls EXCEPT ![t] = [stage |-> "idle", chunk |-> 0]] /\ Contents' = Contents
  BY <1>1, <1>2, <1>4, CallChanges DEF TypeOK, Contents
<1>6. CS!Return(t)
  BY <1>2, <1>3, <1>5 DEF Calls, CallOf, Contents, CS!Return, CS!Idle
<1> QED
  BY <1>2, <1>6 DEF CS!Next

LEMMA FailureIsSeen ==
    ASSUME CompressInv, NEW t \in Threads, StartFails(t)
    PROVE  CS!Next
<1>1. TypeOK /\ ThreadInv(t)
  BY DEF CompressInv
<1>2. /\ ~terminated /\ heap' = heap /\ slots' = slots /\ pc[t] = "spawning"
  BY DEF StartFails, Running
<1>3. Calls[t].stage = "called"
  BY <1>1, <1>2 DEF ThreadInv, Calls, CallOf, IsCompressing
<1>4. CASE Started(t) = {}
  <2>1. /\ terminated' = terminated /\ pc' = [pc EXCEPT ![t] = "idle"]
        /\ chunkId' = [chunkId EXCEPT ![t] = 0]
    BY <1>4 DEF StartFails, GoTo
  <2>2. CallOf(t)' = [stage |-> "idle", chunk |-> 0]
    BY <1>1, <2>1 DEF TypeOK, CallOf, IsCompressing
  <2>3. Calls' = [Calls EXCEPT ![t] = [stage |-> "idle", chunk |-> 0]] /\ Contents' = Contents
    BY <1>1, <1>2, <2>1, <2>2, CallChanges DEF TypeOK, Contents
  <2>4. CS!Throw(t)
    BY <1>3, <2>1, <2>3 DEF Calls, CallOf, Contents, CS!Throw, CS!Idle
  <2> QED
    BY <1>2, <2>4 DEF CS!Next
<1>5. CASE Started(t) # {}
  <2>1. terminated' = TRUE /\ pc' = pc /\ chunkId' = chunkId
    BY <1>5 DEF StartFails
  <2>2. Calls' = Calls /\ Contents' = Contents
    BY <1>2, <2>1 DEF Calls, CallOf, IsCompressing, Contents
  <2>3. CS!Terminate
    BY <1>3, <2>1, <2>2 DEF Calls, CallOf, Contents, CS!Terminate
  <2> QED
    BY <1>2, <2>3 DEF CS!Next
<1> QED
  BY <1>4, <1>5

LEMMA ThrowIsSeen ==
    ASSUME CompressInv, NEW t \in Threads, NEW i \in 1 .. Columns, WorkerThrows(t, i)
    PROVE  CS!Next
<1>1. TypeOK /\ ThreadInv(t)
  BY DEF CompressInv
<1>2. /\ ~terminated /\ terminated' = TRUE /\ heap' = heap /\ slots' = slots
      /\ pc' = pc /\ chunkId' = chunkId /\ workers[t][i] = "running"
  BY DEF WorkerThrows, Running, threadVars
<1>3. pc[t] \in {"spawning", "joining"}
  <2>1. workers[t] # NoWorkers
    BY <1>2 DEF NoWorkers
  <2>2. ~(pc[t] \in {"locking", "locked", "swapping", "swapped", "returning"})
    BY <1>1, <1>2 DEF ThreadInv
  <2> QED
    BY <1>1, <2>1, <2>2 DEF ThreadInv, Compressing
<1>4. Calls[t].stage = "called"
  BY <1>1, <1>3 DEF ThreadInv, Calls, CallOf, IsCompressing
<1>5. Calls' = Calls /\ Contents' = Contents
  BY <1>2 DEF Calls, CallOf, IsCompressing, Contents
<1>6. CS!Terminate
  BY <1>2, <1>4, <1>5 DEF Calls, CallOf, Contents, CS!Terminate
<1> QED
  BY <1>2, <1>6 DEF CS!Next

\* The steps that a caller does not see.
LEMMA JoinIsUnseen ==
    ASSUME CompressInv, NEW t \in Threads, JoinWorker(t)
    PROVE  UNCHANGED CS!vars
<1>1. TypeOK /\ ThreadInv(t) /\ heap \in Seq(Seq(Segments)) /\ Columns \in Nat
  BY SizesAssumption DEF CompressInv, TypeOK
<1>2. /\ pc[t] = "joining" /\ Len(heap[newChunk[t]]) + 1 <= Columns
      /\ heap' = [heap EXCEPT ![newChunk[t]] =
                    Append(heap[newChunk[t]], compressed[t][NextJoined(t)])]
      /\ UNCHANGED <<slots, terminated, pc, chunkId>>
  BY DEF JoinWorker, NextJoined, threadVars
<1>3. newChunk[t] \in 1 .. Len(heap)
  BY <1>1, <1>2 DEF ThreadInv, TypeOK, Compressing
<1>4. ~IsWhole(heap[newChunk[t]])
  <2>1. heap[newChunk[t]] \in Seq(Segments)
    BY <1>1, <1>3
  <2>2. Len(heap[newChunk[t]]) # Columns
    BY <1>1, <1>2, <2>1
  <2> QED
    BY <2>2, WholeFacts
<1>5. \A c \in ChunkIds : heap'[slots'[c]] = heap[slots[c]]
  <2> SUFFICES ASSUME NEW c \in ChunkIds PROVE heap'[slots'[c]] = heap[slots[c]]
    OBVIOUS
  <2>1. IsWhole(heap[slots[c]]) /\ slots[c] \in 1 .. Len(heap)
    BY <1>1 DEF CompressInv, TypeOK
  <2>2. slots[c] # newChunk[t]
    BY <1>4, <2>1
  <2> QED
    BY <1>1, <1>2, <2>1, <2>2
<1>6. CallOf(t)' = CallOf(t)
  BY <1>2 DEF CallOf, IsCompressing
<1> QED
  BY <1>2, <1>5, <1>6, UnseenStep

LEMMA InnerIsUnseen ==
    ASSUME CompressInv, NEW t \in Threads,
           CopySlot(t) \/ StartWorker(t) \/ AllStarted(t) \/ AllJoined(t) \/ Lock(t)
              \/ BeginSwap(t) \/ Unlock(t)
    PROVE  UNCHANGED CS!vars
<1>1. TypeOK
  BY DEF CompressInv
<1>2. /\ heap' = heap /\ slots' = slots /\ terminated' = terminated /\ chunkId' = chunkId
      /\ \A u \in Threads \ {t} : pc'[u] = pc[u]
      /\ pc[t] \notin {"fetching", "reading"} <=> pc'[t] \notin {"fetching", "reading"}
      /\ pc[t] \in {"swapped", "returning"} <=> pc'[t] \in {"swapped", "returning"}
  <2>1. CASE CopySlot(t)
    BY <1>1, <2>1 DEF TypeOK, CopySlot, GoTo
  <2>2. CASE StartWorker(t)
    BY <2>2 DEF StartWorker
  <2>3. CASE AllStarted(t) \/ AllJoined(t)
    BY <1>1, <2>3 DEF TypeOK, AllStarted, AllJoined, GoTo
  <2>4. CASE Lock(t) \/ BeginSwap(t) \/ Unlock(t)
    BY <1>1, <2>4 DEF TypeOK, Lock, BeginSwap, Unlock, GoTo
  <2> QED
    BY <2>1, <2>2, <2>3, <2>4
<1>3. CallOf(t)' = CallOf(t)
  BY <1>2 DEF CallOf, IsCompressing
<1> QED
  BY <1>2, <1>3, UnseenStep

LEMMA ReadersAreUnseen ==
    ASSUME CompressInv, NEW t \in Threads,
           (\E c \in ChunkIds : BeginFetch(t, c)) \/ EndFetch(t) \/ EndReading(t)
    PROVE  UNCHANGED CS!vars
<1>1. TypeOK /\ ThreadInv(t)
  BY DEF CompressInv
<1>2. /\ heap' = heap /\ slots' = slots /\ terminated' = terminated
      /\ \A u \in Threads \ {t} : pc'[u] = pc[u] /\ chunkId'[u] = chunkId[u]
  BY <1>1 DEF TypeOK, BeginFetch, EndFetch, EndReading, GoTo
<1>3. ~IsCompressing(t) /\ ~IsCompressing(t)'
  BY <1>1 DEF TypeOK, ThreadInv, BeginFetch, EndFetch, EndReading, GoTo, IsCompressing
<1>4. CallOf(t)' = CallOf(t)
  BY <1>3 DEF CallOf
<1> QED
  BY <1>2, <1>4, UnseenStep

LEMMA StoreIsUnseen ==
    ASSUME NEW t \in Threads, NEW i \in 1 .. Columns, WorkerStores(t, i)
    PROVE  UNCHANGED CS!vars
<1>1. UNCHANGED <<heap, slots, terminated, pc, chunkId>>
  BY DEF WorkerStores
<1>2. CallOf(t)' = CallOf(t)
  BY <1>1 DEF CallOf, IsCompressing
<1> QED
  BY <1>1, <1>2, UnseenStep

LEMMA ServiceStep == CompressInv /\ [Next]_vars => [CS!Next]_CS!vars
<1> SUFFICES ASSUME CompressInv, [Next]_vars PROVE CS!Next \/ UNCHANGED CS!vars
  OBVIOUS
<1>1. ASSUME NEW t \in Threads, NEW c \in ChunkIds, BeginCompress(t, c) \/ BeginFetch(t, c)
      PROVE  CS!Next \/ UNCHANGED CS!vars
  BY <1>1, CallIsSeen, ReadersAreUnseen
<1>2. ASSUME NEW t \in Threads, Continue(t) \/ EndFetch(t) \/ EndReading(t)
      PROVE  CS!Next \/ UNCHANGED CS!vars
  BY <1>2, SwapIsSeen, ReturnIsSeen, FailureIsSeen, JoinIsUnseen, InnerIsUnseen,
     ReadersAreUnseen DEF Continue
<1>3. ASSUME NEW t \in Threads, NEW i \in 1 .. Columns, Work(t, i)
      PROVE  CS!Next \/ UNCHANGED CS!vars
  BY <1>3, ThrowIsSeen, StoreIsUnseen DEF Work
<1>4. CASE UNCHANGED vars
  <2>1. UNCHANGED <<heap, slots, terminated, pc, chunkId>>
    BY <1>4 DEF vars, threadVars
  <2>2. Calls' = Calls /\ Contents' = Contents
    BY <2>1 DEF Calls, CallOf, IsCompressing, Contents
  <2> QED
    BY <2>1, <2>2 DEF Calls, CallOf, Contents, CS!vars
<1> QED
  BY <1>1, <1>2, <1>3, <1>4 DEF Next

\* Every behaviour of the threads is, to the callers and the readers of the slots,
\* one of the abstract service: compress_chunk takes effect as a whole, in one step
\* during the call, and changes no chunk but its own.
THEOREM ServiceIsImplemented == Spec => ImplementsCompressionService
<1> QED
  BY ServiceInit, ServiceStep, CompressInvariant, PTL
  DEF Spec, ImplementsCompressionService, CS!Spec
-----------------------------------------------------------------------------
(* Readers lose their chunk only to a call that compresses it, also where      *)
(* nothing coordinates them: an object is a version of one chunk for ever.     *)

\* Each object belongs to the chunk that f says: what a slot points to, what a call
\* compresses or makes, and what a reader refers to.
AreVersions(f) ==
    /\ f \in [1 .. Len(heap) -> ChunkIds]
    /\ \A c \in ChunkIds : f[slots[c]] = c
    /\ \A t \in Threads : object[t] # 0 => f[object[t]] = chunkId[t]
    /\ \A t \in Threads : newChunk[t] # 0 => f[newChunk[t]] = chunkId[t]

\* Who has not yet read its slot has no object, and a reader has one.
ObjectsAreHeld ==
    \A t \in Threads :
        /\ pc[t] \in {"idle", "copying", "fetching"} => object[t] = 0
        /\ pc[t] = "reading" => object[t] # 0

VersionInv == ObjectsAreHeld /\ \E f : AreVersions(f)

LEMMA VersionInit == Init => VersionInv
<1> SUFFICES ASSUME Init PROVE VersionInv
  OBVIOUS
<1>1. Len(heap) = NumChunks /\ slots = [c \in ChunkIds |-> c]
  BY SizesAssumption DEF Init, ChunkIds
<1>2. AreVersions([c \in ChunkIds |-> c])
  BY <1>1 DEF Init, AreVersions, ChunkIds
<1> QED
  BY <1>2 DEF Init, VersionInv, ObjectsAreHeld

\* A call makes an object, which is a version of the chunk that it compresses.
LEMMA NewVersion ==
    ASSUME CompressInv, VersionInv, NEW t \in Threads, NEW c \in ChunkIds, BeginCompress(t, c)
    PROVE  VersionInv'
<1>1. /\ TypeOK /\ ThreadInv(t) /\ ObjectsAreHeld
      /\ Len(heap) \in Nat /\ heap \in Seq(Seq(Segments))
  BY DEF CompressInv, VersionInv, TypeOK
<1>2. PICK f : AreVersions(f)
  BY DEF VersionInv
<1>3. /\ pc[t] = "idle" /\ pc' = [pc EXCEPT ![t] = "copying"] /\ heap' = Append(heap, <<>>)
      /\ newChunk' = [newChunk EXCEPT ![t] = Len(heap) + 1]
      /\ chunkId' = [chunkId EXCEPT ![t] = c] /\ slots' = slots /\ object' = object
  BY DEF BeginCompress, GoTo
<1>4. PICK n \in Nat : n = Len(heap)
  BY <1>1
<1>5. Len(heap') = n + 1 /\ n + 1 \notin 1 .. n
  BY <1>1, <1>3, <1>4
<1>6. object[t] = 0 /\ object \in [Threads -> 0 .. n] /\ newChunk \in [Threads -> 0 .. n]
      /\ slots \in [ChunkIds -> 1 .. n]
  BY <1>1, <1>3, <1>4 DEF ObjectsAreHeld, TypeOK
<1> DEFINE g == [o \in 1 .. n + 1 |-> IF o = n + 1 THEN c ELSE f[o]]
<1>7. g \in [1 .. Len(heap') -> ChunkIds]
  BY <1>2, <1>4, <1>5 DEF AreVersions
<1>8. g[n + 1] = c /\ \A o \in 1 .. n : g[o] = f[o]
  BY <1>4, <1>5
<1> HIDE DEF g
<1>9. \A d \in ChunkIds : g[slots'[d]] = d
  BY <1>2, <1>3, <1>6, <1>8 DEF AreVersions
<1>10. ASSUME NEW u \in Threads
       PROVE  /\ object'[u] # 0 => g[object'[u]] = chunkId'[u]
              /\ newChunk'[u] # 0 => g[newChunk'[u]] = chunkId'[u]
  <2>1. CASE u = t
    BY <1>1, <1>3, <1>4, <1>6, <1>8, <2>1 DEF TypeOK
  <2>2. CASE u # t
    <3>1. object'[u] = object[u] /\ newChunk'[u] = newChunk[u] /\ chunkId'[u] = chunkId[u]
      BY <1>3, <2>2
    <3>2. object[u] \in 0 .. n /\ newChunk[u] \in 0 .. n
      BY <1>6
    <3>3. /\ object[u] # 0 => object[u] \in 1 .. n
          /\ newChunk[u] # 0 => newChunk[u] \in 1 .. n
      BY <1>4, <3>2
    <3> QED
      BY <1>2, <1>8, <3>1, <3>3 DEF AreVersions
  <2> QED
    BY <2>1, <2>2
<1>11. AreVersions(g)'
  BY <1>7, <1>9, <1>10 DEF AreVersions
<1>12. ObjectsAreHeld'
  BY <1>1, <1>3, <1>6 DEF ObjectsAreHeld, TypeOK
<1> QED
  BY <1>11, <1>12 DEF VersionInv

\* Other steps make none: what a thread takes from a slot is a version of its chunk, ...
LEMMA VersionsStay ==
    ASSUME CompressInv, VersionInv, NEW t \in Threads, Len(heap') = Len(heap), slots' = slots,
           \A u \in Threads \ {t} : /\ pc'[u] = pc[u] /\ chunkId'[u] = chunkId[u]
                                    /\ object'[u] = object[u] /\ newChunk'[u] = newChunk[u],
           object'[t] # 0 =>
                /\ object'[t] \in {object[t], slots[chunkId[t]]}
                /\ chunkId[t] # 0 /\ chunkId'[t] = chunkId[t],
           newChunk'[t] # 0 => newChunk'[t] = newChunk[t] /\ chunkId'[t] = chunkId[t],
           ObjectsAreHeld'
    PROVE  VersionInv'
<1>1. PICK f : AreVersions(f)
  BY DEF VersionInv
<1>2. chunkId[t] # 0 => chunkId[t] \in ChunkIds
  BY SizesAssumption DEF CompressInv, TypeOK, ChunkIds
<1>3. /\ object'[t] # 0 => f[object'[t]] = chunkId'[t]
      /\ newChunk'[t] # 0 => f[newChunk'[t]] = chunkId'[t]
  BY <1>1, <1>2 DEF AreVersions
<1>4. AreVersions(f)'
  BY <1>1, <1>3 DEF AreVersions
<1> QED
  BY <1>4 DEF VersionInv

\* ... and so is what it puts into the slot.
LEMMA SwapKeepsVersions ==
    ASSUME CompressInv, VersionInv, NEW t \in Threads, EndSwap(t)
    PROVE  VersionInv'
<1>1. TypeOK /\ ThreadInv(t) /\ ObjectsAreHeld
  BY DEF CompressInv, VersionInv
<1>2. PICK f : AreVersions(f)
  BY DEF VersionInv
<1>3. /\ pc[t] = "swapping" /\ pc' = [pc EXCEPT ![t] = "swapped"] /\ heap' = heap
      /\ slots' = [slots EXCEPT ![chunkId[t]] = newChunk[t]]
      /\ chunkId' = chunkId /\ object' = object /\ newChunk' = newChunk
  BY DEF EndSwap, WrittenSlot, GoTo
<1>4. newChunk[t] # 0 /\ f[newChunk[t]] = chunkId[t]
  BY <1>1, <1>2, <1>3 DEF ThreadInv, Compressing, AreVersions
<1>5. \A c \in ChunkIds : f[slots'[c]] = c
  BY <1>1, <1>2, <1>3, <1>4 DEF AreVersions, TypeOK
<1>6. AreVersions(f)'
  BY <1>2, <1>3, <1>5 DEF AreVersions
<1>7. ObjectsAreHeld'
  BY <1>1, <1>3 DEF ObjectsAreHeld, TypeOK
<1> QED
  BY <1>6, <1>7 DEF VersionInv

LEMMA VersionStep == CompressInv /\ VersionInv /\ [Next]_vars => VersionInv'
<1> SUFFICES ASSUME CompressInv, VersionInv, [Next]_vars PROVE VersionInv'
  OBVIOUS
<1>1. TypeOK /\ ObjectsAreHeld /\ (\A t \in Threads : ThreadInv(t)) /\ heap \in Seq(Seq(Segments))
  BY DEF CompressInv, VersionInv, TypeOK
<1>2. \A t \in Threads : chunkId[t] # 0 => slots[chunkId[t]] # 0
  BY <1>1, SizesAssumption DEF TypeOK, ChunkIds
<1>3. ASSUME NEW t \in Threads, NEW c \in ChunkIds, BeginFetch(t, c) PROVE VersionInv'
  <2>1. /\ pc[t] = "idle" /\ pc' = [pc EXCEPT ![t] = "fetching"] /\ heap' = heap /\ slots' = slots
        /\ chunkId' = [chunkId EXCEPT ![t] = c] /\ object' = object /\ newChunk' = newChunk
    BY <1>3 DEF BeginFetch, GoTo
  <2>2. object[t] = 0 /\ newChunk[t] = 0
    BY <1>1, <2>1 DEF ObjectsAreHeld, ThreadInv, Compressing
  <2>3. ObjectsAreHeld'
    BY <1>1, <2>1, <2>2 DEF ObjectsAreHeld, TypeOK
  <2> QED
    BY <2>1, <2>2, <2>3, VersionsStay
<1>4. ASSUME NEW t \in Threads, CopySlot(t) \/ EndFetch(t) PROVE VersionInv'
  <2>1. /\ pc[t] \in {"copying", "fetching"} /\ heap' = heap /\ slots' = slots
        /\ pc' = [pc EXCEPT ![t] = pc'[t]] /\ pc'[t] \in {"spawning", "reading"}
        /\ object' = [object EXCEPT ![t] = slots[chunkId[t]]]
        /\ chunkId' = chunkId /\ newChunk' = newChunk
    BY <1>1, <1>4 DEF CopySlot, EndFetch, GoTo, TypeOK
  <2>2. chunkId[t] # 0
    BY <1>1, <2>1 DEF ThreadInv
  <2>3. object'[t] = slots[chunkId[t]] /\ object'[t] # 0
    BY <1>1, <1>2, <2>1, <2>2 DEF TypeOK
  <2>4. ObjectsAreHeld'
    BY <1>1, <2>1, <2>3 DEF ObjectsAreHeld, TypeOK
  <2>5. /\ Len(heap') = Len(heap) /\ slots' = slots /\ object'[t] = slots[chunkId[t]]
        /\ chunkId'[t] = chunkId[t] /\ newChunk'[t] = newChunk[t]
        /\ \A u \in Threads \ {t} : /\ pc'[u] = pc[u] /\ chunkId'[u] = chunkId[u]
                                    /\ object'[u] = object[u] /\ newChunk'[u] = newChunk[u]
    BY <1>1, <2>1, <2>3 DEF TypeOK
  <2> QED
    BY <2>2, <2>4, <2>5, VersionsStay
<1>5. ASSUME NEW t \in Threads, Return(t) \/ EndReading(t) \/ (StartFails(t) /\ Started(t) = {})
      PROVE  VersionInv'
  <2>1. /\ heap' = heap /\ slots' = slots /\ pc' = [pc EXCEPT ![t] = "idle"]
        /\ chunkId' = [chunkId EXCEPT ![t] = 0] /\ object' = [object EXCEPT ![t] = 0]
    BY <1>5 DEF Return, EndReading, StartFails, GoTo
  <2>2. object'[t] = 0
    BY <1>1, <2>1 DEF TypeOK
  <2>3. newChunk'[t] = 0 /\ \A u \in Threads \ {t} : newChunk'[u] = newChunk[u]
    <3>1. CASE Return(t) \/ (StartFails(t) /\ Started(t) = {})
      <4>1. newChunk' = [newChunk EXCEPT ![t] = 0]
        BY <3>1 DEF Return, StartFails
      <4> QED
        BY <1>1, <4>1 DEF TypeOK
    <3>2. CASE EndReading(t)
      BY <1>1, <3>2 DEF EndReading, ThreadInv, Compressing
    <3> QED
      BY <1>5, <3>1, <3>2
  <2>4. ObjectsAreHeld'
    BY <1>1, <2>1, <2>2 DEF ObjectsAreHeld, TypeOK
  <2> QED
    BY <2>1, <2>2, <2>3, <2>4, VersionsStay
<1>6. ASSUME NEW t \in Threads,
             AllStarted(t) \/ AllJoined(t) \/ Lock(t) \/ BeginSwap(t) \/ Unlock(t)
      PROVE  VersionInv'
  <2>1. /\ pc[t] \in Compressing \ {"copying"} /\ pc' = [pc EXCEPT ![t] = pc'[t]]
        /\ pc'[t] \in Compressing \ {"copying"}
        /\ UNCHANGED <<heap, slots, chunkId, object, newChunk>>
    BY <1>1, <1>6
    DEF AllStarted, AllJoined, Lock, BeginSwap, Unlock, GoTo, TypeOK, Compressing
  <2>2. ObjectsAreHeld'
    BY <1>1, <2>1 DEF ObjectsAreHeld, TypeOK, Compressing
  <2>3. PICK f : AreVersions(f)
    BY DEF VersionInv
  <2>4. AreVersions(f)'
    BY <2>1, <2>3 DEF AreVersions
  <2> QED
    BY <2>2, <2>4 DEF VersionInv
<1>7. ASSUME UNCHANGED <<slots, pc, chunkId, object, newChunk>>, Len(heap') = Len(heap)
      PROVE  VersionInv'
  <2>1. PICK f : AreVersions(f)
    BY DEF VersionInv
  <2>2. AreVersions(f)'
    BY <1>7, <2>1 DEF AreVersions
  <2>3. ObjectsAreHeld'
    BY <1>1, <1>7 DEF ObjectsAreHeld
  <2> QED
    BY <2>2, <2>3 DEF VersionInv
<1>8. ASSUME NEW t \in Threads, JoinWorker(t) PROVE VersionInv'
  <2>1. Len(heap') = Len(heap)
    BY <1>1, <1>8 DEF JoinWorker
  <2> QED
    BY <1>7, <1>8, <2>1 DEF JoinWorker, threadVars
<1>9. ASSUME NEW t \in Threads, StartWorker(t) \/ (StartFails(t) /\ Started(t) # {})
       PROVE  VersionInv'
  BY <1>7, <1>9 DEF StartWorker, StartFails
<1>10. ASSUME NEW t \in Threads, NEW i \in 1 .. Columns, Work(t, i) PROVE VersionInv'
  BY <1>7, <1>10 DEF Work, WorkerStores, WorkerThrows, threadVars
<1>11. CASE UNCHANGED vars
  BY <1>7, <1>11 DEF vars, threadVars
<1> QED
  BY <1>3, <1>4, <1>5, <1>6, <1>8, <1>9, <1>10, <1>11, NewVersion, SwapKeepsVersions DEF Next, Continue

\* The step after which an object that a reader refers to is gone.
LEMMA LossStep ==
    ASSUME CompressInv, VersionInv, [Next]_vars, NEW u \in Threads,
           pc[u] = "reading", pc'[u] = "reading", Exists(object[u]), ~Exists(object[u])'
    PROVE  \E t \in Threads \ {u} : /\ chunkId[t] = chunkId[u] /\ pc'[t] # pc[t]
                                    /\ pc[t] \in {"spawning", "swapping", "returning"}
<1>1. TypeOK /\ ObjectsAreHeld /\ \A t \in Threads : ThreadInv(t)
  BY DEF CompressInv, VersionInv
<1>2. PICK f : AreVersions(f)
  BY DEF VersionInv
<1>3. PICK o : o = object[u]
  OBVIOUS
<1>4. o # 0 /\ f[o] = chunkId[u]
  BY <1>1, <1>2, <1>3 DEF ObjectsAreHeld, AreVersions
<1>5. object'[u] = o
  <2>1. ASSUME NEW t \in Threads, NEW c \in ChunkIds, BeginCompress(t, c) \/ BeginFetch(t, c)
        PROVE  object' = object
    BY <2>1 DEF BeginCompress, BeginFetch
  <2>2. ASSUME NEW t \in Threads, Continue(t) \/ EndFetch(t) \/ EndReading(t)
        PROVE  object' = object \/ pc[t] # "reading" \/ pc'[t] # "reading"
    BY <1>1, <2>2
    DEF Continue, CopySlot, StartWorker, StartFails, AllStarted, AllJoined, JoinWorker, Lock,
        BeginSwap, EndSwap, Unlock, Return, EndFetch, EndReading, GoTo, TypeOK, threadVars
  <2>3. ASSUME NEW t \in Threads, Continue(t) \/ EndFetch(t) \/ EndReading(t), t # u
        PROVE  object'[u] = object[u]
    BY <1>1, <2>3
    DEF Continue, CopySlot, StartWorker, StartFails, AllStarted, AllJoined, JoinWorker, Lock,
        BeginSwap, EndSwap, Unlock, Return, EndFetch, EndReading, TypeOK, threadVars
  <2>4. ASSUME NEW t \in Threads, NEW i \in 1 .. Columns, Work(t, i) PROVE object' = object
    BY <2>4 DEF Work, WorkerStores, WorkerThrows, threadVars
  <2>5. UNCHANGED vars => object' = object
    BY DEF vars, threadVars
  <2> QED
    BY <1>3, <2>1, <2>2, <2>3, <2>4, <2>5 DEF Next
<1>6. /\ \A c \in ChunkIds : slots'[c] # o
      /\ \A t \in Threads : IsCompressing(t)' => o \notin {object'[t], newChunk'[t]}
  BY <1>5 DEF Exists
<1>7. CASE \E c \in ChunkIds : slots[c] = o
  <2>1. PICK c \in ChunkIds : slots[c] = o
    BY <1>7
  <2>2. c = chunkId[u] /\ slots'[c] # slots[c]
    BY <1>2, <1>4, <1>6, <2>1 DEF AreVersions
  <2>3. PICK t \in Threads : EndSwap(t)
    <3>1. ASSUME NEW t \in Threads, NEW d \in ChunkIds, BeginCompress(t, d) \/ BeginFetch(t, d)
          PROVE  FALSE
      BY <2>2, <3>1 DEF BeginCompress, BeginFetch
    <3>2. ASSUME NEW t \in Threads, Continue(t) \/ EndFetch(t) \/ EndReading(t), ~EndSwap(t)
          PROVE  FALSE
      BY <2>2, <3>2
      DEF Continue, CopySlot, StartWorker, StartFails, AllStarted, AllJoined, JoinWorker, Lock,
          BeginSwap, Unlock, Return, EndFetch, EndReading
    <3>3. ASSUME NEW t \in Threads, NEW i \in 1 .. Columns, Work(t, i) PROVE FALSE
      BY <2>2, <3>3 DEF Work, WorkerStores, WorkerThrows
    <3>4. ~UNCHANGED vars
      BY <2>2 DEF vars
    <3> QED
      BY <3>1, <3>2, <3>3, <3>4 DEF Next
  <2>4. /\ pc[t] = "swapping" /\ pc' = [pc EXCEPT ![t] = "swapped"]
        /\ slots' = [slots EXCEPT ![chunkId[t]] = newChunk[t]]
    BY <2>3 DEF EndSwap, WrittenSlot, GoTo
  <2>5. chunkId[t] = c /\ t # u /\ pc'[t] = "swapped"
    BY <1>1, <2>2, <2>4 DEF TypeOK
  <2> QED
    BY <2>2, <2>4, <2>5
<1>8. CASE \E t \in Threads : IsCompressing(t) /\ o \in {object[t], newChunk[t]}
  <2>1. PICK t \in Threads : IsCompressing(t) /\ o \in {object[t], newChunk[t]}
    BY <1>8
  <2>2. chunkId[t] = chunkId[u] /\ t # u
    BY <1>2, <1>4, <2>1 DEF AreVersions, IsCompressing
  <2>3. pc[t] \in Compressing \ {"copying"} \/ (object[t] = 0 /\ o = newChunk[t])
    BY <1>1, <1>4, <2>1
    DEF ObjectsAreHeld, IsCompressing, ThreadInv, Compressing, TypeOK, Places
  <2>4. ~IsCompressing(t)' \/ o \notin {object'[t], newChunk'[t]}
    BY <1>6
  <2>5. pc'[t] # pc[t] /\ pc[t] \in {"spawning", "returning"}
    <3>1. ASSUME NEW v \in Threads, NEW d \in ChunkIds, BeginCompress(v, d) \/ BeginFetch(v, d)
          PROVE  v # t /\ UNCHANGED <<object[t], newChunk[t], chunkId[t], pc[t]>>
      <4>1. v # t
        BY <1>1, <2>1, <3>1 DEF BeginCompress, BeginFetch, ThreadInv, IsCompressing
      <4> QED
        BY <1>1, <3>1, <4>1 DEF BeginCompress, BeginFetch, GoTo, TypeOK
    <3>2. ASSUME NEW v \in Threads, Continue(v) \/ EndFetch(v) \/ EndReading(v), v # t
          PROVE  UNCHANGED <<object[t], newChunk[t], chunkId[t], pc[t]>>
      BY <1>1, <3>2
      DEF Continue, CopySlot, StartWorker, StartFails, AllStarted, AllJoined, JoinWorker, Lock,
          BeginSwap, EndSwap, Unlock, Return, EndFetch, EndReading, GoTo, TypeOK, threadVars
    <3>3. ASSUME NEW v \in Threads, NEW i \in 1 .. Columns, Work(v, i)
          PROVE  UNCHANGED <<object[t], newChunk[t], chunkId[t], pc[t]>>
      BY <3>3 DEF Work, WorkerStores, WorkerThrows, threadVars
    <3>4. UNCHANGED vars => UNCHANGED <<object[t], newChunk[t], chunkId[t], pc[t]>>
      BY DEF vars, threadVars
    <3>5. ~UNCHANGED <<object[t], newChunk[t], chunkId[t], pc[t]>>
      BY <2>1, <2>4 DEF IsCompressing
    <3>6. Continue(t) \/ EndFetch(t) \/ EndReading(t)
      BY <3>1, <3>2, <3>3, <3>4, <3>5 DEF Next
    <3>7. ~EndFetch(t) /\ ~EndReading(t)
      BY <2>1 DEF EndFetch, EndReading, IsCompressing
    <3>8. ~(StartWorker(t) \/ JoinWorker(t))
      BY <3>5 DEF StartWorker, JoinWorker, threadVars
    <3>9. ~CopySlot(t)
      <4>1. SUFFICES ASSUME CopySlot(t) PROVE FALSE
        OBVIOUS
      <4>2. newChunk'[t] = newChunk[t] /\ chunkId'[t] = chunkId[t] /\ pc'[t] = "spawning"
            /\ pc[t] = "copying"
        BY <1>1, <4>1 DEF CopySlot, GoTo, TypeOK
      <4> QED
        BY <2>1, <2>3, <2>4, <4>2 DEF IsCompressing
    <3>10. ~(AllStarted(t) \/ AllJoined(t) \/ Lock(t) \/ BeginSwap(t) \/ EndSwap(t) \/ Unlock(t))
      <4>1. SUFFICES ASSUME AllStarted(t) \/ AllJoined(t) \/ Lock(t) \/ BeginSwap(t)
                                \/ EndSwap(t) \/ Unlock(t)
                     PROVE  FALSE
        OBVIOUS
      <4>2. /\ UNCHANGED <<object, newChunk, chunkId>> /\ pc'[t] \notin {"fetching", "reading"}
        BY <1>1, <4>1
        DEF AllStarted, AllJoined, Lock, BeginSwap, EndSwap, Unlock, GoTo, TypeOK
      <4> QED
        BY <2>1, <2>4, <4>2 DEF IsCompressing
    <3>11. CASE StartFails(t)
      <4>1. Started(t) = {}
        BY <3>5, <3>11 DEF StartFails
      <4> QED
        BY <1>1, <3>11, <4>1 DEF StartFails, GoTo, TypeOK
    <3>12. CASE Return(t)
      BY <1>1, <3>12 DEF Return, GoTo, TypeOK
    <3> QED
      BY <3>6, <3>7, <3>8, <3>9, <3>10, <3>11, <3>12 DEF Continue
  <2> QED
    BY <2>2, <2>5
<1> QED
  BY <1>3, <1>7, <1>8 DEF Exists

\* With any number of threads, chunks and columns, and whatever chunks they share, a
\* reader of get_chunk's reference loses its chunk only in a step of a call of
\* compress_chunk on this chunk.
THEOREM ReadersKeepOtherChunks == Spec => ReadersLoseChunksToTheirCompression
<1>1. Init => CompressInv /\ VersionInv
  BY CompressInit, VersionInit
<1>2. CompressInv /\ VersionInv /\ [Next]_vars => (CompressInv /\ VersionInv)'
  BY CompressStep, VersionStep
<1>3. CompressInv /\ VersionInv /\ [Next]_vars =>
        [\A u \in Threads :
           pc[u] = "reading" /\ pc'[u] = "reading" /\ Exists(object[u]) /\ ~Exists(object[u])' =>
              \E t \in Threads \ {u} :
                  /\ chunkId[t] = chunkId[u] /\ pc'[t] # pc[t]
                  /\ pc[t] \in {"spawning", "swapping", "returning"}]_vars
  BY LossStep
<1> QED
  BY <1>1, <1>2, <1>3, PTL DEF Spec, ReadersLoseChunksToTheirCompression
=============================================================================
