----------------------------- MODULE CompressChunk -----------------------------
(* Table::compress_chunk as several threads run it, down to its locks, worker  *)
(* threads and shared pointers, beside threads that read the chunks through    *)
(* the references Table::get_chunk returns.                                    *)
(*                                                                             *)
(* The slots of _chunks hold shared pointers to Chunk objects.  Copying such a *)
(* pointer out of a slot, dereferencing it there and assigning to it take time *)
(* each: they have a beginning and an end, and a program in which another      *)
(* access to the same slot overlaps an assignment is undefined, as is one that *)
(* uses an object whose last shared pointer is gone.                           *)
EXTENDS Naturals, Sequences, FiniteSets

CONSTANTS Threads,      \* the threads that compress and read chunks
          NumChunks,    \* the chunks of the table are 1 .. NumChunks
          Columns,      \* the number of columns of each
          Shared,       \* the chunks that threads use without coordination: every other
                        \* one is used by one thread at a time
          ThreadLimit,  \* the worker threads that the system can run at once
          MaxCalls      \* bound: the calls of compress_chunk

ASSUME SizesAssumption ==
    /\ NumChunks \in Nat \ {0} /\ Columns \in Nat
    /\ ThreadLimit \in Nat /\ MaxCalls \in Nat
ASSUME SharedAssumption == Shared \subseteq 1 .. NumChunks

ChunkIds == 1 .. NumChunks

VARIABLES
    slots,          \* _chunks: the object that each slot points to
    heap,           \* the Chunk objects made so far, each a sequence of segments
    unknownColumns, \* the columns whose type name is unknown, in a checked build
    mutex,          \* chunk_access_mutex: the threads that hold it
    terminated,     \* TRUE once std::terminate has been called
    pc,             \* where each thread is
    chunkId,        \* the chunk_id it has been called with, 0 without a call
    object,         \* old_chunk of a compressing thread, the reference of a reader
    newChunk,       \* new_chunk of a compressing thread
    workers,        \* the state of each of its worker threads
    compressed      \* its compressed_segments

threadVars == <<pc, chunkId, object, newChunk, workers, compressed>>
vars == <<slots, heap, unknownColumns, mutex, terminated, threadVars>>

Segment(kind, column) == [kind |-> kind, column |-> column]
NullSegment == Segment("null", 0)

NoWorkers == [i \in 1 .. Columns |-> "unstarted"]
NoSegments == [i \in 1 .. Columns |-> NullSegment]

Init ==
    /\ slots = [c \in ChunkIds |-> c]
    /\ heap = [c \in ChunkIds |-> [i \in 1 .. Columns |-> Segment("value", i)]]
    /\ unknownColumns \in SUBSET (1 .. Columns)
    /\ mutex = {}
    /\ terminated = FALSE
    /\ pc = [t \in Threads |-> "idle"]
    /\ chunkId = [t \in Threads |-> 0]
    /\ object = [t \in Threads |-> 0]
    /\ newChunk = [t \in Threads |-> 0]
    /\ workers = [t \in Threads |-> NoWorkers]
    /\ compressed = [t \in Threads |-> NoSegments]

-----------------------------------------------------------------------------
(* What C++ leaves undefined.                                                  *)

\* (Mutant: the compressed chunk is always written to the first slot.)
FirstSlot(t) == 1

\* The slot a thread replaces.
WrittenSlot(t) == chunkId[t]

Writes(t, c) == pc[t] = "swapping" /\ WrittenSlot(t) = c
Reads(t, c) == pc[t] \in {"copying", "fetching"} /\ chunkId[t] = c

\* Another access to a slot overlaps an assignment to it.
RaceFor(c) ==
    \E t, u \in Threads : t # u /\ Writes(t, c) /\ (Writes(u, c) \/ Reads(u, c))

Race == \E c \in ChunkIds : RaceFor(c)

\* An object exists as long as a slot or a thread in compress_chunk points to it.
IsCompressing(t) == chunkId[t] # 0 /\ pc[t] \notin {"fetching", "reading"}

Exists(o) ==
    \/ \E c \in ChunkIds : slots[c] = o
    \/ \E t \in Threads : IsCompressing(t) /\ o \in {object[t], newChunk[t]}

\* A reader's reference outlives the chunk it refers to.
IsDangling(t) == pc[t] = "reading" /\ ~Exists(object[t])

Dangling == \E t \in Threads : IsDangling(t)

Undefined == Race \/ Dangling

\* The program goes on.
Running == ~terminated /\ ~Undefined

-----------------------------------------------------------------------------
(* compress_chunk.                                                             *)

MayUse(t, c) == c \notin Shared => \A u \in Threads \ {t} : chunkId[u] # c

GoTo(t, place) == pc' = [pc EXCEPT ![t] = place]

\* new_chunk is made; the copy of the slot begins (_chunks.at, without a lock).
BeginCompress(t, c) ==
    /\ Running
    /\ pc[t] = "idle" /\ MayUse(t, c)
    /\ Len(heap) < NumChunks + MaxCalls
    /\ heap' = Append(heap, <<>>)
    /\ newChunk' = [newChunk EXCEPT ![t] = Len(heap) + 1]
    /\ chunkId' = [chunkId EXCEPT ![t] = c]
    /\ GoTo(t, "copying")
    /\ UNCHANGED <<slots, unknownColumns, mutex, terminated, object, workers, compressed>>

CopySlot(t) ==
    /\ Running
    /\ pc[t] = "copying"
    /\ object' = [object EXCEPT ![t] = slots[chunkId[t]]]
    /\ GoTo(t, "spawning")
    /\ UNCHANGED <<slots, heap, unknownColumns, mutex, terminated, chunkId, newChunk, workers,
                   compressed>>

\* The columns whose worker has been started.
Started(t) == {i \in 1 .. Columns : workers[t][i] # "unstarted"}

RunningWorkers == {w \in Threads \X (1 .. Columns) : workers[w[1]][w[2]] = "running"}

\* One worker is started for each column, from left to right.
StartWorker(t) ==
    /\ Running
    /\ pc[t] = "spawning"
    /\ \E i \in 1 .. Columns \ Started(t) :
         /\ 1 .. (i - 1) \subseteq Started(t)
         /\ Cardinality(RunningWorkers) < ThreadLimit
         /\ workers' = [workers EXCEPT ![t][i] = "running"]
    /\ UNCHANGED <<slots, heap, unknownColumns, mutex, terminated, pc, chunkId, object, newChunk,
                   compressed>>

\* The std::thread constructor throws.  Unwinding destroys the workers' handles:
\* if there are any, that terminates the program, else the exception reaches the
\* caller.
StartFails(t) ==
    /\ Running
    /\ pc[t] = "spawning" /\ Started(t) # 1 .. Columns
    /\ Cardinality(RunningWorkers) >= ThreadLimit
    /\ IF Started(t) = {}
       THEN /\ GoTo(t, "idle")
            /\ chunkId' = [chunkId EXCEPT ![t] = 0]
            /\ object' = [object EXCEPT ![t] = 0]
            /\ newChunk' = [newChunk EXCEPT ![t] = 0]
            /\ UNCHANGED terminated
       ELSE terminated' = TRUE /\ UNCHANGED <<pc, chunkId, object, newChunk>>
    /\ UNCHANGED <<slots, heap, unknownColumns, mutex, workers, compressed>>

AllStarted(t) ==
    /\ Running
    /\ pc[t] = "spawning" /\ Started(t) = 1 .. Columns
    /\ GoTo(t, "joining")
    /\ UNCHANGED <<slots, heap, unknownColumns, mutex, terminated, chunkId, object, newChunk,
                   workers, compressed>>

\* A worker stores the dictionary segment it has made of its column.
WorkerStores(t, i) ==
    /\ Running
    /\ workers[t][i] = "running" /\ i \notin unknownColumns
    /\ compressed' = [compressed EXCEPT
                        ![t][i] = Segment("dictionary", heap[object[t]][i].column)]
    /\ workers' = [workers EXCEPT ![t][i] = "finished"]
    /\ UNCHANGED <<slots, heap, unknownColumns, mutex, terminated, pc, chunkId, object, newChunk>>

\* An unknown type name makes a worker throw, and nothing catches it there.
WorkerThrows(t, i) ==
    /\ Running
    /\ workers[t][i] = "running" /\ i \in unknownColumns
    /\ terminated' = TRUE
    /\ UNCHANGED <<slots, heap, unknownColumns, mutex, threadVars>>

\* The worker that is joined next, and its segment added to the new chunk.
NextJoined(t) == Len(heap[newChunk[t]]) + 1

\* (Mutant: the segment is taken without waiting for its worker.)
IsTaken(t, i) == workers[t][i] \in {"running", "finished"}

IsJoinable(t, i) == workers[t][i] = "finished"

JoinWorker(t) ==
    /\ Running
    /\ pc[t] = "joining" /\ NextJoined(t) <= Columns
    /\ IsJoinable(t, NextJoined(t))
    /\ heap' = [heap EXCEPT ![newChunk[t]] = Append(@, compressed[t][NextJoined(t)])]
    /\ UNCHANGED <<slots, unknownColumns, mutex, terminated, threadVars>>

AllJoined(t) ==
    /\ Running
    /\ pc[t] = "joining" /\ NextJoined(t) > Columns
    /\ GoTo(t, "locking")
    /\ UNCHANGED <<slots, heap, unknownColumns, mutex, terminated, chunkId, object, newChunk,
                   workers, compressed>>

\* (Mutant: a lock that is always free.)
AlwaysFree == TRUE

MutexIsFree == mutex = {}

Lock(t) ==
    /\ Running
    /\ pc[t] = "locking" /\ MutexIsFree
    /\ mutex' = mutex \cup {t}
    /\ GoTo(t, "locked")
    /\ UNCHANGED <<slots, heap, unknownColumns, terminated, chunkId, object, newChunk, workers,
                   compressed>>

\* _chunks[chunk_id] = new_chunk begins ...
BeginSwap(t) ==
    /\ Running
    /\ pc[t] = "locked"
    /\ GoTo(t, "swapping")
    /\ UNCHANGED <<slots, heap, unknownColumns, mutex, terminated, chunkId, object, newChunk,
                   workers, compressed>>

\* ... and ends: the slot no longer keeps its old object.
EndSwap(t) ==
    /\ Running
    /\ pc[t] = "swapping"
    /\ slots' = [slots EXCEPT ![WrittenSlot(t)] = newChunk[t]]
    /\ GoTo(t, "swapped")
    /\ UNCHANGED <<heap, unknownColumns, mutex, terminated, chunkId, object, newChunk, workers,
                   compressed>>

\* (Mutant: the lock is never given back.)
KeepLock(t) == mutex

Unlocked(t) == mutex \ {t}

Unlock(t) ==
    /\ Running
    /\ pc[t] = "swapped"
    /\ mutex' = Unlocked(t)
    /\ GoTo(t, "returning")
    /\ UNCHANGED <<slots, heap, unknownColumns, terminated, chunkId, object, newChunk, workers,
                   compressed>>

\* compress_chunk returns: old_chunk and new_chunk no longer count.
Return(t) ==
    /\ Running
    /\ pc[t] = "returning"
    /\ GoTo(t, "idle")
    /\ chunkId' = [chunkId EXCEPT ![t] = 0]
    /\ object' = [object EXCEPT ![t] = 0]
    /\ newChunk' = [newChunk EXCEPT ![t] = 0]
    /\ workers' = [workers EXCEPT ![t] = NoWorkers]
    /\ compressed' = [compressed EXCEPT ![t] = NoSegments]
    /\ UNCHANGED <<slots, heap, unknownColumns, mutex, terminated>>

-----------------------------------------------------------------------------
(* Readers of get_chunk's reference.                                           *)

BeginFetch(t, c) ==
    /\ Running
    /\ pc[t] = "idle" /\ MayUse(t, c)
    /\ chunkId' = [chunkId EXCEPT ![t] = c]
    /\ GoTo(t, "fetching")
    /\ UNCHANGED <<slots, heap, unknownColumns, mutex, terminated, object, newChunk, workers,
                   compressed>>

\* *_chunks[chunk_id]: the reader has a reference and no share of the chunk.
EndFetch(t) ==
    /\ Running
    /\ pc[t] = "fetching"
    /\ object' = [object EXCEPT ![t] = slots[chunkId[t]]]
    /\ GoTo(t, "reading")
    /\ UNCHANGED <<slots, heap, unknownColumns, mutex, terminated, chunkId, newChunk, workers,
                   compressed>>

EndReading(t) ==
    /\ Running
    /\ pc[t] = "reading"
    /\ GoTo(t, "idle")
    /\ chunkId' = [chunkId EXCEPT ![t] = 0]
    /\ object' = [object EXCEPT ![t] = 0]
    /\ UNCHANGED <<slots, heap, unknownColumns, mutex, terminated, newChunk, workers, compressed>>

-----------------------------------------------------------------------------
\* What a thread does once it has been called.
Continue(t) ==
    \/ CopySlot(t) \/ StartWorker(t) \/ StartFails(t) \/ AllStarted(t) \/ JoinWorker(t)
    \/ AllJoined(t) \/ Lock(t) \/ BeginSwap(t) \/ EndSwap(t) \/ Unlock(t) \/ Return(t)

Work(t, i) == WorkerStores(t, i) \/ WorkerThrows(t, i)

Next ==
    \/ \E t \in Threads : \E c \in ChunkIds : BeginCompress(t, c) \/ BeginFetch(t, c)
    \/ \E t \in Threads : Continue(t) \/ EndFetch(t) \/ EndReading(t)
    \/ \E t \in Threads : \E i \in 1 .. Columns : Work(t, i)

Spec == Init /\ [][Next]_vars

\* The operating system runs every thread of the program: one inside a call or a
\* worker that can take a step takes it eventually.
FairSpec ==
    /\ Spec
    /\ \A t \in Threads :
         /\ WF_vars(Continue(t))
         /\ \A i \in 1 .. Columns : WF_vars(Work(t, i))

-----------------------------------------------------------------------------
Places == {"idle", "copying", "spawning", "joining", "locking", "locked", "swapping", "swapped",
           "returning", "fetching", "reading"}
Segments == {Segment(kind, i) : kind \in {"value", "dictionary"}, i \in 1 .. Columns}

\* The state is made of what the code's variables can hold; no chunk ever gets a
\* null segment, though compressed_segments starts out with nothing else.
TypeOK ==
    /\ slots \in [ChunkIds -> 1 .. Len(heap)]
    /\ heap \in Seq(Seq(Segments))
    /\ unknownColumns \subseteq 1 .. Columns
    /\ mutex \subseteq Threads
    /\ terminated \in BOOLEAN
    /\ pc \in [Threads -> Places]
    /\ chunkId \in [Threads -> 0 .. NumChunks]
    /\ object \in [Threads -> 0 .. Len(heap)]
    /\ newChunk \in [Threads -> 0 .. Len(heap)]
    /\ workers \in [Threads -> [1 .. Columns -> {"unstarted", "running", "finished"}]]
    /\ compressed \in [Threads -> [1 .. Columns -> Segments \cup {NullSegment}]]

\* Whatever the threads do, every slot holds a chunk with all its columns, in
\* their order, none missing and all compressed or none: a chunk is published
\* only when every worker's segment is in it.
SlotsHoldWholeChunks ==
    \A c \in ChunkIds : \E kind \in {"value", "dictionary"} :
        heap[slots[c]] = [i \in 1 .. Columns |-> Segment(kind, i)]

\* Two threads are never between lock and unlock at the same time, whatever
\* chunks they compress (chunk_access_mutex).
SwapsAreExclusive ==
    \A t, u \in Threads :
        pc[t] \in {"locked", "swapping", "swapped"} /\ pc[u] \in {"locked", "swapping", "swapped"}
            => t = u

\* A chunk that one thread uses at a time is safe: nothing races for its slot, and its
\* reader never loses it, however the calls on other chunks interleave, among them
\* those of threads that use one chunk without any coordination.
CoordinatedChunksAreSafe ==
    \A c \in ChunkIds \ Shared :
        ~RaceFor(c) /\ \A t \in Threads : chunkId[t] = c => ~IsDangling(t)

\* No thread accesses a slot of _chunks while another one replaces its pointer
\* ("Prevent the _chunks vector from concurrent access", table.cpp:134).
ChunksAreNotAccessedConcurrently == ~Race

\* A reader of a chunk that others use too loses the object that get_chunk referred it
\* to only in a step of a call that compresses this very chunk: when it replaces the
\* slot, or when, as the last to share the object, it returns or fails to start a worker.
ReadersLoseChunksToTheirCompression ==
    [][\A u \in Threads :
         pc[u] = "reading" /\ pc'[u] = "reading" /\ Exists(object[u]) /\ ~Exists(object[u])' =>
            \E t \in Threads \ {u} :
                /\ chunkId[t] = chunkId[u] /\ pc'[t] # pc[t]
                /\ pc[t] \in {"spawning", "swapping", "returning"}]_vars

\* A thread in compress_chunk leaves it, by returning or by an exception, unless the
\* program is terminated or left what C++ defines: joins and the lock never wait for ever.
CallsEnd ==
    \A t \in Threads : IsCompressing(t) ~> (pc[t] = "idle" \/ terminated \/ Undefined)

\* compress_chunk is atomic to the readers of the slots: a call compresses its
\* chunk in one step, before it returns, and never changes what it holds.
CS == INSTANCE CompressionService WITH
        contents <- [c \in ChunkIds |-> heap[slots[c]]],
        calls <- [t \in Threads |->
                    IF IsCompressing(t)
                    THEN [stage |-> IF pc[t] \in {"swapped", "returning"}
                                    THEN "compressed" ELSE "called",
                          chunk |-> chunkId[t]]
                    ELSE [stage |-> "idle", chunk |-> 0]],
        ended <- terminated

ImplementsCompressionService == CS!Spec
=============================================================================
