-------------------------- MODULE CompressionService --------------------------
(* What compress_chunk promises threads that use a table together: a chunk is  *)
(* compressed as a whole and in one step, at some moment during the call; what *)
(* it holds, column by column, never changes.                                  *)
EXTENDS Naturals, Sequences

CONSTANTS Threads,    \* the threads that call compress_chunk
          ChunkIds,   \* the chunks of the table
          Columns     \* the number of columns

VARIABLES contents,   \* contents[c] is what a reader of chunk c finds
          calls,      \* calls[t] is how far the call of thread t has come
          ended       \* TRUE once the program has been terminated

vars == <<contents, calls, ended>>

Chunk(kind) == [i \in 1 .. Columns |-> [kind |-> kind, column |-> i]]

Idle == [stage |-> "idle", chunk |-> 0]

Init ==
    /\ contents = [c \in ChunkIds |-> Chunk("value")]
    /\ calls = [t \in Threads |-> Idle]
    /\ ended = FALSE

Call(t, c) ==
    /\ calls[t] = Idle
    /\ calls' = [calls EXCEPT ![t] = [stage |-> "called", chunk |-> c]]
    /\ UNCHANGED <<contents, ended>>

\* The moment at which a call takes effect.
Compress(t) ==
    /\ calls[t].stage = "called"
    /\ contents' = [contents EXCEPT ![calls[t].chunk] = Chunk("dictionary")]
    /\ calls' = [calls EXCEPT ![t].stage = "compressed"]
    /\ UNCHANGED ended

\* A call returns once it has taken effect.
Return(t) ==
    /\ calls[t].stage = "compressed"
    /\ calls' = [calls EXCEPT ![t] = Idle]
    /\ UNCHANGED <<contents, ended>>

\* A call throws instead of taking effect.
Throw(t) ==
    /\ calls[t].stage = "called"
    /\ calls' = [calls EXCEPT ![t] = Idle]
    /\ UNCHANGED <<contents, ended>>

\* An exception that nothing catches terminates the program.
Terminate ==
    /\ \E t \in Threads : calls[t].stage = "called"
    /\ ended' = TRUE
    /\ UNCHANGED <<contents, calls>>

Next ==
    /\ ~ended
    /\ \/ \E t \in Threads :
            (\E c \in ChunkIds : Call(t, c)) \/ Compress(t) \/ Return(t) \/ Throw(t)
       \/ Terminate

Spec == Init /\ [][Next]_vars
=============================================================================
