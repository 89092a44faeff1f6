----------------------------- MODULE ChunkQueue -----------------------------
(***************************************************************************)
(* What varchunk/varchunk.h promises its callers, free of any memory       *)
(* layout: one producer and one consumer share a first-in first-out queue  *)
(* of chunks.  The producer publishes whole chunks only; the consumer      *)
(* looks at the oldest chunk, keeps it in front of it as long as it likes  *)
(* and then either drops it or leaves it in the queue to look at it again. *)
(***************************************************************************)
EXTENDS Sequences

CONSTANTS Chunk,    \* the chunks that can be queued
          NoChunk   \* not a chunk: nothing is in front of the consumer

VARIABLES queue,    \* the published chunks, the oldest first
          front     \* the chunk the consumer is looking at, or NoChunk

vars == <<queue, front>>

Init == queue = <<>> /\ front = NoChunk

\* The producer publishes a chunk.
Put == /\ \E c \in Chunk : queue' = Append(queue, c)
       /\ UNCHANGED front

\* The consumer looks at the oldest chunk.
Peek == /\ front = NoChunk
        /\ queue # <<>>
        /\ front' = Head(queue)
        /\ UNCHANGED queue

\* The consumer is done with the chunk it looked at.
Drop == /\ front # NoChunk
        /\ queue # <<>>
        /\ queue' = Tail(queue)
        /\ front' = NoChunk

\* The consumer leaves the chunk for later.
Leave == /\ front # NoChunk
         /\ front' = NoChunk
         /\ UNCHANGED queue

Next == Put \/ Peek \/ Drop \/ Leave

Spec == Init /\ [][Next]_vars
=============================================================================
