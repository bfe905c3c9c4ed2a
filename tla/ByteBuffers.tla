---------------------------- MODULE ByteBuffers ----------------------------
(* The two byte buffers of pty_broker.py, as values and operations: the     *)
(* bounded FIFO queue (ChunkQueue) and the ring of the latest output        *)
(* (ReplayBuffer).  Both keep the chunks they were given; `offset' says how *)
(* much of the first chunk of a queue is consumed, `size' is a running sum. *)
EXTENDS Integers, Sequences, SequencesExt

\* ChunkQueue: chunks, offset, size.
EmptyQueue == [chunks |-> <<>>, offset |-> 0, size |-> 0]

\* append: whole or not at all.
Fits(q, data, limit) == q.size + Len(data) <= limit
Enqueue(q, data) ==
  IF data = <<>> THEN q
  ELSE [q EXCEPT !.chunks = Append(@, data), !.size = @ + Len(data)]

\* peek: what is left of the first chunk.
Peek(q) ==
  IF q.chunks = <<>> THEN <<>>
  ELSE SubSeq(Head(q.chunks), q.offset + 1, Len(Head(q.chunks)))

\* consume: every caller consumes what it wrote of what it peeked, so the loop
\* of the code never goes past the first chunk (count <= Len(Peek(q))).
Consume(q, count) ==
  IF count = Len(Peek(q))
    THEN [chunks |-> Tail(q.chunks), offset |-> 0, size |-> q.size - count]
    ELSE [q EXCEPT !.offset = @ + count, !.size = @ - count]

\* What is still in the queue.
Content(q) == SubSeq(FlattenSeq(q.chunks), q.offset + 1, Len(FlattenSeq(q.chunks)))

QueueWellFormed(q, limit) ==
  /\ q.size = Len(Content(q)) /\ q.size <= limit
  /\ <<>> \notin Range(q.chunks)
  /\ IF q.chunks = <<>> THEN q.offset = 0 ELSE q.offset < Len(Head(q.chunks))

----------------------------------------------------------------------------
\* ReplayBuffer: chunks, size.
EmptyReplay == [chunks |-> <<>>, size |-> 0]

Latest(data, n) == SubSeq(data, Len(data) - n + 1, Len(data))

\* The trimming loop: it drops whole chunks as long as they fit into the
\* overflow, then cuts the one at the boundary.
Trim(chunks, overflow) ==
  LET dropped(k) == Len(FlattenSeq(SubSeq(chunks, 1, k)))
      whole == CHOOSE k \in 0..Len(chunks) :
                 /\ dropped(k) <= overflow
                 /\ \A j \in 0..Len(chunks) : dropped(j) <= overflow => j <= k
      rest == SubSeq(chunks, whole + 1, Len(chunks))
      cut == overflow - dropped(whole)
  IN  IF rest = <<>> \/ cut = 0 THEN rest
      ELSE <<SubSeq(Head(rest), cut + 1, Len(Head(rest)))>> \o Tail(rest)

\* Mutant: only whole chunks are dropped.
RememberWhole(replay, data, limit) ==
  LET size == replay.size + Len(data)
  IN  IF size > limit /\ replay.chunks # <<>>
        THEN [chunks |-> Append(Tail(replay.chunks), data),
              size |-> size - Len(Head(replay.chunks))]
        ELSE [chunks |-> Append(replay.chunks, data), size |-> size]

\* append
Remember(replay, data, limit) ==
  LET size == replay.size + Len(data)
      overflow == IF size > limit THEN size - limit ELSE 0
  IN  IF limit = 0 \/ data = <<>> THEN replay
      ELSE IF Len(data) >= limit
        THEN [chunks |-> <<Latest(data, limit)>>, size |-> limit]
      ELSE [chunks |-> Trim(Append(replay.chunks, data), overflow),
            size |-> size - overflow]

\* snapshot
Snapshot(replay) == FlattenSeq(replay.chunks)
=============================================================================
