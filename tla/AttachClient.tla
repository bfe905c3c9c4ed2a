---------------------------- MODULE AttachClient ----------------------------
(* What the shell prints on its way to one terminal tab: the replay buffer  *)
(* and the output queue of the broker (_read_pty, _queue, _write_client),   *)
(* the socket, the parser and the output queue of the attach client         *)
(* (run_attach), and the pseudo terminal of the tab behind its stdout.      *)
(* Every write and every read on the way may be short.  The tab may stop    *)
(* reading for a while, the broker may drop the client or end, and the user *)
(* may type, resize or close the tab at any time.  In the other direction   *)
(* only the window size is modelled; what the broker does with frames from  *)
(* clients is BrokerLoop.                                                   *)
(*                                                                          *)
(* A positive number n is the n-th byte the shell printed.  A frame header  *)
(* is one negative number that holds the length; the truncation notice is   *)
(* two, so that a short write can tear it.                                  *)
EXTENDS ByteBuffers

CONSTANTS
  Total,        \* bytes the shell prints
  MaxChunk,     \* bytes one read of the PTY returns at most
  ReplayLimit,  \* --replay-bytes
  ClientLimit,  \* --max-client-output-bytes
  AttachLimit,  \* --max-output-bytes of attach
  SocketRoom    \* bytes the socket holds

Notice == <<-1, -2>>      \* ATTACH_OUTPUT_TRUNCATED
Header(n) == -(10 + n)    \* HEADER.pack(b"O", n)
Length(h) == -h - 10
Frame(data) == <<Header(Len(data))>> \o data  \* encode_frame
MaxFrame == IF ReplayLimit > MaxChunk THEN ReplayLimit ELSE MaxChunk

\* The limits that main() enforces for serve and for attach.
ASSUME LimitsAssumption ==
  /\ {Total, MaxChunk, ReplayLimit, ClientLimit, AttachLimit, SocketRoom} \subseteq Nat
  /\ ReplayLimit + 1 <= ClientLimit
  /\ MaxFrame + Len(Notice) <= AttachLimit

VARIABLES
  printed,    \* bytes the broker has read from the PTY
  replay,     \* its ReplayBuffer
  queue,      \* its ChunkQueue for this client
  link,       \* "new" | "asked" | "attached" | "closed" (by the broker)
  wire,       \* what is in the socket towards the client
  pc,         \* "start" | "setup" | "loop" | "size" | "send" | "parse" |
              \* "drained" | "left" | "failed"
  socketOpen, \* the client has not seen the end of the connection
  incoming,   \* received, not yet parsed
  output,     \* the ChunkQueue in front of stdout
  shown,      \* what stdout has taken
  resized,    \* the flag that the SIGWINCH handler sets
  seen,       \* the size that is about to be sent and ...
  asked,      \* the one the broker was told: "none" | "old" | "new", which is
              \* the size of the window as it is now
  unheard     \* the last resize came before the SIGWINCH handler was set

broker == <<printed, replay, queue, link>>
output_side == <<output, shown>>
size_side == <<resized, seen, asked, unheard>>
vars == <<broker, wire, pc, socketOpen, incoming, output_side, size_side>>

Init ==
  /\ printed = 0 /\ replay = EmptyReplay /\ queue = EmptyQueue /\ link = "new"
  /\ wire = <<>>
  /\ pc = "start" /\ socketOpen = TRUE /\ incoming = <<>>
  /\ output = EmptyQueue /\ shown = <<>>
  /\ resized = FALSE /\ seen = "none" /\ asked = "none" /\ unheard = FALSE

----------------------------------------------------------------------------
(* The broker.                                                              *)

\* Mutant: a frame that does not fit is left out.
QueueLossy(data) ==
  /\ queue' = IF Fits(queue, Frame(data), ClientLimit)
                THEN Enqueue(queue, Frame(data)) ELSE queue
  /\ UNCHANGED link

\* _queue: a client that cannot take the frame is closed as slow.
Queue(data) ==
  IF Fits(queue, Frame(data), ClientLimit)
    THEN queue' = Enqueue(queue, Frame(data)) /\ UNCHANGED link
    ELSE queue' = EmptyQueue /\ link' = "closed"

\* _read_pty: remember the chunk, then send it to every attached client.
ReadPty(n) ==
  LET data == [i \in 1..n |-> printed + i]
  IN
  /\ printed + n <= Total
  /\ printed' = printed + n
  /\ replay' = Remember(replay, data, ReplayLimit)
  /\ IF link = "attached" THEN Queue(data) ELSE UNCHANGED <<queue, link>>
  /\ UNCHANGED <<wire, pc, socketOpen, incoming, output_side, size_side>>

\* _handle_frame, the first A frame: the replay comes before live output.
Attach ==
  /\ link = "asked"
  /\ link' = "attached"
  /\ queue' = IF Snapshot(replay) = <<>> THEN queue
              ELSE Enqueue(queue, Frame(Snapshot(replay)))
  /\ UNCHANGED <<printed, replay, wire, pc, socketOpen, incoming, output_side,
                 size_side>>

\* Mutant: after a short send the socket is not watched for writing any more.
WriteClientOnce(n) ==
  /\ link = "attached" /\ queue.offset = 0
  /\ n <= Len(Peek(queue)) /\ Len(wire) + n <= SocketRoom
  /\ wire' = wire \o SubSeq(Peek(queue), 1, n)
  /\ queue' = Consume(queue, n)
  /\ UNCHANGED <<printed, replay, link, pc, socketOpen, incoming, output_side,
                 size_side>>

\* _write_client: a short send.
WriteClient(n) ==
  /\ link = "attached"
  /\ n <= Len(Peek(queue)) /\ Len(wire) + n <= SocketRoom
  /\ wire' = wire \o SubSeq(Peek(queue), 1, n)
  /\ queue' = Consume(queue, n)
  /\ UNCHANGED <<printed, replay, link, pc, socketOpen, incoming, output_side,
                 size_side>>

\* The broker refuses the client, or ends.  What is in the socket stays.
CloseClient ==
  /\ link \in {"asked", "attached"}
  /\ link' = "closed"
  /\ queue' = EmptyQueue
  /\ UNCHANGED <<printed, replay, wire, pc, socketOpen, incoming, output_side,
                 size_side>>

----------------------------------------------------------------------------
(* The attach client.                                                       *)

\* connect, send A, look at the window, send R.
Connect ==
  /\ pc = "start"
  /\ pc' = "setup"
  /\ link' = "asked"
  /\ asked' = "new"
  /\ UNCHANGED <<printed, replay, queue, wire, socketOpen, incoming,
                 output_side, resized, seen, unheard>>

\* Raw mode, the SIGWINCH handler, the selector.
Setup ==
  /\ pc = "setup"
  /\ pc' = "loop"
  /\ UNCHANGED <<broker, wire, socketOpen, incoming, output_side, size_side>>

Running == pc \in {"loop", "size", "send", "parse"}

\* Mutant: the end of the connection ends the client.
DrainedAtOnce ==
  /\ pc = "loop"
  /\ ~socketOpen
  /\ pc' = "drained"
  /\ UNCHANGED <<broker, wire, socketOpen, incoming, output_side, size_side>>

\* The top of the loop: end when nothing can come any more and all is written.
Drained ==
  /\ pc = "loop"
  /\ ~socketOpen /\ output.size = 0
  /\ pc' = "drained"
  /\ UNCHANGED <<broker, wire, socketOpen, incoming, output_side, size_side>>

\* Unless the client ends: clear the flag, look at the window and send what was
\* found.  A resize after the first of these steps sets the flag again.
NoticeResize ==
  /\ pc = "loop" /\ resized
  /\ socketOpen \/ output.size > 0
  /\ resized' = FALSE
  /\ pc' = "size"
  /\ UNCHANGED <<broker, wire, socketOpen, incoming, output_side, seen, asked,
                 unheard>>

ReadSize ==
  /\ pc = "size"
  /\ seen' = "new"
  /\ pc' = "send"
  /\ UNCHANGED <<broker, wire, socketOpen, incoming, output_side, resized,
                 asked, unheard>>

\* Mutant: the flag is cleared last.
SendSizeClearing ==
  /\ pc = "send"
  /\ socketOpen => link # "closed"
  /\ asked' = IF socketOpen THEN seen ELSE asked
  /\ seen' = "none" /\ resized' = FALSE
  /\ pc' = "loop"
  /\ UNCHANGED <<broker, wire, socketOpen, incoming, output_side, unheard>>

SendSize ==
  /\ pc = "send"
  /\ socketOpen => link # "closed"
  /\ asked' = IF socketOpen THEN seen ELSE asked
  /\ seen' = "none"
  /\ pc' = "loop"
  /\ UNCHANGED <<broker, wire, socketOpen, incoming, output_side, resized,
                 unheard>>

\* sendall to a connection that the broker has closed raises, for a resize and
\* for a key alike.  Nothing catches it: what is queued for stdout is lost.
SendFails ==
  /\ pc \in {"loop", "send"} /\ socketOpen /\ link = "closed"
  /\ pc' = "failed"
  /\ UNCHANGED <<broker, wire, socketOpen, incoming, output_side, size_side>>

Receive(n) ==
  /\ pc = "loop" /\ socketOpen
  /\ n <= Len(wire)
  /\ incoming' = incoming \o SubSeq(wire, 1, n)
  /\ wire' = SubSeq(wire, n + 1, Len(wire))
  /\ pc' = "parse"
  /\ UNCHANGED <<broker, socketOpen, output_side, size_side>>

EndOfConnection ==
  /\ pc = "loop" /\ socketOpen
  /\ link = "closed" /\ wire = <<>>
  /\ socketOpen' = FALSE
  /\ UNCHANGED <<broker, wire, pc, incoming, output_side, size_side>>

HasFrame == incoming # <<>> /\ Len(incoming) > Length(Head(incoming))

\* Mutant: the history is dropped without a word.
QueueOutputSilently(data) ==
  output' = Enqueue(IF Fits(output, data, AttachLimit) THEN output ELSE EmptyQueue,
                    data)

\* queue_output: on overflow drop what is pending, say so, and keep as much of
\* the new output as fits behind the notice.
QueueOutput(data) ==
  LET told == Enqueue(EmptyQueue, Notice)
      available == AttachLimit - told.size
      latest == IF Len(data) > available THEN Latest(data, available) ELSE data
  IN  output' = IF Fits(output, data, AttachLimit)
                  THEN Enqueue(output, data)
                  ELSE Enqueue(told, latest)

\* One round of the parsing loop.
Parse ==
  /\ pc = "parse" /\ HasFrame
  /\ LET n == Length(Head(incoming))
     IN  /\ QueueOutput(SubSeq(incoming, 2, n + 1))
         /\ incoming' = SubSeq(incoming, n + 2, Len(incoming))
  /\ UNCHANGED <<broker, wire, pc, socketOpen, shown, size_side>>

Parsed ==
  /\ pc = "parse" /\ ~HasFrame
  /\ pc' = "loop"
  /\ UNCHANGED <<broker, wire, socketOpen, incoming, output_side, size_side>>

WriteStdout(n) ==
  /\ pc = "loop"
  /\ n <= Len(Peek(output))
  /\ shown' = shown \o SubSeq(Peek(output), 1, n)
  /\ output' = Consume(output, n)
  /\ UNCHANGED <<broker, wire, pc, socketOpen, incoming, size_side>>

\* The tab is gone: end of stdin, EIO or EPIPE on stdout.
Leave ==
  /\ pc = "loop"
  /\ pc' = "left"
  /\ UNCHANGED <<broker, wire, socketOpen, incoming, output_side, size_side>>

Aged(size) == IF size = "new" THEN "old" ELSE size

\* The user resizes the window of a running client.  The signal is ignored
\* until the handler is set; what was sent before it may be out of date for good.
Resize ==
  /\ pc = "setup" \/ Running
  /\ resized' = Running
  /\ seen' = Aged(seen) /\ asked' = Aged(asked)
  /\ unheard' = (pc = "setup")
  /\ UNCHANGED <<broker, wire, pc, socketOpen, incoming, output_side>>

BrokerWrites == \E n \in 1..SocketRoom : WriteClient(n)
ClientReads == \E n \in 1..SocketRoom : Receive(n)
TabReads == \E n \in 1..AttachLimit : WriteStdout(n)

Next ==
  \/ \E n \in 1..MaxChunk : ReadPty(n)
  \/ Attach \/ BrokerWrites \/ CloseClient
  \/ Connect \/ Setup \/ Drained \/ SendFails
  \/ NoticeResize \/ ReadSize \/ SendSize
  \/ ClientReads \/ EndOfConnection \/ Parse \/ Parsed \/ TabReads \/ Leave
  \/ Resize

\* The broker and the client run; select offers every ready descriptor in each
\* round, so none of them starves, and the tab reads again in the end.
Spec ==
  /\ Init /\ [][Next]_vars
  /\ WF_vars(Attach) /\ WF_vars(BrokerWrites)
  /\ WF_vars(Setup) /\ WF_vars(Drained) /\ WF_vars(Parse \/ Parsed)
  /\ WF_vars(ReadSize \/ SendSize \/ (pc = "send" /\ SendFails))
  /\ SF_vars(NoticeResize) /\ SF_vars(ClientReads) /\ SF_vars(EndOfConnection)
  /\ SF_vars(TabReads)

----------------------------------------------------------------------------
(* Properties.                                                              *)

\* The buffers do their bookkeeping right through every sequence of appends,
\* short writes and clears: sizes are sums, limits hold, no chunk is empty.
\* The replay is exactly the latest output, however it was cut into chunks.
BuffersExact ==
  /\ QueueWellFormed(queue, ClientLimit)
  /\ QueueWellFormed(output, AttachLimit)
  /\ replay.size = Len(Snapshot(replay))
  /\ Snapshot(replay) =
       LET n == IF printed < ReplayLimit THEN printed ELSE ReplayLimit
       IN  [i \in 1..n |-> printed - n + i]

IsHeader(b) == b <= Header(0)

\* Everything between the shell and the eyes of the user, in order: what the
\* client has taken out of its frames, then the frames that still come.
Written == shown \o Content(output)
Coming == (incoming \o wire) \o Content(queue)
Stream == Written \o Coming

\* Output is never lost, repeated or reordered without a word: the bytes of the
\* shell are on the way in their order, and each is the successor of the one
\* before it, whatever headers stand between, or the whole truncation notice
\* stands in front of it (queue_output).
NoSilentGap ==
  LET s == Stream
      Follows(i, j) == s[j] = s[i] + 1 /\ \A k \in (i + 1)..(j - 1) : IsHeader(s[k])
      IsFirst(j) == \A k \in 1..(j - 1) : IsHeader(s[k])
      IsTold(j) == j > 2 /\ s[j - 2] = Notice[1] /\ s[j - 1] = Notice[2]
  IN  \A j \in 1..Len(s) : s[j] > 0 =>
        /\ IsFirst(j) \/ IsTold(j) \/ \E i \in 1..(j - 1) : Follows(i, j)
        /\ \A i \in 1..(j - 1) : s[i] < s[j]

\* As long as the broker holds on to the client, the latest output is on its
\* way or shown: no overflow ever costs the end (attach-backpressure.test.ts).
LatestIsKept ==
  link = "attached" /\ Stream # <<>> => Last(Stream) = printed

\* What has arrived is written out completely before the client ends, also
\* when the connection has ended, unless the tab is closed or a send fails.
ArrivedIsShown ==
  output.size > 0 ~> output.size = 0 \/ pc \in {"left", "failed"}

\* What the shell prints is shown in the end, unless the tab is closed or the
\* broker lets go of the client.
LatestIsShown ==
  (printed = Total /\ link = "attached" /\ Stream # <<>>)
    ~> Total \in Range(shown) \/ link = "closed" \/ pc \in {"left", "failed"}

\* Once the user no longer resizes the window, the broker is told the size it
\* has, also when the last resize came while an earlier one was being told,
\* unless it came before the handler was set.
SizeFollows ==
  <>[][~Resize]_vars =>
    (pc = "loop" /\ asked = "old" /\ ~unheard)
      ~> asked = "new" \/ unheard \/ ~socketOpen \/ pc \in {"left", "failed"}
=============================================================================
