----------------------------- MODULE BrokerLoop -----------------------------
(***************************************************************************)
(* The event loop of one PTY broker (Broker in scripts/pty_broker.py): the *)
(* `serving' phase of BrokerProcess.  Every turn selects the ready events, *)
(* handles them in the order of _event_priority, resumes clients whose     *)
(* complete frames exceeded the budget, expires idle clients and reaps.    *)
(* Peers connect, send and disconnect between any two steps.               *)
(*                                                                         *)
(* A peer is a connection end; when the broker has closed its connection   *)
(* it may connect again.  A frame is atomic: an incomplete one is a frame  *)
(* not sent yet.  PTY output is a sequence of numbered chunks.  A socket   *)
(* with room is a choice of each turn, and there is always room for the    *)
(* one reply of a control connection.                                      *)
(***************************************************************************)
EXTENDS Naturals, FiniteSets, SequencesExt

CONSTANTS
  DataPeers, ControlPeers,
  Sizes,         \* window sizes; as a frame of a data peer, R with that size
  DefaultSize,   \* 24x80
  MaxClients,    \* attached clients (--max-clients)
  MaxPending,    \* data clients beyond those (MAX_PENDING_DATA_CLIENTS)
  MaxControl,    \* control clients (MAX_CONTROL_CLIENTS)
  FrameBudget,   \* frames handled per read (MAX_FRAMES_PER_READ)
  InLimit,       \* client input buffer, in frames
  OutLimit,      \* client output queue, in chunks
  PtyLimit,      \* PTY input queue, in frames
  ReplayLimit,   \* replay buffer, in chunks
  MaxSent,       \* bound: frames in a socket, not yet received
  MaxOutput,     \* bound: chunks the shell ever writes
  NoPeer

Peers == DataPeers \cup ControlPeers

ASSUME PeersAssumption ==
  /\ DataPeers \cap ControlPeers = {} /\ NoPeer \notin Peers
  /\ Peers \cap {"data-listener", "control-listener", "pty"} = {}
ASSUME SizesAssumption ==
  DefaultSize \in Sizes /\ Sizes \cap {"A", "I", "Q", "K", "X"} = {}
ASSUME LimitsAssumption ==
  /\ {MaxClients, MaxControl, FrameBudget, InLimit, OutLimit, PtyLimit,
      MaxSent} \subseteq Nat \ {0}
  /\ {MaxPending, ReplayLimit, MaxOutput} \subseteq Nat
\* main() refuses a replay that does not fit into one output queue.
ASSUME ReplayFitsAssumption == ReplayLimit <= OutLimit

\* A attach, I input; K a stop with this broker's identity, Q any other
\* request; X anything the protocol does not know.  Frames without effect (an
\* empty I, a size of zero) are left out.
DataFrames == {"A", "I", "X"} \cup Sizes
ControlFrames == {"Q", "K", "X"}
Reply == 0         \* in a queue, the one reply of a control connection

VARIABLES
  conn,        \* none, queued at a listener, or open
  sent,        \* frames in the socket towards the broker
  eof,         \* the peer closed its end
  client,      \* the broker's record of an open connection
  accepted,    \* control clients in the order of connected_at
  controller,  \* the client whose size the PTY has
  ptySize,
  pending,     \* pending_clients: complete frames beyond the budget
  replay,      \* the last chunks of output
  produced,    \* chunks read from the PTY so far
  ptyIn,       \* frames queued for the PTY
  shellOut,    \* the PTY has output to read
  childGone,   \* the shell exited
  turn,        \* select, events, pending, or done
  batch,       \* selected events still to be handled
  current,     \* the client whose frames are being handled
  budget,      \* frames it may still handle
  receivers,   \* _read_pty: clients still to be given the chunk just read
  todo,        \* snapshot of pending being resumed
  stopping

socketVars == <<conn, sent, eof>>
sizeVars == <<controller, ptySize>>
ptyVars == <<replay, produced, ptyIn, shellOut, childGone>>
turnVars == <<turn, batch, current, budget, receivers, todo, stopping>>
vars == <<socketVars, client, accepted, sizeVars, pending, ptyVars, turnVars>>

\* `seen' is the number of the last chunk that left the output queue.
Blank == [attached |-> FALSE, closing |-> FALSE, stop |-> FALSE,
          size |-> DefaultSize, input |-> <<>>, out |-> <<>>, seen |-> 0]

\* An event is a ready file object and what it is ready for.
Events == (Peers \cup {"data-listener", "control-listener", "pty"})
            \X {"read", "write"}

TypeOK ==
  /\ conn \in [Peers -> {"none", "queued", "open"}]
  /\ sent \in [Peers -> Seq(DataFrames \cup ControlFrames)]
  /\ eof \in [Peers -> BOOLEAN]
  /\ client \in [Peers ->
       [attached : BOOLEAN, closing : BOOLEAN, stop : BOOLEAN, size : Sizes,
        input : Seq(DataFrames \cup ControlFrames),
        out : Seq(Nat), seen : Nat]]
  /\ accepted \in Seq(ControlPeers)
  /\ controller \in DataPeers \cup {NoPeer} /\ ptySize \in Sizes
  /\ pending \subseteq Peers
  /\ replay \in Seq(Nat) /\ produced \in Nat /\ ptyIn \in Nat
  /\ shellOut \in BOOLEAN /\ childGone \in BOOLEAN
  /\ turn \in {"select", "events", "pending", "done"}
  /\ batch \subseteq Events
  /\ current \in Peers \cup {NoPeer} /\ budget \in Nat
  /\ receivers \subseteq DataPeers /\ todo \subseteq Peers
  /\ stopping \in BOOLEAN

Init ==
  /\ conn = [p \in Peers |-> "none"]
  /\ sent = [p \in Peers |-> <<>>]
  /\ eof = [p \in Peers |-> FALSE]
  /\ client = [p \in Peers |-> Blank]
  /\ accepted = <<>>
  /\ controller = NoPeer /\ ptySize = DefaultSize
  /\ pending = {}
  /\ replay = <<>> /\ produced = 0 /\ ptyIn = 0
  /\ shellOut = FALSE /\ childGone = FALSE
  /\ turn = "select" /\ batch = {} /\ current = NoPeer /\ budget = 0
  /\ receivers = {} /\ todo = {} /\ stopping = FALSE

Attached == {p \in DataPeers : client[p].attached}
Open(P) == {p \in P : conn[p] = "open"}

-----------------------------------------------------------------------------
(* The world around the broker.                                            *)

Connect(p) ==
  /\ turn # "done" /\ conn[p] = "none"
  /\ conn' = [conn EXCEPT ![p] = "queued"]
  /\ UNCHANGED <<sent, eof, client, accepted, sizeVars, pending, ptyVars,
                 turnVars>>

\* run_attach sends one A per connection; any other frame may come anytime.
AttachedOnce(p, f) ==
  f = "A" => /\ ~client[p].attached
             /\ \A i \in DOMAIN sent[p] : sent[p][i] # "A"
             /\ \A i \in DOMAIN client[p].input : client[p].input[i] # "A"

Send(p, f) ==
  /\ conn[p] # "none" /\ ~eof[p]
  /\ Len(sent[p]) < MaxSent
  /\ AttachedOnce(p, f)
  /\ sent' = [sent EXCEPT ![p] = Append(@, f)]
  /\ UNCHANGED <<conn, eof, client, accepted, sizeVars, pending, ptyVars,
                 turnVars>>

Disconnect(p) ==
  /\ conn[p] # "none" /\ ~eof[p]
  /\ eof' = [eof EXCEPT ![p] = TRUE]
  /\ UNCHANGED <<conn, sent, client, accepted, sizeVars, pending, ptyVars,
                 turnVars>>

ShellWrites ==
  /\ turn # "done" /\ ~shellOut /\ ~childGone /\ produced < MaxOutput
  /\ shellOut' = TRUE
  /\ UNCHANGED <<socketVars, client, accepted, sizeVars, pending, replay,
                 produced, ptyIn, childGone, turnVars>>

ShellExits ==
  /\ turn # "done" /\ ~childGone
  /\ childGone' = TRUE
  /\ UNCHANGED <<socketVars, client, accepted, sizeVars, pending, replay,
                 produced, ptyIn, shellOut, turnVars>>

\* SIGTERM, SIGINT, SIGHUP
RequestStop ==
  /\ turn # "done" /\ ~stopping
  /\ stopping' = TRUE
  /\ UNCHANGED <<socketVars, client, accepted, sizeVars, pending, ptyVars, turn,
                 batch, current, budget, receivers, todo>>

World ==
  \/ \E p \in Peers : Connect(p) \/ Disconnect(p)
  \/ \E p \in DataPeers, f \in DataFrames : Send(p, f)
  \/ \E p \in ControlPeers, f \in ControlFrames : Send(p, f)
  \/ ShellWrites \/ ShellExits \/ RequestStop

-----------------------------------------------------------------------------
(* Closing a client.                                                       *)

\* Mutant: the PTY keeps the size of the client that left.
HandOverSizeKept(p) ==
  IF controller = p
  THEN /\ UNCHANGED ptySize
       /\ \/ Attached = {p} /\ controller' = NoPeer
          \/ controller' \in Attached \ {p}
  ELSE UNCHANGED sizeVars

\* The controller passes to any other attached client.
HandOver(p) ==
  LET heirs == Attached \ {p} IN
  \/ controller # p /\ UNCHANGED sizeVars
  \/ controller = p /\ heirs = {} /\ controller' = NoPeer /\ UNCHANGED ptySize
  \/ /\ controller = p
     /\ \E q \in heirs : controller' = q /\ ptySize' = client[q].size

Close(p) ==
  /\ conn' = [conn EXCEPT ![p] = "none"]
  /\ sent' = [sent EXCEPT ![p] = <<>>]
  /\ eof' = [eof EXCEPT ![p] = FALSE]
  /\ client' = [client EXCEPT ![p] = Blank]
  /\ accepted' = RemoveFirst(accepted, p)
  /\ pending' = pending \ {p}
  /\ HandOver(p)

-----------------------------------------------------------------------------
(* The turn.                                                               *)

\* A closing client is not read; a queue is written when the socket has
\* room or its peer is gone.
ReadReady ==
  {p \in Open(Peers) : ~client[p].closing /\ (sent[p] # <<>> \/ eof[p])}
WriteWanted == {p \in Open(Peers) : client[p].out # <<>>}
WriteReady == {p \in WriteWanted : p \in ControlPeers \/ eof[p]}
Listening(P, listener) ==
  IF \E p \in P : conn[p] = "queued" THEN {<<listener, "read">>} ELSE {}

\* Mutant: the PTY is read only while every client has room for its output.
SelectEventsStalling ==
  /\ turn = "select" /\ ~stopping
  /\ \E W \in SUBSET WriteWanted :
       /\ WriteReady \subseteq W
       /\ batch' = (ReadReady \X {"read"}) \cup (W \X {"write"})
                   \cup Listening(ControlPeers, "control-listener")
                   \cup Listening(DataPeers, "data-listener")
                   \cup {e \in {<<"pty", "read">>} :
                          /\ shellOut \/ childGone
                          /\ \A p \in Attached : Len(client[p].out) < OutLimit}
  /\ turn' = "events"
  /\ UNCHANGED <<socketVars, client, accepted, sizeVars, pending, ptyVars,
                 current, budget, receivers, todo, stopping>>

SelectEvents ==
  /\ turn = "select" /\ ~stopping
  /\ \E W \in SUBSET WriteWanted, pty \in SUBSET {"write"} :
       /\ WriteReady \subseteq W
       /\ pty # {} => ptyIn > 0
       /\ batch' = (ReadReady \X {"read"}) \cup (W \X {"write"})
                   \cup Listening(ControlPeers, "control-listener")
                   \cup Listening(DataPeers, "data-listener")
                   \cup ({"pty"} \X (pty \cup IF shellOut \/ childGone
                                              THEN {"read"} ELSE {}))
  /\ turn' = "events"
  /\ UNCHANGED <<socketVars, client, accepted, sizeVars, pending, ptyVars,
                 current, budget, receivers, todo, stopping>>

\* Mutant: the PTY, which may close clients, comes before them.
PriorityPtyFirst(source) ==
  CASE source \in ControlPeers -> 0
    [] source = "control-listener" -> 1
    [] source = "pty" -> 2
    [] source \in DataPeers -> 3
    [] source = "data-listener" -> 4

Priority(source) ==
  CASE source \in ControlPeers -> 0
    [] source = "control-listener" -> 1
    [] source \in DataPeers -> 2
    [] source = "pty" -> 3
    [] source = "data-listener" -> 4

\* The next event to handle: by priority, a file object's read first.
Due(e) ==
  /\ turn = "events" /\ current = NoPeer /\ receivers = {}
  /\ e \in batch
  /\ \A f \in batch : Priority(e[1]) <= Priority(f[1])
  /\ e[2] = "write" => <<e[1], "read">> \notin batch

Handled(e) == batch' = batch \ {e}

\* Mutant: nobody makes room.
AcceptControlUnlimited(p) ==
  LET e == <<"control-listener", "read">> IN
  /\ Due(e) /\ Handled(e)
  /\ p \in ControlPeers /\ conn[p] = "queued"
  /\ conn' = [conn EXCEPT ![p] = "open"]
  /\ accepted' = Append(accepted, p)
  /\ UNCHANGED <<sent, eof, client, pending, sizeVars, ptyVars, turn, current,
                 budget, receivers, todo, stopping>>

\* At the limit the client connected longest makes room.
AcceptControl(p) ==
  LET e == <<"control-listener", "read">>
      full == Cardinality(Open(ControlPeers)) >= MaxControl
      gone == IF full THEN {Head(accepted)} ELSE {}
      kept == IF full THEN Tail(accepted) ELSE accepted
  IN
  /\ Due(e) /\ Handled(e)
  /\ p \in ControlPeers /\ conn[p] = "queued"
  /\ conn' = [q \in Peers |-> IF q = p THEN "open"
                              ELSE IF q \in gone THEN "none" ELSE conn[q]]
  /\ sent' = [q \in Peers |-> IF q \in gone THEN <<>> ELSE sent[q]]
  /\ eof' = [q \in Peers |-> eof[q] /\ q \notin gone]
  /\ client' = [q \in Peers |-> IF q \in gone THEN Blank ELSE client[q]]
  /\ pending' = pending \ gone
  /\ accepted' = Append(kept, p)
  /\ UNCHANGED <<sizeVars, ptyVars, turn, current, budget, receivers, todo,
                 stopping>>

\* Mutant: off by one at the limit.
AcceptDataBeyond(p) ==
  /\ Due(<<"data-listener", "read">>)
  /\ p \in DataPeers /\ conn[p] = "queued"
  /\ IF Cardinality(Open(DataPeers)) > MaxClients + MaxPending
     THEN Close(p)
     ELSE /\ conn' = [conn EXCEPT ![p] = "open"]
          /\ UNCHANGED <<sent, eof, client, accepted, sizeVars, pending>>
  /\ UNCHANGED <<ptyVars, turnVars>>

\* Data connections are accepted until none is queued (MAX_ACCEPT_BATCH is
\* more than there are peers).
AcceptData(p) ==
  /\ Due(<<"data-listener", "read">>)
  /\ p \in DataPeers /\ conn[p] = "queued"
  /\ IF Cardinality(Open(DataPeers)) >= MaxClients + MaxPending
     THEN Close(p)
     ELSE /\ conn' = [conn EXCEPT ![p] = "open"]
          /\ UNCHANGED <<sent, eof, client, accepted, sizeVars, pending>>
  /\ UNCHANGED <<ptyVars, turnVars>>

NoMoreData ==
  LET e == <<"data-listener", "read">> IN
  /\ Due(e) /\ Handled(e)
  /\ \A p \in DataPeers : conn[p] # "queued"
  /\ UNCHANGED <<socketVars, client, accepted, sizeVars, pending, ptyVars, turn,
                 current, budget, receivers, todo, stopping>>

\* _read_client: everything received, or the end of file.
ReadClient(p) ==
  LET e == <<p, "read">>
      received == client[p].input \o sent[p]
      over == Len(received) > InLimit
  IN
  /\ Due(e) /\ Handled(e)
  /\ IF sent[p] = <<>> \/ over
     THEN Close(p) /\ UNCHANGED <<current, budget>>
     ELSE /\ sent' = [sent EXCEPT ![p] = <<>>]
          /\ client' = [client EXCEPT ![p].input = received]
          /\ current' = p /\ budget' = FrameBudget
          /\ UNCHANGED <<conn, eof, accepted, sizeVars, pending>>
  /\ UNCHANGED <<ptyVars, turn, receivers, todo, stopping>>

-----------------------------------------------------------------------------
(* _process_client_frames, one frame at a time.                            *)

Frame(p, F) ==
  /\ current = p /\ budget > 0
  /\ client[p].input # <<>> /\ Head(client[p].input) \in F

\* The client with its first frame taken.
Taken(p) == [client[p] EXCEPT !.input = Tail(@)]

\* After a frame that did not close the client.
FrameHandled(p) ==
  /\ budget' = budget - 1
  /\ UNCHANGED <<socketVars, accepted, turn, batch, current, receivers, todo,
                 stopping>>

\* A frame that closes it.
Reject(p) ==
  /\ Close(p)
  /\ current' = NoPeer /\ budget' = 0
  /\ UNCHANGED <<ptyVars, turn, batch, receivers, todo, stopping>>

\* Mutant: a newcomer sees only what is printed from now on.
AttachWithoutReplay(p) ==
  LET at == [Taken(p) EXCEPT !.attached = TRUE, !.seen = produced] IN
  /\ p \in DataPeers /\ Frame(p, {"A"})
  /\ Cardinality(Attached) < MaxClients
  /\ client' = [client EXCEPT ![p] = at]
  /\ IF controller = NoPeer THEN controller' = p /\ ptySize' = at.size
                            ELSE UNCHANGED sizeVars
  /\ FrameHandled(p)
  /\ UNCHANGED <<pending, ptyVars>>

Attach(p) ==
  LET at == [Taken(p) EXCEPT !.attached = TRUE, !.out = @ \o replay,
                             !.seen = produced - Len(replay)] IN
  /\ p \in DataPeers /\ Frame(p, {"A"})
  /\ Cardinality(Attached) < MaxClients
  /\ client' = [client EXCEPT ![p] = at]
  /\ IF controller = NoPeer THEN controller' = p /\ ptySize' = at.size
                            ELSE UNCHANGED sizeVars
  /\ FrameHandled(p)
  /\ UNCHANGED <<pending, ptyVars>>

AttachRefused(p) ==
  /\ p \in DataPeers /\ Frame(p, {"A"})
  /\ Cardinality(Attached) >= MaxClients
  /\ Reject(p)

\* A resize counts for the PTY only from the controller.
Resize(p) ==
  LET s == Head(client[p].input) IN
  /\ p \in DataPeers /\ Frame(p, Sizes) /\ client[p].attached
  /\ client' = [client EXCEPT ![p] = [Taken(p) EXCEPT !.size = s]]
  /\ IF controller = p THEN ptySize' = s /\ UNCHANGED controller
                       ELSE UNCHANGED sizeVars
  /\ FrameHandled(p)
  /\ UNCHANGED <<pending, ptyVars>>

\* Whoever types controls the size.
Input(p) ==
  /\ p \in DataPeers /\ Frame(p, {"I"}) /\ client[p].attached
  /\ ptyIn < PtyLimit
  /\ ptyIn' = ptyIn + 1
  /\ client' = [client EXCEPT ![p] = Taken(p)]
  /\ IF controller # p THEN controller' = p /\ ptySize' = client[p].size
                       ELSE UNCHANGED sizeVars
  /\ FrameHandled(p)
  /\ UNCHANGED <<pending, replay, produced, shellOut, childGone>>

InputRefused(p) ==
  /\ p \in DataPeers /\ Frame(p, {"I"}) /\ client[p].attached
  /\ ptyIn >= PtyLimit
  /\ Reject(p)

\* Anything else, and anything but A before A.
BadFrame(p) ==
  /\ \/ Frame(p, {"X"})
     \/ Frame(p, Sizes \cup {"I"}) /\ ~client[p].attached
  /\ Reject(p)

\* A control connection is answered once and read no more.
Answer(p, stops) ==
  /\ p \in ControlPeers
  /\ client' = [client EXCEPT ![p] =
                  [client[p] EXCEPT !.closing = TRUE, !.stop = stops,
                                    !.input = <<>>, !.out = Append(@, Reply)]]
  /\ pending' = pending \ {p}
  /\ current' = NoPeer /\ budget' = 0
  /\ UNCHANGED <<socketVars, accepted, sizeVars, ptyVars, turn, batch,
                 receivers, todo, stopping>>

\* A probe, a status, or a stop that is refused.
Ask(p)  == Frame(p, {"Q"}) /\ Answer(p, FALSE)
Stop(p) == Frame(p, {"K"}) /\ Answer(p, TRUE)

\* Mutant: what exceeds the budget waits for more data from the socket.
FramesDoneForgotten(p) ==
  /\ current = p
  /\ client[p].input = <<>> \/ budget = 0
  /\ current' = NoPeer /\ budget' = 0
  /\ UNCHANGED <<socketVars, client, accepted, sizeVars, pending, ptyVars, turn,
                 batch, receivers, todo, stopping>>

\* No complete frame is left, or the budget is spent: then come back to it.
FramesDone(p) ==
  /\ current = p
  /\ client[p].input = <<>> \/ budget = 0
  /\ pending' = IF client[p].input # <<>> THEN pending \cup {p} ELSE pending
  /\ current' = NoPeer /\ budget' = 0
  /\ UNCHANGED <<socketVars, client, accepted, sizeVars, ptyVars, turn, batch,
                 receivers, todo, stopping>>

HandleFrame(p) ==
  \/ Attach(p) \/ AttachRefused(p) \/ Resize(p) \/ Input(p) \/ InputRefused(p)
  \/ BadFrame(p) \/ Ask(p) \/ Stop(p) \/ FramesDone(p)

-----------------------------------------------------------------------------
(* Writing to clients, and the PTY.                                        *)

\* The peer is gone: ConnectionError.
WriteBroken(p) ==
  LET e == <<p, "write">> IN
  /\ Due(e) /\ Handled(e)
  /\ conn[p] = "open" /\ client[p].out # <<>> /\ eof[p]
  /\ Close(p)
  /\ UNCHANGED <<ptyVars, turn, current, budget, receivers, todo, stopping>>

WriteClient(p) ==
  LET e == <<p, "write">> IN
  /\ Due(e) /\ Handled(e)
  /\ conn[p] = "open" /\ client[p].out # <<>> /\ ~eof[p]
  /\ IF client[p].closing /\ Len(client[p].out) = 1
     THEN Close(p) /\ stopping' = (stopping \/ client[p].stop)
     ELSE /\ client' = [client EXCEPT ![p].out = Tail(@),
                                      ![p].seen = Head(client[p].out)]
          /\ UNCHANGED <<socketVars, accepted, sizeVars, pending, stopping>>
  /\ UNCHANGED <<ptyVars, turn, current, budget, receivers, todo>>

\* Its read event closed it.
WriteSkipped(p) ==
  LET e == <<p, "write">> IN
  /\ Due(e) /\ Handled(e)
  /\ conn[p] # "open"
  /\ UNCHANGED <<socketVars, client, accepted, sizeVars, pending, ptyVars, turn,
                 current, budget, receivers, todo, stopping>>

\* ReplayBuffer.append
Remember(chunk) ==
  LET longer == Append(replay, chunk)
      over == IF Len(longer) > ReplayLimit THEN Len(longer) - ReplayLimit ELSE 0
  IN replay' = SubSeq(longer, over + 1, Len(longer))

ReadPty ==
  LET e == <<"pty", "read">> IN
  /\ Due(e) /\ Handled(e)
  /\ \/ /\ shellOut
        /\ shellOut' = FALSE
        /\ produced' = produced + 1
        /\ Remember(produced + 1)
        /\ receivers' = Attached
        /\ UNCHANGED stopping
     \/ /\ ~shellOut
        /\ stopping' = TRUE
        /\ UNCHANGED <<shellOut, produced, replay, receivers>>
  /\ UNCHANGED <<socketVars, client, accepted, sizeVars, pending, ptyIn,
                 childGone, turn, current, budget, todo>>

\* Mutant: a slow client loses the chunk instead of its connection.
BroadcastLossy(p) ==
  /\ p \in receivers
  /\ receivers' = receivers \ {p}
  /\ client' = IF Len(client[p].out) < OutLimit
               THEN [client EXCEPT ![p].out = Append(@, produced)] ELSE client
  /\ UNCHANGED <<socketVars, accepted, sizeVars, pending, ptyVars, turn, batch,
                 current, budget, todo, stopping>>

\* Each attached client gets the chunk, or is closed when its queue is full.
Broadcast(p) ==
  /\ p \in receivers
  /\ receivers' = receivers \ {p}
  /\ IF Len(client[p].out) < OutLimit
     THEN /\ client' = [client EXCEPT ![p].out = Append(@, produced)]
          /\ UNCHANGED <<socketVars, accepted, sizeVars, pending>>
     ELSE Close(p)
  /\ UNCHANGED <<ptyVars, turn, batch, current, budget, todo, stopping>>

\* Mutant: a write counts twice.
WritePtyTwice ==
  LET e == <<"pty", "write">> IN
  /\ Due(e) /\ Handled(e)
  /\ ptyIn' = ptyIn - 2
  /\ UNCHANGED <<socketVars, client, accepted, sizeVars, pending, replay,
                 produced, shellOut, childGone, turn, current, budget,
                 receivers, todo, stopping>>

WritePty ==
  LET e == <<"pty", "write">> IN
  /\ Due(e) /\ Handled(e)
  /\ \/ ptyIn' = ptyIn - 1 /\ UNCHANGED stopping
     \/ childGone /\ stopping' = TRUE /\ UNCHANGED ptyIn
  /\ UNCHANGED <<socketVars, client, accepted, sizeVars, pending, replay,
                 produced, shellOut, childGone, turn, current, budget,
                 receivers, todo>>

-----------------------------------------------------------------------------
(* After the events.                                                       *)

Idle == current = NoPeer /\ receivers = {}

EventsDone ==
  /\ turn = "events" /\ batch = {} /\ Idle
  /\ turn' = "pending" /\ todo' = pending
  /\ UNCHANGED <<socketVars, client, accepted, sizeVars, pending, ptyVars,
                 batch, current, budget, receivers, stopping>>

Resume(p) ==
  /\ turn = "pending" /\ Idle /\ p \in todo
  /\ todo' = todo \ {p}
  /\ pending' = pending \ {p}
  /\ IF conn[p] = "open" THEN current' = p /\ budget' = FrameBudget
                         ELSE UNCHANGED <<current, budget>>
  /\ UNCHANGED <<socketVars, client, accepted, sizeVars, ptyVars, turn, batch,
                 receivers, stopping>>

\* Mutant: clients whose reply is not flushed yet expire as well.
ExpirableAnswered == {p \in Open(Peers) : ~client[p].attached}

\* Mutant: only control clients expire.
ExpirableControl ==
  {p \in Open(ControlPeers) : ~client[p].attached /\ ~client[p].closing}

\* Clients that neither attached nor were answered in time ...
Expirable == {p \in Open(Peers) : ~client[p].attached /\ ~client[p].closing}

\* ... are closed, before the shell is reaped.
Expire(p) ==
  /\ turn = "pending" /\ Idle /\ todo = {}
  /\ p \in Expirable
  /\ Close(p)
  /\ UNCHANGED <<ptyVars, turnVars>>

EndTurn ==
  /\ turn = "pending" /\ Idle /\ todo = {}
  /\ stopping' = (stopping \/ childGone)
  /\ turn' = "select"
  /\ UNCHANGED <<socketVars, client, accepted, sizeVars, pending, ptyVars,
                 batch, current, budget, receivers, todo>>

\* _cleanup closes every client and both listeners.
Cleanup ==
  /\ turn = "select" /\ stopping
  /\ turn' = "done"
  /\ conn' = [p \in Peers |-> "none"]
  /\ sent' = [p \in Peers |-> <<>>]
  /\ eof' = [p \in Peers |-> FALSE]
  /\ client' = [p \in Peers |-> Blank]
  /\ accepted' = <<>> /\ pending' = {}
  /\ controller' = NoPeer
  /\ UNCHANGED <<ptySize, ptyVars, batch, current, budget, receivers, todo,
                 stopping>>

-----------------------------------------------------------------------------
Loop ==
  \/ SelectEvents
  \/ \E p \in ControlPeers : AcceptControl(p)
  \/ \E p \in DataPeers : AcceptData(p) \/ Broadcast(p)
  \/ \E p \in Peers : ReadClient(p) \/ HandleFrame(p) \/ WriteBroken(p)
                      \/ WriteClient(p) \/ WriteSkipped(p) \/ Resume(p)
                      \/ Expire(p)
  \/ NoMoreData \/ ReadPty \/ WritePty \/ EventsDone \/ EndTurn \/ Cleanup

Next == World \/ Loop

Spec == Init /\ [][Next]_vars

\* The broker runs, and time passes: a client that can expire at the end of
\* every turn does.
Fairness == WF_vars(Loop) /\ \A p \in Peers : SF_vars(Expire(p))

FairSpec == Spec /\ Fairness
-----------------------------------------------------------------------------
(* Properties.                                                             *)

\* The PTY always has the size of the client in control, and while anybody
\* is attached somebody is in control: no disconnect, overflow or refused
\* input leaves the PTY with the size of a client that is gone.
ControllerDecidesSize ==
  /\ controller = NoPeer <=> Attached = {}
  /\ controller # NoPeer => /\ controller \in Attached
                            /\ ptySize = client[controller].size

\* No client is closed while its read event of the same turn is still to be
\* handled: recv on its closed socket would end the broker.  (Evictions come
\* after all control events, broadcasts after all data events.)
NoStaleEvent ==
  \A p \in Peers : <<p, "read">> \in batch => conn[p] = "open"

\* What an attached client was not sent yet is all in its queue and in
\* order: from the replay it attached with to the last chunk read, nothing
\* is skipped, repeated or reordered, however slowly it reads.
QueueIsUnsentOutput ==
  \A p \in Attached :
    LET last == IF p \in receivers THEN produced - 1 ELSE produced IN
    client[p].out = [i \in 1 .. last - client[p].seen |-> client[p].seen + i]

\* Connections stay within the limits that the memory budget multiplies.
WithinBudget ==
  /\ Cardinality(Attached) <= MaxClients
  /\ Cardinality(Open(DataPeers)) <= MaxClients + MaxPending
  /\ Cardinality(Open(ControlPeers)) <= MaxControl
  /\ \A p \in Peers : Len(client[p].out) <= OutLimit
  /\ \A p \in ControlPeers : Len(client[p].out) <= 1

\* Complete frames beyond the budget are handled without waiting for more
\* data from the socket.
FramesResumed ==
  \A p \in Peers :
    conn[p] = "open" /\ client[p].input # <<>> /\ sent[p] = <<>>
    ~> conn[p] # "open" \/ client[p].input = <<>> \/ sent[p] # <<>>

\* A connection that never attaches or asks does not keep its place.
IdlePlaceFreed ==
  \A p \in Peers :
    conn[p] = "open" /\ ~client[p].attached
    ~> conn[p] # "open" \/ client[p].attached

\* Output of the shell is read whatever clients do not read.
OutputNeverStalls == shellOut ~> ~shellOut \/ turn = "done"

\* An authenticated stop request whose sender waits is dropped only when the
\* broker stops, or by a newcomer while every control place is taken.
StopLostOnlyByEviction ==
  [][\A p \in ControlPeers :
       client[p].stop /\ ~eof[p] /\ ~client'[p].stop =>
         \/ stopping'
         \/ /\ Cardinality(Open(ControlPeers)) = MaxControl
            /\ p = Head(accepted)
            /\ \E q \in ControlPeers : conn[q] = "queued" /\ conn'[q] = "open"]_vars

\* docs/architecture.md:49 "prevents ... a slowloris batch from ... evicting
\* a complete stop request": one whose sender waits is not dropped while the
\* broker goes on.  It does not hold: the listener may evict it in the very
\* turn that handled its frame.
CompleteStopKept ==
  [][\A p \in ControlPeers :
       client[p].stop /\ ~eof[p] /\ ~client'[p].stop => stopping']_vars

\* What the loop amounts to for those who are attached.
Terminal ==
  INSTANCE SharedTerminal WITH
    Readers <- DataPeers, Keep <- ReplayLimit, Nobody <- NoPeer,
    printed <- produced, readers <- Attached,
    at <- [p \in Attached |-> client[p].seen],
    wanted <- [p \in Attached |-> client[p].size],
    size <- ptySize

\* Whatever the order of events, frames, overflows and disconnects, every
\* attached client reads one chunk after the other of the one output, from
\* the replay it was promised, and the size passes from one controller to the
\* next (docs/architecture.md:22 and 24).
ImplementsTerminal == Terminal!TerminalSpec
=============================================================================
