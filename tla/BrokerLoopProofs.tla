-------------------------- MODULE BrokerLoopProofs --------------------------
(***************************************************************************)
(* Proofs about the event loop, for any number of peers and any limits:    *)
(* connections and queues stay within the budget, the PTY has the size of  *)
(* the client in control, no closed client has a read event to come, every *)
(* attached client has all the output it was not sent, and a stop request  *)
(* is lost only to an eviction.  To those who look at it, the loop is one  *)
(* terminal (SharedTerminal).                                              *)
(*                                                                         *)
(* None of them is inductive.  IInv adds what a connection's record says   *)
(* at each point of a turn (Records, AttachesOnce), where the turn stands  *)
(* (TurnInv), who has a place (Places) and what the replay buffer and the  *)
(* queues hold (Output).  All ways to drop a client are one case, Drops.   *)
(***************************************************************************)
EXTENDS BrokerLoop, SequenceTheorems, FiniteSetTheorems, TLAPS

Distinct(s) == \A i, j \in 1 .. Len(s) : s[i] = s[j] => i = j

\* What may be said of the record of p.  An answered control client has the
\* reply in its queue and is not read again.
RecordInv(p) ==
  /\ conn[p] # "open" => client[p] = Blank /\ <<p, "read">> \notin batch
  /\ current = p => <<p, "read">> \notin batch
  /\ client[p].closing => /\ p \in ControlPeers /\ client[p].input = <<>>
                          /\ <<p, "read">> \notin batch
  /\ client[p].stop => client[p].closing
  /\ client[p].attached => p \in DataPeers
  /\ p \in ControlPeers =>
       client[p].out = IF client[p].closing THEN <<Reply>> ELSE <<>>
  /\ p \in DataPeers /\ ~client[p].attached => client[p].out = <<>>
  /\ ~client[p].attached => client[p].size = DefaultSize

Records == \A p \in Peers : RecordInv(p)

\* A connection has at most one A, and none after that was handled.
AttachFrames(s) == {i \in 1 .. Len(s) : s[i] = "A"}
OnceInv(p) ==
  /\ \A i, j \in AttachFrames(client[p].input) : i = j
  /\ \A i, j \in AttachFrames(sent[p]) : i = j
  /\ AttachFrames(client[p].input) # {} => AttachFrames(sent[p]) = {}
  /\ client[p].attached =>
       AttachFrames(client[p].input) = {} /\ AttachFrames(sent[p]) = {}

AttachesOnce == \A p \in Peers : OnceInv(p)

\* Where the turn stands.  The PTY is read after all clients.
TurnInv ==
  /\ turn # "events" => batch = {} /\ receivers = {}
  /\ turn \in {"select", "done"} => current = NoPeer
  /\ current # NoPeer => receivers = {}
  /\ receivers # {} => \A p \in Peers : <<p, "read">> \notin batch
  /\ receivers \subseteq Attached
  /\ <<"pty", "write">> \in batch => ptyIn > 0

\* Who has a place.
Places ==
  /\ Distinct(accepted) /\ Range(accepted) = Open(ControlPeers)
  /\ IsFiniteSet(Open(ControlPeers)) /\ IsFiniteSet(Open(DataPeers))
  /\ Cardinality(Open(ControlPeers)) <= MaxControl
  /\ Cardinality(Open(DataPeers)) <= MaxClients + MaxPending
  /\ Cardinality(Attached) <= MaxClients

\* The chunks after the m-th, up to the n-th.
Chunks(s, m, n) ==
  m <= n /\ Len(s) = n - m /\ \A i \in 1 .. Len(s) : s[i] = m + i

LastFor(p) == IF p \in receivers THEN produced - 1 ELSE produced

OutInv(p) ==
  /\ Chunks(client[p].out, client[p].seen, LastFor(p))
  /\ Len(client[p].out) <= OutLimit

Output ==
  /\ Len(replay) <= ReplayLimit /\ Len(replay) <= produced
  /\ Chunks(replay, produced - Len(replay), produced)
  /\ \A p \in Attached : OutInv(p)

IInv ==
  /\ TypeOK /\ Records /\ AttachesOnce /\ TurnInv /\ Places /\ Output
  /\ ControllerDecidesSize

USE DEF socketVars, sizeVars, ptyVars, turnVars

Frames == DataFrames \cup ControlFrames

\* The type of a record (client in TypeOK).
ClientType ==
  [attached : BOOLEAN, closing : BOOLEAN, stop : BOOLEAN, size : Sizes,
   input : Seq(Frames), out : Seq(Nat), seen : Nat]

-----------------------------------------------------------------------------
(* Sequences.                                                              *)

\* Removing a member of a sequence without repetitions.
LEMMA RemoveFirstProperties ==
  ASSUME NEW S, NEW s \in Seq(S), NEW e, Distinct(s)
  PROVE  /\ RemoveFirst(s, e) \in Seq(S)
         /\ Distinct(RemoveFirst(s, e))
         /\ Range(RemoveFirst(s, e)) = Range(s) \ {e}
<1> DEFINE r == RemoveFirst(s, e)
<1>1. CASE \A i \in 1 .. Len(s) : s[i] # e
  <2>1. r = s
    BY <1>1 DEF RemoveFirst
  <2>2. e \notin Range(s)
    BY <1>1, RangeEquality
  <2> QED
    BY <2>1, <2>2
<1>2. ASSUME NEW k \in 1 .. Len(s), s[k] = e
      PROVE  /\ r \in Seq(S) /\ Distinct(r) /\ Range(r) = Range(s) \ {e}
  <2>1. {i \in 1 .. Len(s) : s[i] = e} = {k}
    BY <1>2 DEF Distinct
  <2>2. Min({k}) = k
    BY DEF Min
  <2>3. r = RemoveAt(s, k)
    BY <1>2, <2>1, <2>2 DEF RemoveFirst, SelectInSeq
  <2>4. s \in Seq(S) /\ Len(s) \in Nat
    OBVIOUS
  <2> DEFINE a == SubSeq(s, 1, k - 1)  b == SubSeq(s, k + 1, Len(s))
  <2>5. /\ a \in Seq(S) /\ Len(a) = k - 1
        /\ \A i \in 1 .. k - 1 : a[i] = s[i]
    BY <2>4, SubSeqProperties
  <2>6. /\ b \in Seq(S) /\ Len(b) = Len(s) - k
        /\ \A i \in 1 .. Len(s) - k : b[i] = s[k + i]
    BY <2>4, SubSeqProperties
  <2>7. /\ r \in Seq(S) /\ Len(r) = Len(s) - 1
        /\ \A i \in 1 .. Len(r) : r[i] = IF i < k THEN s[i] ELSE s[i + 1]
    <3>1. r = a \o b
      BY <2>3 DEF RemoveAt
    <3> HIDE DEF a, b, r
    <3>2. /\ r \in Seq(S) /\ Len(r) = Len(s) - 1
          /\ \A i \in 1 .. Len(r) : r[i] = IF i <= k - 1 THEN a[i] ELSE b[i - (k - 1)]
      <4>1. /\ r \in Seq(S) /\ Len(r) = Len(a) + Len(b)
            /\ \A i \in 1 .. Len(a) + Len(b) :
                 r[i] = IF i <= Len(a) THEN a[i] ELSE b[i - Len(a)]
        BY <2>5, <2>6, <3>1, ConcatProperties
      <4>2. Len(a) + Len(b) = Len(s) - 1
        BY <2>4, <2>5, <2>6
      <4> QED
        BY <2>5, <4>1, <4>2
    <3>3. ASSUME NEW i \in 1 .. Len(r)
          PROVE  r[i] = IF i < k THEN s[i] ELSE s[i + 1]
      <4>1. CASE i < k
        <5>1. i <= k - 1 /\ i \in 1 .. k - 1
          BY <2>4, <3>2, <4>1
        <5> QED
          BY <2>5, <3>2, <4>1, <5>1
      <4>2. CASE i >= k
        <5>1. /\ i - (k - 1) \in 1 .. Len(s) - k
              /\ k + (i - (k - 1)) = i + 1 /\ ~(i <= k - 1)
          BY <2>4, <3>2, <4>2
        <5> QED
          BY <2>6, <3>2, <4>2, <5>1
      <4> QED
        BY <3>2, <4>1, <4>2
    <3> QED
      BY <3>2, <3>3
  <2> HIDE DEF r
  <2>8. Distinct(r)
    <3> SUFFICES ASSUME NEW i \in 1 .. Len(r), NEW j \in 1 .. Len(r), r[i] = r[j]
                 PROVE  i = j
      BY DEF Distinct
    <3> DEFINE up(n) == IF n < k THEN n ELSE n + 1
    <3>1. \A n \in 1 .. Len(r) : up(n) \in 1 .. Len(s) /\ r[n] = s[up(n)]
      BY <2>4, <2>7
    <3>2. up(i) = up(j)
      <4> HIDE DEF up
      <4> QED
        BY <3>1 DEF Distinct
    <3> QED
      BY <2>4, <2>7, <3>2
  <2>9. Range(r) = {r[i] : i \in 1 .. Len(r)} /\ Range(s) = {s[i] : i \in 1 .. Len(s)}
    BY <2>4, <2>7, RangeEquality
  <2>10. ASSUME NEW i \in 1 .. Len(r) PROVE r[i] \in Range(s) \ {e}
    BY <1>2, <2>4, <2>7, <2>9 DEF Distinct
  <2>11. ASSUME NEW i \in 1 .. Len(s), s[i] # e PROVE s[i] \in Range(r)
    <3>1. CASE i < k
      <4>1. i \in 1 .. Len(r) /\ r[i] = s[i]
        BY <2>4, <2>7, <3>1
      <4> QED
        BY <2>9, <4>1
    <3>2. CASE i > k
      <4>1. i - 1 \in 1 .. Len(r) /\ r[i - 1] = s[i]
        BY <2>4, <2>7, <3>2
      <4> QED
        BY <2>9, <4>1
    <3> QED
      BY <1>2, <2>11, <3>1, <3>2
  <2> QED
    BY <2>7, <2>8, <2>9, <2>10, <2>11
<1> QED
  BY <1>1, <1>2

\* Consecutive chunks stay consecutive when the first leaves ...
LEMMA ChunksTail ==
  ASSUME NEW s \in Seq(Nat), s # <<>>, NEW m \in Nat, NEW n \in Nat, Chunks(s, m, n)
  PROVE  Head(s) = m + 1 /\ Chunks(Tail(s), m + 1, n)
<1>1. /\ Head(s) = s[1] /\ Len(s) \in Nat \ {0} /\ Len(Tail(s)) = Len(s) - 1
      /\ \A i \in 1 .. Len(Tail(s)) : Tail(s)[i] = s[i + 1]
  BY HeadTailProperties, EmptySeq
<1>2. m <= n /\ Len(s) = n - m /\ \A i \in 1 .. Len(s) : s[i] = m + i
  BY DEF Chunks
<1>3. Head(s) = m + 1
  BY <1>1, <1>2
<1>4. ASSUME NEW i \in 1 .. Len(Tail(s)) PROVE Tail(s)[i] = (m + 1) + i
  <2>1. i + 1 \in 1 .. Len(s)
    BY <1>1
  <2> QED
    BY <1>1, <1>2, <2>1
<1> HIDE <1>1
<1>5. m + 1 <= n /\ Len(Tail(s)) = n - (m + 1)
  BY <1>1, <1>2
<1> QED
  BY <1>3, <1>4, <1>5 DEF Chunks

\* ... and when the next one enters ...
LEMMA ChunksAppend ==
  ASSUME NEW s \in Seq(Nat), NEW m \in Nat, NEW n \in Nat, Chunks(s, m, n - 1)
  PROVE  Chunks(Append(s, n), m, n)
<1>1. /\ Len(s) \in Nat /\ Len(Append(s, n)) = Len(s) + 1
      /\ \A i \in 1 .. Len(s) : Append(s, n)[i] = s[i]
      /\ Append(s, n)[Len(s) + 1] = n
  BY AppendProperties
<1>2. m <= n - 1 /\ Len(s) = (n - 1) - m /\ \A i \in 1 .. Len(s) : s[i] = m + i
  BY DEF Chunks
<1>3. ASSUME NEW i \in 1 .. Len(Append(s, n)) PROVE Append(s, n)[i] = m + i
  <2>1. CASE i \in 1 .. Len(s)
    BY <1>1, <1>2, <2>1
  <2>2. CASE i \notin 1 .. Len(s)
    <3>1. i = Len(s) + 1 /\ m + i = n
      BY <1>1, <1>2, <2>2
    <3> QED
      BY <1>1, <3>1
  <2> QED
    BY <2>1, <2>2
<1>4. m <= n /\ Len(Append(s, n)) = n - m
  BY <1>1, <1>2
<1> QED
  BY <1>3, <1>4 DEF Chunks

\* ... and when the first k are dropped.
LEMMA ChunksSuffix ==
  ASSUME NEW s \in Seq(Nat), NEW m \in Nat, NEW n \in Nat, Chunks(s, m, n),
         NEW k \in 0 .. Len(s)
  PROVE  /\ SubSeq(s, k + 1, Len(s)) \in Seq(Nat)
         /\ Len(SubSeq(s, k + 1, Len(s))) = Len(s) - k
         /\ Chunks(SubSeq(s, k + 1, Len(s)), m + k, n)
<1> DEFINE r == SubSeq(s, k + 1, Len(s))
<1>1. m <= n /\ Len(s) = n - m /\ \A i \in 1 .. Len(s) : s[i] = m + i
  BY DEF Chunks
<1>2. Len(s) \in Nat /\ \A i \in k + 1 .. Len(s) : s[i] \in Nat
  OBVIOUS
<1>3. /\ r \in Seq(Nat) /\ Len(r) = IF k + 1 <= Len(s) THEN Len(s) - (k + 1) + 1 ELSE 0
      /\ \A i \in 1 .. Len(s) - (k + 1) + 1 : r[i] = s[k + 1 + i - 1]
  BY <1>2, SubSeqProperties
<1> HIDE DEF r
<1>4. Len(r) = Len(s) - k
  BY <1>2, <1>3
<1>5. ASSUME NEW i \in 1 .. Len(r) PROVE r[i] = (m + k) + i
  <2>1. i \in 1 .. Len(s) - (k + 1) + 1 /\ k + 1 + i - 1 = k + i /\ k + i \in 1 .. Len(s)
    BY <1>2, <1>4
  <2>2. r[i] = s[k + i] /\ s[k + i] = m + (k + i)
    BY <1>1, <1>3, <2>1
  <2> QED
    BY <1>4, <2>2
<1>6. m + k <= n /\ Len(r) = n - (m + k)
  BY <1>1, <1>2, <1>4
<1>7. Chunks(r, m + k, n)
  BY <1>5, <1>6 DEF Chunks
<1> QED
  BY <1>3, <1>4, <1>7 DEF r

-----------------------------------------------------------------------------
(* One turn and one client.                                                *)

\* The order of the events: _event_priority.
LEMMA Priorities ==
  /\ \A p \in ControlPeers : Priority(p) = 0
  /\ Priority("control-listener") = 1
  /\ \A p \in DataPeers : Priority(p) = 2
  /\ Priority("pty") = 3
  /\ Priority("data-listener") = 4
BY PeersAssumption DEF Priority, Peers

\* When the control listener is due no control client has an event left ...
LEMMA ControlHandled ==
  ASSUME Due(<<"control-listener", "read">>), NEW p \in ControlPeers
  PROVE  <<p, "read">> \notin batch
BY Priorities DEF Due

\* ... and when the PTY is due, no client at all.
LEMMA ClientsHandled ==
  ASSUME Due(<<"pty", "read">>), NEW p \in Peers
  PROVE  <<p, "read">> \notin batch
BY Priorities DEF Due, Peers

LEMMA BlankType == Blank \in ClientType
BY SizesAssumption DEF Blank, ClientType

LEMMA ClientTypeOK == TypeOK <=>
  /\ conn \in [Peers -> {"none", "queued", "open"}]
  /\ sent \in [Peers -> Seq(Frames)]
  /\ eof \in [Peers -> BOOLEAN]
  /\ client \in [Peers -> ClientType]
  /\ accepted \in Seq(ControlPeers)
  /\ controller \in DataPeers \cup {NoPeer} /\ ptySize \in Sizes
  /\ pending \subseteq Peers
  /\ replay \in Seq(Nat) /\ produced \in Nat /\ ptyIn \in Nat
  /\ shellOut \in BOOLEAN /\ childGone \in BOOLEAN
  /\ turn \in {"select", "events", "pending", "done"}
  /\ batch \subseteq Events
  /\ current \in Peers \cup {NoPeer} /\ budget \in Nat
  /\ receivers \subseteq DataPeers /\ todo \subseteq Peers
  /\ stopping \in BOOLEAN
BY DEF TypeOK, ClientType, Frames

\* What closing p does.
LEMMA CloseEffect ==
  ASSUME TypeOK, NEW p \in Peers, Close(p)
  PROVE  /\ conn'[p] = "none" /\ sent'[p] = <<>> /\ client'[p] = Blank
         /\ \A q \in Peers \ {p} : /\ conn'[q] = conn[q] /\ sent'[q] = sent[q]
                                   /\ eof'[q] = eof[q] /\ client'[q] = client[q]
         /\ Attached' = Attached \ {p}
         /\ \A P \in {DataPeers, ControlPeers} : Open(P)' = Open(P) \ {p}
<1>1. /\ conn'[p] = "none" /\ sent'[p] = <<>> /\ client'[p] = Blank
      /\ \A q \in Peers \ {p} : /\ conn'[q] = conn[q] /\ sent'[q] = sent[q]
                                /\ eof'[q] = eof[q] /\ client'[q] = client[q]
  BY DEF Close, TypeOK
<1>2. Attached' = Attached \ {p}
  BY <1>1 DEF Attached, Blank, Peers
<1>3. Open(DataPeers)' = Open(DataPeers) \ {p}
  BY <1>1 DEF Open, Peers
<1>4. Open(ControlPeers)' = Open(ControlPeers) \ {p}
  BY <1>1 DEF Open, Peers
<1> QED
  BY <1>1, <1>2, <1>3, <1>4

-----------------------------------------------------------------------------
(* Dropping a client, whoever does it.                                     *)

Drops(p) ==
  /\ Close(p)
  /\ batch' \subseteq batch /\ <<p, "read">> \notin batch'
  /\ receivers' = receivers \ {p}
  /\ current' \in {current, NoPeer} /\ budget' \in Nat
  /\ stopping' \in BOOLEAN
  /\ UNCHANGED <<ptyVars, turn, todo>>

LEMMA DropTypeOK ==
  ASSUME TypeOK, Distinct(accepted), NEW p \in Peers, Drops(p)
  PROVE  TypeOK'
<1>1. accepted' \in Seq(ControlPeers)
  BY RemoveFirstProperties DEF Drops, Close, TypeOK
<1>2. client' \in [Peers -> ClientType]
  BY BlankType, ClientTypeOK DEF Drops, Close
<1>3. controller' \in DataPeers \cup {NoPeer} /\ ptySize' \in Sizes
  <2>1. \A q \in Peers : client[q].size \in Sizes
    BY DEF TypeOK
  <2> QED
    BY <2>1 DEF Drops, Close, HandOver, TypeOK, Attached, Peers
<1>4. /\ conn' \in [Peers -> {"none", "queued", "open"}]
      /\ sent' \in [Peers -> Seq(Frames)]
      /\ eof' \in [Peers -> BOOLEAN]
  BY ClientTypeOK DEF Drops, Close
<1>5. /\ pending' \subseteq Peers
      /\ batch' \subseteq Events
      /\ current' \in Peers \cup {NoPeer} /\ budget' \in Nat
      /\ receivers' \subseteq DataPeers /\ todo' \subseteq Peers
      /\ stopping' \in BOOLEAN
      /\ replay' \in Seq(Nat) /\ produced' \in Nat /\ ptyIn' \in Nat
      /\ shellOut' \in BOOLEAN /\ childGone' \in BOOLEAN
      /\ turn' \in {"select", "events", "pending", "done"}
  BY DEF Drops, Close, TypeOK
<1> QED
  BY <1>1, <1>2, <1>3, <1>4, <1>5 DEF TypeOK, ClientType, Frames

LEMMA DropRecords ==
  ASSUME TypeOK, Records, AttachesOnce, NEW p \in Peers, Drops(p)
  PROVE  Records' /\ AttachesOnce'
<1>1. ASSUME NEW q \in Peers
      PROVE  /\ q # p => conn'[q] = conn[q] /\ client'[q] = client[q]
                         /\ sent'[q] = sent[q]
             /\ <<q, "read">> \in batch' => <<q, "read">> \in batch
             /\ current' = q => current = q
  BY <1>1, CloseEffect, PeersAssumption DEF Drops
<1>2. conn'[p] = "none" /\ client'[p] = Blank /\ sent'[p] = <<>>
      /\ <<p, "read">> \notin batch'
  BY CloseEffect DEF Drops
<1>3. ASSUME NEW q \in Peers PROVE RecordInv(q)'
  <2>1. CASE q = p
    BY <1>1, <1>2, <2>1 DEF Records, RecordInv, Blank
  <2>2. CASE q # p
    BY <1>1, <2>2 DEF Records, RecordInv
  <2> QED
    BY <2>1, <2>2
<1>4. ASSUME NEW q \in Peers PROVE OnceInv(q)'
  <2>1. AttachFrames(<<>>) = {}
    BY DEF AttachFrames
  <2>2. CASE q = p
    BY <1>2, <2>1, <2>2 DEF OnceInv, Blank
  <2>3. CASE q # p
    BY <1>1, <2>3 DEF AttachesOnce, OnceInv
  <2> QED
    BY <2>2, <2>3
<1> QED
  BY <1>3, <1>4 DEF Records, AttachesOnce

LEMMA DropTurn ==
  ASSUME TypeOK, TurnInv, NEW p \in Peers, Drops(p)
  PROVE  TurnInv'
<1>1. Attached' = Attached \ {p}
  BY CloseEffect DEF Drops
<1> QED
  BY <1>1 DEF Drops, TurnInv

\* A subset of the clients fits where they fit.
LEMMA FewerFit ==
  ASSUME NEW S, NEW T \in SUBSET S, NEW n \in Nat,
         IsFiniteSet(S), Cardinality(S) <= n
  PROVE  IsFiniteSet(T) /\ Cardinality(T) <= n
BY FS_Subset, FS_CardinalityType

LEMMA AttachedFinite ==
  ASSUME Records, Places
  PROVE  /\ Attached \subseteq Open(DataPeers) /\ IsFiniteSet(Attached)
         /\ Cardinality(Attached) \in Nat
<1>1. Attached \subseteq Open(DataPeers)
  <2> SUFFICES ASSUME NEW p \in DataPeers, client[p].attached PROVE conn[p] = "open"
    BY DEF Attached, Open
  <2>1. RecordInv(p) /\ ~Blank.attached
    BY DEF Records, Peers, Blank
  <2> QED
    BY <2>1 DEF RecordInv
<1> QED
  BY <1>1, FS_Subset, FS_CardinalityType DEF Places

LEMMA DropPlaces ==
  ASSUME TypeOK, Records, Places, NEW p \in Peers, Drops(p)
  PROVE  Places'
<1>1. /\ Attached' \subseteq Attached
      /\ Open(DataPeers)' \subseteq Open(DataPeers)
      /\ Open(ControlPeers)' = Open(ControlPeers) \ {p}
  BY CloseEffect DEF Drops
<1>2. Distinct(accepted') /\ Range(accepted') = Open(ControlPeers)'
  BY <1>1, RemoveFirstProperties DEF Drops, Close, Places, TypeOK
<1>3. MaxClients \in Nat /\ MaxControl \in Nat /\ MaxClients + MaxPending \in Nat
  BY LimitsAssumption
<1> HIDE DEF Places
<1>4. /\ IsFiniteSet(Open(ControlPeers)') /\ Cardinality(Open(ControlPeers)') <= MaxControl
      /\ IsFiniteSet(Open(DataPeers)')
      /\ Cardinality(Open(DataPeers)') <= MaxClients + MaxPending
      /\ Cardinality(Attached') <= MaxClients
  <2>1. Open(ControlPeers)' \subseteq Open(ControlPeers)
    BY <1>1
  <2> QED
    BY <1>1, <1>3, <2>1, FewerFit, AttachedFinite DEF Places
<1> QED
  BY <1>2, <1>4 DEF Places

LEMMA DropOutput ==
  ASSUME TypeOK, Output, NEW p \in Peers, Drops(p)
  PROVE  Output'
<1>1. Attached' = Attached \ {p}
  BY CloseEffect DEF Drops
<1>2. ASSUME NEW q \in Attached'
      PROVE  q \in Attached /\ client'[q] = client[q] /\ LastFor(q)' = LastFor(q)
  <2>1. q \in Attached /\ q # p /\ q \in Peers
    BY <1>1, <1>2 DEF Attached, Peers
  <2> QED
    BY <2>1, CloseEffect DEF Drops, LastFor
<1>3. replay' = replay /\ produced' = produced
  BY DEF Drops
<1> QED
  BY <1>2, <1>3 DEF Output, OutInv, Chunks

LEMMA DropControl ==
  ASSUME TypeOK, ControllerDecidesSize, NEW p \in Peers, Drops(p)
  PROVE  ControllerDecidesSize'
<1>1. Attached' = Attached \ {p} /\ HandOver(p)
  BY CloseEffect DEF Drops, Close
<1>2. \A q \in Attached \ {p} : client'[q] = client[q] /\ q # NoPeer
  BY CloseEffect, PeersAssumption DEF Drops, Attached, Peers
<1>3. CASE controller # p
  BY <1>1, <1>2, <1>3 DEF HandOver, ControllerDecidesSize
<1>4. CASE controller = p
  BY <1>1, <1>2, <1>4 DEF HandOver, ControllerDecidesSize
<1> QED
  BY <1>3, <1>4

LEMMA DropKeeps ==
  ASSUME IInv, NEW p \in Peers, Drops(p)
  PROVE  IInv'
<1>1. Distinct(accepted)
  BY DEF IInv, Places
<1> QED
  BY <1>1, DropTypeOK, DropRecords, DropTurn, DropPlaces, DropOutput, DropControl
     DEF IInv

\* All ways to drop a client are of this kind.
LEMMA AllDrops ==
  ASSUME IInv, NEW p \in Peers,
         \/ ReadClient(p) /\ (sent[p] = <<>> \/ Len(client[p].input \o sent[p]) > InLimit)
         \/ AttachRefused(p) \/ InputRefused(p) \/ BadFrame(p)
         \/ WriteBroken(p)
         \/ WriteClient(p) /\ client[p].closing /\ Len(client[p].out) = 1
         \/ Expire(p)
         \/ /\ p \in DataPeers /\ AcceptData(p)
            /\ Cardinality(Open(DataPeers)) >= MaxClients + MaxPending
         \/ p \in DataPeers /\ Broadcast(p) /\ Len(client[p].out) >= OutLimit
  PROVE  Drops(p)
<1>1. /\ batch \subseteq Events /\ budget \in Nat /\ stopping \in BOOLEAN
      /\ FrameBudget \in Nat /\ client[p].stop \in BOOLEAN
  BY LimitsAssumption DEF IInv, TypeOK
<1>2. p # NoPeer /\ RecordInv(p) /\ TurnInv
  BY PeersAssumption DEF IInv, Records
<1>3. CASE AttachRefused(p) \/ InputRefused(p) \/ BadFrame(p)
  <2>1. Reject(p) /\ current = p
    BY <1>3 DEF AttachRefused, InputRefused, BadFrame, Frame
  <2> QED
    BY <1>1, <1>2, <2>1 DEF Reject, Drops, RecordInv, TurnInv
<1>4. CASE ReadClient(p) /\ (sent[p] = <<>> \/ Len(client[p].input \o sent[p]) > InLimit)
  BY <1>1, <1>2, <1>4 DEF ReadClient, Due, Handled, Drops
<1>5. CASE WriteBroken(p)
  BY <1>1, <1>2, <1>5 DEF WriteBroken, Due, Handled, Drops
<1>6. CASE WriteClient(p) /\ client[p].closing /\ Len(client[p].out) = 1
  BY <1>1, <1>2, <1>6 DEF WriteClient, Due, Handled, Drops
<1>7. CASE Expire(p)
  BY <1>1, <1>2, <1>7 DEF Expire, Drops, TurnInv, Idle
<1>8. CASE /\ p \in DataPeers /\ AcceptData(p)
           /\ Cardinality(Open(DataPeers)) >= MaxClients + MaxPending
  BY <1>1, <1>2, <1>8 DEF AcceptData, Due, Drops, RecordInv
<1>9. CASE p \in DataPeers /\ Broadcast(p) /\ Len(client[p].out) >= OutLimit
  <2>1. Len(client[p].out) \in Nat /\ OutLimit \in Nat
    BY LimitsAssumption DEF IInv, TypeOK
  <2> QED
    BY <1>1, <1>2, <1>9, <2>1 DEF Broadcast, Drops, TurnInv
<1> QED
  BY <1>3, <1>4, <1>5, <1>6, <1>7, <1>8, <1>9

-----------------------------------------------------------------------------
(* Steps that change one client, or none.                                  *)

\* Nothing the clients see changes.
Quiet ==
  UNCHANGED <<conn, sent, client, accepted, sizeVars, replay, produced, receivers>>

LEMMA QuietKeeps ==
  ASSUME IInv, Quiet, TypeOK', Records', TurnInv'
  PROVE  IInv'
<1>1. AttachesOnce'
  BY DEF IInv, Quiet, AttachesOnce, OnceInv
<1>2. Attached' = Attached /\ Open(DataPeers)' = Open(DataPeers)
      /\ Open(ControlPeers)' = Open(ControlPeers)
  BY DEF Quiet, Attached, Open
<1>3. Places'
  BY <1>2 DEF IInv, Quiet, Places
<1>4. Output'
  BY <1>2 DEF IInv, Quiet, Output, OutInv, LastFor
<1>5. ControllerDecidesSize'
  BY <1>2 DEF IInv, Quiet, ControllerDecidesSize
<1> QED
  BY <1>1, <1>3, <1>4, <1>5 DEF IInv

\* Only the record and the socket of p change.
Edits(p) ==
  /\ \A q \in Peers \ {p} : client'[q] = client[q] /\ sent'[q] = sent[q]
  /\ UNCHANGED <<conn, accepted, replay, produced>>
  /\ batch' \subseteq batch
  /\ current' \in {current, NoPeer, p}
  /\ receivers' \cup {p} = receivers \cup {p}

LEMMA EditKeeps ==
  ASSUME IInv, NEW p \in Peers, Edits(p),
         TypeOK', RecordInv(p)', OnceInv(p)', TurnInv', ControllerDecidesSize',
         p \in Attached' => OutInv(p)',
         p \in Attached' => p \in Attached \/ Cardinality(Attached) < MaxClients
  PROVE  IInv'
<1>1. Records'
  <2> SUFFICES ASSUME NEW q \in Peers, q # p PROVE RecordInv(q)'
    BY DEF Records
  <2>1. RecordInv(q) /\ conn'[q] = conn[q] /\ client'[q] = client[q]
        /\ (<<q, "read">> \in batch' => <<q, "read">> \in batch)
        /\ (current' = q => current = q)
    BY PeersAssumption DEF Edits, IInv, Records
  <2> QED
    BY <2>1 DEF RecordInv
<1>2. AttachesOnce'
  BY DEF IInv, AttachesOnce, OnceInv, Edits
<1>3. Attached' \subseteq Attached \cup {p}
  BY DEF Edits, Attached, Peers
<1>4. Output'
  <2>1. ASSUME NEW q \in Attached', q # p PROVE OutInv(q)'
    <3>1. q \in Attached /\ client'[q] = client[q]
          /\ (q \in receivers' <=> q \in receivers) /\ produced' = produced
      BY <1>3, <2>1 DEF Edits, Attached, Peers
    <3>2. LastFor(q)' = LastFor(q)
      BY <3>1 DEF LastFor
    <3> QED
      BY <3>1, <3>2 DEF IInv, Output, OutInv
  <2> QED
    BY <2>1 DEF IInv, Output, Edits
<1>5. Places'
  <2>1. Open(DataPeers)' = Open(DataPeers) /\ Open(ControlPeers)' = Open(ControlPeers)
    BY DEF Edits, Open
  <2>2. MaxClients \in Nat
    BY LimitsAssumption
  <2>3. Cardinality(Attached') <= MaxClients
    <3>1. Cardinality(Attached) <= MaxClients /\ IsFiniteSet(Attached)
          /\ Cardinality(Attached) \in Nat
      BY AttachedFinite DEF IInv, Places
    <3>2. CASE Attached' \subseteq Attached
      BY <2>2, <3>1, <3>2, FewerFit
    <3>3. CASE ~(Attached' \subseteq Attached)
      <4>1. p \in Attached' /\ p \notin Attached /\ Cardinality(Attached) < MaxClients
        BY <1>3, <3>3
      <4>2. /\ IsFiniteSet(Attached \cup {p})
            /\ Cardinality(Attached \cup {p}) = Cardinality(Attached) + 1
        BY <3>1, <4>1, FS_AddElement
      <4> QED
        BY <1>3, <2>2, <3>1, <4>1, <4>2, FewerFit
    <3> QED
      BY <3>2, <3>3
  <2> QED
    BY <2>1, <2>3 DEF IInv, Places, Edits
<1> QED
  BY <1>1, <1>2, <1>4, <1>5 DEF IInv

\* What every step that handles a frame of p finds.
LEMMA AtFrame ==
  ASSUME IInv, NEW p \in Peers, NEW F, Frame(p, F)
  PROVE  /\ RecordInv(p) /\ OnceInv(p) /\ TurnInv /\ TypeOK /\ p # NoPeer
         /\ <<p, "read">> \notin batch /\ receivers = {} /\ conn[p] = "open"
         /\ client[p] \in ClientType /\ ~client[p].closing
         /\ Tail(client[p].input) \in Seq(Frames) /\ budget - 1 \in Nat
<1>1. RecordInv(p) /\ OnceInv(p) /\ TurnInv /\ TypeOK /\ p # NoPeer
  BY PeersAssumption DEF IInv, Records, AttachesOnce
<1>2. client[p] \in ClientType
  BY <1>1, ClientTypeOK
<1>3. client[p].input # <<>> /\ client[p].input \in Seq(Frames) /\ client[p] # Blank
  BY <1>2 DEF Frame, ClientType, Blank
<1>4. Tail(client[p].input) \in Seq(Frames)
  BY <1>3, HeadTailProperties
<1>5. /\ <<p, "read">> \notin batch /\ receivers = {} /\ conn[p] = "open"
      /\ ~client[p].closing
  <2>1. current = p
    BY DEF Frame
  <2> QED
    BY <1>1, <1>3, <2>1 DEF RecordInv, TurnInv
<1> QED
  BY <1>1, <1>2, <1>4, <1>5 DEF Frame, TypeOK

\* The rest of the input has no more A's than the input.
LEMMA OnceTaken ==
  ASSUME NEW s \in Seq(Frames), s # <<>>,
         \A i, j \in AttachFrames(s) : i = j
  PROVE  /\ \A i, j \in AttachFrames(Tail(s)) : i = j
         /\ AttachFrames(Tail(s)) # {} => AttachFrames(s) # {}
         /\ Head(s) = "A" => AttachFrames(s) # {} /\ AttachFrames(Tail(s)) = {}
<1>1. /\ Len(s) \in Nat \ {0} /\ Len(Tail(s)) = Len(s) - 1 /\ Head(s) = s[1]
      /\ \A i \in 1 .. Len(Tail(s)) : Tail(s)[i] = s[i + 1] /\ i + 1 \in 1 .. Len(s)
  BY HeadTailProperties, EmptySeq
<1>2. \A i \in AttachFrames(Tail(s)) : i + 1 \in AttachFrames(s) /\ i \in Nat /\ i # 0
  BY <1>1 DEF AttachFrames
<1>3. Head(s) = "A" => 1 \in AttachFrames(s)
  BY <1>1 DEF AttachFrames
<1> QED
  BY <1>2, <1>3

LEMMA AttachKeeps ==
  ASSUME IInv, NEW p \in Peers, Attach(p)
  PROVE  IInv'
<1> DEFINE at == [Taken(p) EXCEPT !.attached = TRUE, !.out = @ \o replay,
                                  !.seen = produced - Len(replay)]
<1>1. /\ p \in DataPeers /\ Frame(p, {"A"}) /\ Cardinality(Attached) < MaxClients
      /\ client' = [client EXCEPT ![p] = at] /\ FrameHandled(p)
      /\ UNCHANGED <<pending, ptyVars>>
      /\ IF controller = NoPeer THEN controller' = p /\ ptySize' = at.size
                                ELSE UNCHANGED sizeVars
  BY DEF Attach
<1>2. /\ RecordInv(p) /\ OnceInv(p) /\ TurnInv /\ TypeOK /\ p # NoPeer
      /\ <<p, "read">> \notin batch /\ receivers = {} /\ conn[p] = "open"
      /\ client[p] \in ClientType /\ ~client[p].closing
      /\ Tail(client[p].input) \in Seq(Frames) /\ budget - 1 \in Nat
  BY <1>1, AtFrame
<1>3. client[p].input \in Seq(Frames) /\ client[p].input # <<>> /\ Head(client[p].input) = "A"
  BY <1>1, <1>2 DEF Frame, ClientType
<1>4. AttachFrames(client[p].input) # {} /\ AttachFrames(Tail(client[p].input)) = {}
  BY <1>2, <1>3, OnceTaken DEF OnceInv
<1>5. ~client[p].attached /\ client[p].out = <<>>
  BY <1>1, <1>2, <1>4 DEF OnceInv, RecordInv, ClientType
<1>6. /\ Output /\ replay \in Seq(Nat) /\ produced \in Nat /\ Len(replay) \in Nat
      /\ <<>> \o replay = replay /\ produced - Len(replay) \in Nat
  <2>1. Output /\ replay \in Seq(Nat) /\ produced \in Nat /\ Len(replay) \in Nat
    BY <1>2 DEF IInv, TypeOK
  <2>2. Len(replay) <= produced
    BY <2>1 DEF Output
  <2>3. <<>> \o replay = replay
    BY <2>1, ConcatEmptySeq
  <2> QED
    BY <2>1, <2>2, <2>3
<1>7. /\ at \in ClientType /\ at.attached /\ at.out = replay
      /\ at.seen = produced - Len(replay) /\ at.size = client[p].size
      /\ at.input = Tail(client[p].input) /\ at.stop = client[p].stop
      /\ at.closing = client[p].closing
  BY <1>2, <1>5, <1>6 DEF Taken, ClientType
<1> HIDE DEF at
<1>8. client'[p] = at /\ \A q \in Peers \ {p} : client'[q] = client[q]
  BY <1>1, <1>2 DEF TypeOK
<1>9. TypeOK'
  <2>1. client' \in [Peers -> ClientType]
    BY <1>1, <1>2, <1>7, ClientTypeOK
  <2>2. ptySize' \in Sizes /\ controller' \in DataPeers \cup {NoPeer}
    BY <1>1, <1>2, <1>7 DEF ClientType, TypeOK
  <2> QED
    BY <1>1, <1>2, <2>1, <2>2 DEF TypeOK, ClientType, Frames, FrameHandled
<1>10. Edits(p)
  BY <1>1, <1>8 DEF FrameHandled, Edits
<1>11. RecordInv(p)' /\ OnceInv(p)'
  BY <1>1, <1>2, <1>4, <1>7, <1>8, PeersAssumption
     DEF RecordInv, OnceInv, FrameHandled
<1>12. Attached' = Attached \cup {p}
  BY <1>1, <1>7, <1>8 DEF Attached, Peers
<1>13. TurnInv'
  BY <1>1, <1>2, <1>12 DEF TurnInv, FrameHandled
<1>14. OutInv(p)'
  <2>1. LastFor(p)' = produced
    BY <1>1, <1>2 DEF LastFor, FrameHandled
  <2>2. Len(replay) <= OutLimit
    BY <1>6, LimitsAssumption, ReplayFitsAssumption DEF Output
  <2> QED
    BY <1>1, <1>6, <1>7, <1>8, <2>1, <2>2 DEF Output, OutInv, Chunks
<1>15. ControllerDecidesSize'
  <2>1. controller \in Attached => controller # p /\ client'[controller] = client[controller]
    BY <1>5, <1>8 DEF Attached, Peers
  <2> QED
    BY <1>1, <1>2, <1>7, <1>8, <1>12, <2>1 DEF IInv, ControllerDecidesSize
<1> QED
  BY <1>1, <1>9, <1>10, <1>11, <1>13, <1>14, <1>15, EditKeeps

\* A frame of p that leaves its output queue alone.
LEMMA FrameKeeps ==
  ASSUME IInv, NEW p \in DataPeers, NEW F, Frame(p, F), FrameHandled(p),
         client[p].attached,
         NEW s \in Sizes,
         client' = [client EXCEPT ![p] = [Taken(p) EXCEPT !.size = s]],
         \/ controller' = p /\ ptySize' = s
         \/ controller # p /\ UNCHANGED sizeVars,
         UNCHANGED <<pending, replay, produced, shellOut, childGone>>,
         ptyIn' \in {ptyIn, ptyIn + 1}
  PROVE  IInv'
<1> DEFINE c == [Taken(p) EXCEPT !.size = s]
<1>1. p \in Peers
  BY DEF Peers
<1>2. /\ RecordInv(p) /\ OnceInv(p) /\ TurnInv /\ TypeOK /\ p # NoPeer
      /\ <<p, "read">> \notin batch /\ receivers = {} /\ conn[p] = "open"
      /\ client[p] \in ClientType /\ ~client[p].closing
      /\ Tail(client[p].input) \in Seq(Frames) /\ budget - 1 \in Nat
  BY <1>1, AtFrame
<1>3. /\ c \in ClientType /\ c.attached
      /\ c.size = s /\ c.input = Tail(client[p].input) /\ c.out = client[p].out
      /\ c.seen = client[p].seen /\ c.closing = client[p].closing
      /\ c.stop = client[p].stop
  BY <1>2 DEF Taken, ClientType
<1>4. client' = [client EXCEPT ![p] = c]
  OBVIOUS
<1> HIDE DEF c
<1>5. client'[p] = c /\ \A q \in Peers \ {p} : client'[q] = client[q]
  BY <1>1, <1>2, <1>4 DEF TypeOK
<1>6. TypeOK'
  <2>1. client' \in [Peers -> ClientType]
    BY <1>2, <1>3, <1>4, ClientTypeOK
  <2>2. controller' \in DataPeers \cup {NoPeer} /\ ptySize' \in Sizes /\ ptyIn' \in Nat
    BY <1>2 DEF TypeOK
  <2> QED
    BY <1>2, <2>1, <2>2 DEF TypeOK, ClientType, Frames, FrameHandled
<1>7. Edits(p)
  BY <1>5 DEF FrameHandled, Edits
<1>8. Attached' = Attached /\ p \in Attached
  BY <1>1, <1>3, <1>5 DEF Attached, Peers
<1>9. RecordInv(p)' /\ OnceInv(p)'
  <2>1. client[p].input \in Seq(Frames) /\ client[p].input # <<>>
    BY <1>2 DEF Frame, ClientType
  <2>2. AttachFrames(client[p].input) = {} /\ AttachFrames(sent[p]) = {}
    BY <1>2 DEF OnceInv
  <2>3. AttachFrames(Tail(client[p].input)) = {}
    BY <2>1, <2>2, OnceTaken
  <2> QED
    BY <1>2, <1>3, <1>5, <2>2, <2>3, PeersAssumption DEF RecordInv, OnceInv, FrameHandled
<1>10. TurnInv'
  BY <1>2, <1>8 DEF TurnInv, FrameHandled, TypeOK
<1>11. OutInv(p)'
  <2>1. LastFor(p)' = LastFor(p)
    BY DEF LastFor, FrameHandled
  <2> QED
    BY <1>3, <1>5, <1>8, <2>1 DEF IInv, Output, OutInv
<1>12. ControllerDecidesSize'
  <2>1. controller \in Attached /\ controller # p => client'[controller] = client[controller]
    BY <1>5 DEF Attached, Peers
  <2> QED
    BY <1>2, <1>3, <1>5, <1>8, <2>1 DEF IInv, ControllerDecidesSize
<1> QED
  BY <1>1, <1>6, <1>7, <1>8, <1>9, <1>10, <1>11, <1>12, EditKeeps

LEMMA ResizeKeeps ==
  ASSUME IInv, NEW p \in Peers, Resize(p)
  PROVE  IInv'
<1>1. Head(client[p].input) \in Sizes
  BY DEF Resize, Frame
<1> QED
  BY <1>1, FrameKeeps DEF Resize, IInv, TypeOK

LEMMA InputKeeps ==
  ASSUME IInv, NEW p \in Peers, Input(p)
  PROVE  IInv'
<1>1. client[p] \in ClientType /\ client[p].size \in Sizes
  BY ClientTypeOK DEF IInv, ClientType
<1>2. Taken(p) = [Taken(p) EXCEPT !.size = client[p].size]
  BY <1>1 DEF Taken, ClientType
<1>3. \/ controller' = p /\ ptySize' = client[p].size
      \/ controller # p /\ UNCHANGED sizeVars
  <2>1. CASE controller = p
    <3>1. ptySize = client[p].size
      BY <2>1, PeersAssumption DEF IInv, ControllerDecidesSize
    <3> QED
      BY <2>1, <3>1 DEF Input
  <2> QED
    BY <2>1 DEF Input
<1> QED
  BY <1>1, <1>2, <1>3, FrameKeeps DEF Input

LEMMA AnswerKeeps ==
  ASSUME IInv, NEW p \in Peers, Ask(p) \/ Stop(p)
  PROVE  IInv'
<1>1. PICK stops \in BOOLEAN : Answer(p, stops)
  BY DEF Ask, Stop
<1> DEFINE c == [client[p] EXCEPT !.closing = TRUE, !.stop = stops,
                                  !.input = <<>>, !.out = Append(@, Reply)]
<1>2. /\ RecordInv(p) /\ OnceInv(p) /\ TurnInv /\ TypeOK /\ p # NoPeer
      /\ <<p, "read">> \notin batch /\ receivers = {} /\ conn[p] = "open"
      /\ client[p] \in ClientType /\ ~client[p].closing
  <2>1. ASSUME NEW F, Frame(p, F)
        PROVE /\ RecordInv(p) /\ OnceInv(p) /\ TurnInv /\ TypeOK /\ p # NoPeer
              /\ <<p, "read">> \notin batch /\ receivers = {} /\ conn[p] = "open"
              /\ client[p] \in ClientType /\ ~client[p].closing
    BY <2>1, AtFrame
  <2> QED
    BY <2>1 DEF Ask, Stop
<1>3. p \in ControlPeers /\ p \notin DataPeers /\ client' = [client EXCEPT ![p] = c]
  <2>1. p \in ControlPeers /\ client' = [client EXCEPT ![p] = c]
    BY <1>1 DEF Answer
  <2> QED
    BY <2>1, PeersAssumption
<1>4. client[p].out = <<>> /\ Append(client[p].out, Reply) = <<Reply>>
      /\ <<Reply>> \in Seq(Nat) /\ ~client[p].attached
  <2>1. client[p].out = <<>> /\ ~client[p].attached
    BY <1>2, <1>3 DEF RecordInv, ClientType
  <2>2. Append(<<>>, Reply) = <<Reply>> /\ <<Reply>> \in Seq(Nat)
    BY DEF Reply
  <2> QED
    BY <2>1, <2>2
<1>5. <<>> \in Seq(Frames) /\ AttachFrames(<<>>) = {}
  BY DEF AttachFrames
<1>6. /\ c \in ClientType /\ ~c.attached /\ c.closing /\ c.input = <<>> /\ c.out = <<Reply>>
      /\ c.size = DefaultSize
  <2>1. client[p].size = DefaultSize
    BY <1>2, <1>4 DEF RecordInv
  <2> QED
    BY <1>2, <1>4, <1>5, <2>1 DEF ClientType
<1> HIDE DEF c
<1>7. client'[p] = c /\ \A q \in Peers \ {p} : client'[q] = client[q]
  BY <1>2, <1>3 DEF TypeOK
<1>8. TypeOK'
  <2>1. client' \in [Peers -> ClientType]
    BY <1>2, <1>3, <1>6, ClientTypeOK
  <2> QED
    BY <1>1, <1>2, <2>1 DEF TypeOK, ClientType, Frames, Answer
<1>9. Edits(p) /\ Attached' = Attached /\ p \notin Attached'
  BY <1>1, <1>3, <1>7, <1>6 DEF Answer, Edits, Attached, Peers
<1>10. RecordInv(p)' /\ OnceInv(p)'
  BY <1>1, <1>2, <1>3, <1>5, <1>6, <1>7 DEF RecordInv, OnceInv, Answer
<1>11. TurnInv'
  BY <1>1, <1>2, <1>9 DEF TurnInv, Answer
<1>12. ControllerDecidesSize'
  <2>1. controller \in Attached => client'[controller] = client[controller]
    BY <1>7, <1>9 DEF Attached, Peers
  <2> QED
    BY <1>1, <1>9, <2>1 DEF IInv, ControllerDecidesSize, Answer
<1> QED
  BY <1>8, <1>9, <1>10, <1>11, <1>12, EditKeeps

LEMMA AtRead ==
  ASSUME IInv, NEW p \in Peers
  PROVE  /\ RecordInv(p) /\ OnceInv(p) /\ TurnInv /\ TypeOK /\ p # NoPeer
         /\ client[p] \in ClientType /\ sent[p] \in Seq(Frames)
         /\ client[p].input \in Seq(Frames) /\ client[p].out \in Seq(Nat)
         /\ client[p].attached \in BOOLEAN
BY ClientTypeOK, PeersAssumption DEF IInv, Records, AttachesOnce, ClientType

\* Receiving moves an A from the socket to the input.
LEMMA OnceReceived ==
  ASSUME NEW s \in Seq(Frames), NEW t \in Seq(Frames),
         \A i, j \in AttachFrames(s) : i = j,
         \A i, j \in AttachFrames(t) : i = j,
         AttachFrames(s) # {} => AttachFrames(t) = {}
  PROVE  /\ \A i, j \in AttachFrames(s \o t) : i = j
         /\ AttachFrames(s) = {} /\ AttachFrames(t) = {} => AttachFrames(s \o t) = {}
<1>1. /\ Len(s) \in Nat /\ Len(t) \in Nat /\ Len(s \o t) = Len(s) + Len(t)
      /\ \A i \in 1 .. Len(s) + Len(t) :
           (s \o t)[i] = IF i <= Len(s) THEN s[i] ELSE t[i - Len(s)]
  BY ConcatProperties
<1>2. ASSUME NEW i \in AttachFrames(s \o t)
      PROVE  i \in Int /\ (i \in AttachFrames(s) \/ i - Len(s) \in AttachFrames(t))
  <2>1. i \in 1 .. Len(s) + Len(t) /\ (s \o t)[i] = "A"
    BY <1>1, <1>2 DEF AttachFrames
  <2>2. CASE i <= Len(s)
    BY <1>1, <2>1, <2>2 DEF AttachFrames
  <2>3. CASE i > Len(s)
    <3>1. i - Len(s) \in 1 .. Len(t) /\ t[i - Len(s)] = "A"
      BY <1>1, <2>1, <2>3
    <3> QED
      BY <2>1, <3>1 DEF AttachFrames
  <2> QED
    BY <1>1, <2>1, <2>2, <2>3
<1>3. ASSUME NEW i \in AttachFrames(s \o t), NEW j \in AttachFrames(s \o t)
      PROVE  i = j
  <2>1. CASE AttachFrames(t) = {}
    BY <1>2, <2>1
  <2>2. CASE AttachFrames(s) = {}
    <3>1. i - Len(s) = j - Len(s) /\ i \in Int /\ j \in Int
      BY <1>2, <2>2
    <3> QED
      BY <1>1, <3>1
  <2> QED
    BY <2>1, <2>2
<1> QED
  BY <1>2, <1>3

LEMMA ReadKeeps ==
  ASSUME IInv, NEW p \in Peers, ReadClient(p)
  PROVE  IInv'
<1> DEFINE received == client[p].input \o sent[p]
<1>1. CASE sent[p] = <<>> \/ Len(received) > InLimit
  BY <1>1, AllDrops, DropKeeps
<1>2. CASE ~(sent[p] = <<>> \/ Len(received) > InLimit)
  <2>1. /\ Due(<<p, "read">>) /\ Handled(<<p, "read">>)
        /\ sent' = [sent EXCEPT ![p] = <<>>]
        /\ client' = [client EXCEPT ![p].input = received]
        /\ current' = p /\ budget' = FrameBudget
        /\ UNCHANGED <<conn, eof, accepted, sizeVars, pending>>
        /\ UNCHANGED <<ptyVars, turn, receivers, todo, stopping>>
    BY <1>2 DEF ReadClient
  <2>2. /\ RecordInv(p) /\ OnceInv(p) /\ TurnInv /\ TypeOK /\ p # NoPeer
        /\ client[p] \in ClientType /\ sent[p] \in Seq(Frames)
        /\ client[p].input \in Seq(Frames)
    BY AtRead
  <2>3. /\ received \in Seq(Frames)
        /\ \A i, j \in AttachFrames(received) : i = j
        /\ client[p].attached => AttachFrames(received) = {}
    BY <2>2, OnceReceived, ConcatProperties DEF OnceInv
  <2> DEFINE c == [client[p] EXCEPT !.input = received]
  <2>4. client' = [client EXCEPT ![p] = c]
    BY <2>1
  <2> HIDE DEF received
  <2>5. /\ c \in ClientType /\ c.attached = client[p].attached /\ c.out = client[p].out
        /\ c.seen = client[p].seen /\ c.size = client[p].size /\ c.input = received
        /\ c.stop = client[p].stop /\ c.closing = client[p].closing
    BY <2>2, <2>3 DEF ClientType
  <2> HIDE DEF c
  <2>6. /\ <<p, "read">> \in batch /\ <<p, "read">> \notin batch' /\ batch' \subseteq batch
        /\ turn = "events" /\ current = NoPeer /\ receivers = {}
    BY <2>1 DEF Due, Handled
  <2>7. /\ client'[p] = c /\ sent'[p] = <<>>
        /\ \A q \in Peers \ {p} : client'[q] = client[q] /\ sent'[q] = sent[q]
    BY <2>1, <2>2, <2>4 DEF TypeOK
  <2>8. TypeOK'
    <3>1. client' \in [Peers -> ClientType] /\ FrameBudget \in Nat
      BY <2>2, <2>4, <2>5, ClientTypeOK, LimitsAssumption
    <3>2. sent' \in [Peers -> Seq(Frames)]
      BY <2>1, <2>2, ClientTypeOK
    <3> QED
      BY <2>1, <2>2, <2>6, <3>1, <3>2 DEF TypeOK, ClientType, Frames
  <2>9. Edits(p) /\ Attached' = Attached
    BY <2>1, <2>5, <2>6, <2>7 DEF Edits, Attached, Peers
  <2>10. AttachFrames(<<>>) = {}
    BY DEF AttachFrames
  <2>11. RecordInv(p)' /\ OnceInv(p)'
    BY <2>1, <2>2, <2>3, <2>5, <2>6, <2>7, <2>10 DEF RecordInv, OnceInv
  <2>12. TurnInv'
    BY <2>1, <2>2, <2>6, <2>9 DEF TurnInv
  <2>13. p \in Attached' => OutInv(p)'
    <3>1. LastFor(p)' = LastFor(p)
      BY <2>1 DEF LastFor
    <3> QED
      BY <2>5, <2>7, <2>9, <3>1 DEF IInv, Output, OutInv
  <2>14. ControllerDecidesSize'
    <3>1. \A q \in Attached : client'[q].size = client[q].size
      BY <2>5, <2>7 DEF Attached, Peers
    <3> QED
      BY <2>1, <2>9, <3>1 DEF IInv, ControllerDecidesSize
  <2> QED
    BY <2>8, <2>9, <2>11, <2>12, <2>13, <2>14, EditKeeps
<1> QED
  BY <1>1, <1>2

\* A chunk leaves a queue.
LEMMA WriteKeeps ==
  ASSUME IInv, NEW p \in Peers, WriteClient(p)
  PROVE  IInv'
<1>1. CASE client[p].closing /\ Len(client[p].out) = 1
  BY <1>1, AllDrops, DropKeeps
<1>2. CASE ~(client[p].closing /\ Len(client[p].out) = 1)
  <2> DEFINE c == [client[p] EXCEPT !.out = Tail(@), !.seen = Head(client[p].out)]
  <2>1. /\ Due(<<p, "write">>) /\ Handled(<<p, "write">>)
        /\ conn[p] = "open" /\ client[p].out # <<>>
        /\ client' = [client EXCEPT ![p].out = Tail(@), ![p].seen = Head(client[p].out)]
        /\ UNCHANGED <<socketVars, accepted, sizeVars, pending, stopping>>
        /\ UNCHANGED <<ptyVars, turn, current, budget, receivers, todo>>
    BY <1>2 DEF WriteClient
  <2>2. /\ RecordInv(p) /\ OnceInv(p) /\ TurnInv /\ TypeOK /\ p # NoPeer
        /\ client[p] \in ClientType /\ client[p].out \in Seq(Nat)
    BY AtRead
  <2>3. ~client[p].closing /\ p \in DataPeers /\ client[p].attached
    <3>1. Len(<<Reply>>) = 1
      OBVIOUS
    <3> QED
      BY <1>2, <2>1, <2>2, <3>1 DEF RecordInv, Peers
  <2>4. /\ Head(client[p].out) = client[p].out[1] /\ Head(client[p].out) \in Nat
        /\ Tail(client[p].out) \in Seq(Nat)
        /\ Len(client[p].out) \in Nat \ {0}
        /\ Len(Tail(client[p].out)) = Len(client[p].out) - 1
        /\ \A i \in 1 .. Len(Tail(client[p].out)) :
             Tail(client[p].out)[i] = client[p].out[i + 1]
    BY <2>1, <2>2, HeadTailProperties, EmptySeq
  <2>5. /\ c \in ClientType /\ c.attached = client[p].attached
        /\ c.out = Tail(client[p].out) /\ c.seen = Head(client[p].out)
        /\ c.size = client[p].size /\ c.input = client[p].input
        /\ c.stop = client[p].stop /\ c.closing = client[p].closing
    BY <2>2, <2>4 DEF ClientType
  <2>6. client' = [client EXCEPT ![p] = c]
    BY <2>1, <2>2 DEF TypeOK
  <2> HIDE DEF c
  <2>7. /\ client'[p] = c /\ \A q \in Peers \ {p} : client'[q] = client[q]
    BY <2>2, <2>6 DEF TypeOK
  <2>8. /\ batch' \subseteq batch /\ <<p, "read">> \notin batch' /\ turn = "events"
        /\ receivers = {} /\ current = NoPeer
    BY <2>1 DEF Due, Handled
  <2>9. TypeOK'
    <3>1. client' \in [Peers -> ClientType]
      BY <2>2, <2>5, <2>6, ClientTypeOK
    <3> QED
      BY <2>1, <2>2, <2>8, <3>1 DEF TypeOK, ClientType, Frames
  <2>10. Edits(p) /\ Attached' = Attached /\ p \in Attached
    BY <2>1, <2>3, <2>5, <2>7, <2>8 DEF Edits, Attached, Peers
  <2>11. RecordInv(p)' /\ OnceInv(p)'
    BY <2>1, <2>2, <2>3, <2>5, <2>7, <2>8, PeersAssumption DEF RecordInv, OnceInv
  <2>12. TurnInv'
    BY <2>1, <2>2, <2>8, <2>10 DEF TurnInv
  <2>13. OutInv(p)'
    <3>1. LastFor(p)' = produced /\ LastFor(p) = produced /\ produced \in Nat
      BY <2>1, <2>2, <2>8 DEF LastFor, TypeOK
    <3>2. /\ Chunks(client[p].out, client[p].seen, produced)
          /\ Len(client[p].out) <= OutLimit
          /\ client[p].seen \in Nat /\ OutLimit \in Nat
      BY <2>2, <2>10, <3>1, LimitsAssumption DEF IInv, Output, OutInv, ClientType
    <3>3. c.seen = client[p].seen + 1 /\ Chunks(c.out, c.seen, produced)
      BY <2>1, <2>2, <2>5, <3>1, <3>2, ChunksTail
    <3>4. Len(c.out) <= OutLimit
      BY <2>4, <2>5, <3>2
    <3> QED
      BY <2>7, <3>1, <3>3, <3>4 DEF OutInv
  <2>14. ControllerDecidesSize'
    <3>1. \A q \in Attached : client'[q].size = client[q].size
      BY <2>5, <2>7 DEF Attached, Peers
    <3> QED
      BY <2>1, <2>10, <3>1 DEF IInv, ControllerDecidesSize
  <2> QED
    BY <2>9, <2>10, <2>11, <2>12, <2>13, <2>14, EditKeeps
<1> QED
  BY <1>1, <1>2

\* The chunk just read enters a queue.
LEMMA BroadcastKeeps ==
  ASSUME IInv, NEW p \in DataPeers, Broadcast(p)
  PROVE  IInv'
<1>1. /\ p \in Peers /\ RecordInv(p) /\ OnceInv(p) /\ TurnInv /\ TypeOK /\ p # NoPeer
      /\ client[p] \in ClientType /\ client[p].out \in Seq(Nat)
  BY AtRead DEF Peers
<1>2. Len(client[p].out) \in Nat /\ OutLimit \in Nat
  BY <1>1, LimitsAssumption
<1>3. CASE Len(client[p].out) >= OutLimit
  BY <1>1, <1>3, AllDrops, DropKeeps
<1>4. CASE Len(client[p].out) < OutLimit
  <2> DEFINE c == [client[p] EXCEPT !.out = Append(@, produced)]
  <2>1. /\ p \in receivers /\ receivers' = receivers \ {p}
        /\ client' = [client EXCEPT ![p].out = Append(@, produced)]
        /\ UNCHANGED <<socketVars, accepted, sizeVars, pending>>
        /\ UNCHANGED <<ptyVars, turn, batch, current, budget, todo, stopping>>
    BY <1>4 DEF Broadcast
  <2>2. p \in Attached /\ client[p].attached /\ ~client[p].closing /\ produced \in Nat
    BY <1>1, <2>1, PeersAssumption DEF TurnInv, Attached, RecordInv, TypeOK
  <2>3. /\ Append(client[p].out, produced) \in Seq(Nat)
        /\ Len(Append(client[p].out, produced)) = Len(client[p].out) + 1
        /\ \A i \in 1 .. Len(client[p].out) :
             Append(client[p].out, produced)[i] = client[p].out[i]
        /\ Append(client[p].out, produced)[Len(client[p].out) + 1] = produced
    BY <1>1, <2>2, AppendProperties
  <2>4. /\ c \in ClientType /\ c.attached = client[p].attached
        /\ c.out = Append(client[p].out, produced) /\ c.seen = client[p].seen
        /\ c.size = client[p].size /\ c.input = client[p].input
        /\ c.stop = client[p].stop /\ c.closing = client[p].closing
    BY <1>1, <2>3 DEF ClientType
  <2>5. client' = [client EXCEPT ![p] = c]
    BY <2>1
  <2> HIDE DEF c
  <2>6. client'[p] = c /\ \A q \in Peers \ {p} : client'[q] = client[q]
    BY <1>1, <2>5 DEF TypeOK
  <2>7. TypeOK'
    <3>1. client' \in [Peers -> ClientType]
      BY <1>1, <2>4, <2>5, ClientTypeOK
    <3> QED
      BY <1>1, <2>1, <3>1 DEF TypeOK, ClientType, Frames
  <2>8. Edits(p) /\ Attached' = Attached
    BY <1>1, <2>1, <2>4, <2>6 DEF Edits, Attached, Peers
  <2>9. RecordInv(p)' /\ OnceInv(p)'
    <3>1. p \notin ControlPeers
      BY PeersAssumption
    <3>2. RecordInv(p)'
      BY <1>1, <2>1, <2>2, <2>4, <2>6, <3>1 DEF RecordInv, Blank
    <3>3. OnceInv(p)'
      BY <1>1, <2>1, <2>4, <2>6 DEF OnceInv
    <3> QED
      BY <3>2, <3>3
  <2>10. TurnInv'
    BY <1>1, <2>1, <2>8 DEF TurnInv
  <2>11. OutInv(p)'
    <3>1. LastFor(p)' = produced /\ LastFor(p) = produced - 1
      BY <2>1 DEF LastFor
    <3>2. Chunks(client[p].out, client[p].seen, produced - 1) /\ client[p].seen \in Nat
      BY <1>1, <2>2, <3>1 DEF IInv, Output, OutInv, ClientType
    <3>3. Chunks(c.out, c.seen, produced) /\ Len(c.out) <= OutLimit
      BY <1>1, <1>2, <1>4, <2>2, <2>3, <2>4, <3>2, ChunksAppend
    <3> QED
      BY <2>1, <2>6, <3>1, <3>3 DEF OutInv
  <2>12. ControllerDecidesSize'
    <3>1. \A q \in Attached : client'[q].size = client[q].size
      BY <2>4, <2>6 DEF Attached, Peers
    <3> QED
      BY <2>1, <2>8, <3>1 DEF IInv, ControllerDecidesSize
  <2> QED
    BY <1>1, <2>2, <2>7, <2>8, <2>9, <2>10, <2>11, <2>12, EditKeeps
<1> QED
  BY <1>2, <1>3, <1>4

\* A frame enters a socket.
LEMMA SendKeeps ==
  ASSUME IInv, NEW p \in Peers, NEW f \in Frames, Send(p, f)
  PROVE  IInv'
<1>1. /\ RecordInv(p) /\ OnceInv(p) /\ TurnInv /\ TypeOK /\ p # NoPeer
      /\ client[p] \in ClientType /\ sent[p] \in Seq(Frames)
      /\ client[p].input \in Seq(Frames)
  BY AtRead
<1>2. /\ sent'[p] = Append(sent[p], f) /\ sent' \in [Peers -> Seq(Frames)]
      /\ \A q \in Peers \ {p} : sent'[q] = sent[q]
      /\ client' = client
  BY <1>1, AppendProperties, ClientTypeOK DEF Send
<1>3. TypeOK'
  BY <1>1, <1>2 DEF Send, TypeOK, Frames
<1>4. Edits(p) /\ Attached' = Attached
  BY <1>2 DEF Send, Edits, Attached
<1>5. RecordInv(p)'
  BY <1>1, <1>2 DEF RecordInv, Send
<1>6. OnceInv(p)'
  <2>1. /\ Len(sent[p]) \in Nat /\ Len(sent'[p]) = Len(sent[p]) + 1
        /\ \A i \in 1 .. Len(sent[p]) : sent'[p][i] = sent[p][i]
        /\ sent'[p][Len(sent[p]) + 1] = f
    BY <1>1, <1>2, AppendProperties
  <2>2. CASE f = "A"
    <3>1. ~client[p].attached /\ AttachFrames(sent[p]) = {}
          /\ AttachFrames(client[p].input) = {}
      BY <1>1, <2>2 DEF Send, AttachedOnce, AttachFrames
    <3>2. AttachFrames(sent'[p]) \subseteq {Len(sent[p]) + 1}
      BY <2>1, <3>1 DEF AttachFrames
    <3> QED
      BY <1>2, <3>1, <3>2 DEF OnceInv
  <2>3. CASE f # "A"
    <3>1. AttachFrames(sent'[p]) \subseteq AttachFrames(sent[p])
      BY <2>1, <2>3 DEF AttachFrames
    <3> QED
      BY <1>1, <1>2, <3>1 DEF OnceInv
  <2> QED
    BY <2>2, <2>3
<1>7. TurnInv'
  BY <1>1, <1>4 DEF TurnInv, Send
<1>8. p \in Attached' => OutInv(p)'
  <2>1. LastFor(p)' = LastFor(p)
    BY DEF LastFor, Send
  <2> QED
    BY <1>2, <1>4, <2>1 DEF IInv, Output, OutInv
<1>9. ControllerDecidesSize'
  BY <1>2, <1>4 DEF IInv, ControllerDecidesSize, Send
<1> QED
  BY <1>3, <1>4, <1>5, <1>6, <1>7, <1>8, <1>9, EditKeeps

-----------------------------------------------------------------------------
(* Connections.                                                            *)

LEMMA ConnectKeeps ==
  ASSUME IInv, NEW p \in Peers, Connect(p)
  PROVE  IInv'
<1>1. /\ conn' \in [Peers -> {"none", "queued", "open"}]
      /\ \A q \in Peers : conn'[q] = "open" <=> conn[q] = "open"
  BY ClientTypeOK DEF IInv, Connect
<1>2. TypeOK'
  BY <1>1 DEF IInv, TypeOK, Connect
<1>3. Records'
  BY <1>1 DEF IInv, Records, RecordInv, Connect
<1>4. AttachesOnce'
  BY DEF IInv, AttachesOnce, OnceInv, Connect
<1>5. Attached' = Attached /\ Open(DataPeers)' = Open(DataPeers)
      /\ Open(ControlPeers)' = Open(ControlPeers)
  BY <1>1 DEF Connect, Attached, Open, Peers
<1>6. TurnInv' /\ Places' /\ ControllerDecidesSize'
  BY <1>5 DEF IInv, Connect, TurnInv, Places, ControllerDecidesSize
<1>7. Output'
  BY <1>5 DEF IInv, Connect, Output, OutInv, LastFor
<1> QED
  BY <1>2, <1>3, <1>4, <1>6, <1>7 DEF IInv

LEMMA AcceptDataKeeps ==
  ASSUME IInv, NEW p \in DataPeers, AcceptData(p)
  PROVE  IInv'
<1>1. p \in Peers /\ p \notin ControlPeers
  BY PeersAssumption DEF Peers
<1>2. IsFiniteSet(Open(DataPeers)) /\ Cardinality(Open(DataPeers)) \in Nat
      /\ MaxClients + MaxPending \in Nat
  BY FS_CardinalityType, LimitsAssumption DEF IInv, Places
<1>3. CASE Cardinality(Open(DataPeers)) >= MaxClients + MaxPending
  BY <1>1, <1>3, AllDrops, DropKeeps
<1>4. CASE ~(Cardinality(Open(DataPeers)) >= MaxClients + MaxPending)
  <2>1. /\ conn[p] = "queued" /\ conn' = [conn EXCEPT ![p] = "open"]
        /\ UNCHANGED <<sent, eof, client, accepted, sizeVars, pending, ptyVars, turnVars>>
    BY <1>4 DEF AcceptData
  <2>2. /\ conn' \in [Peers -> {"none", "queued", "open"}] /\ conn'[p] = "open"
        /\ \A q \in Peers \ {p} : conn'[q] = conn[q]
    BY <2>1, <1>1, ClientTypeOK DEF IInv
  <2>3. TypeOK'
    BY <2>1, <2>2 DEF IInv, TypeOK
  <2>4. Records' /\ AttachesOnce'
    <3>1. ASSUME NEW q \in Peers PROVE RecordInv(q)'
      <4>1. RecordInv(q) /\ (conn'[q] # "open" => conn[q] # "open")
        BY <2>2 DEF IInv, Records
      <4> QED
        BY <2>1, <4>1 DEF RecordInv
    <3>2. AttachesOnce'
      BY <2>1 DEF IInv, AttachesOnce, OnceInv
    <3> QED
      BY <3>1, <3>2 DEF Records
  <2>5. Attached' = Attached /\ Open(ControlPeers)' = Open(ControlPeers)
        /\ Open(DataPeers)' = Open(DataPeers) \cup {p} /\ p \notin Open(DataPeers)
    BY <2>1, <2>2, <1>1 DEF Attached, Open, Peers
  <2>6. TurnInv' /\ ControllerDecidesSize'
    BY <2>1, <2>5 DEF IInv, TurnInv, ControllerDecidesSize
  <2>7. Places'
    <3>1. /\ IsFiniteSet(Open(DataPeers) \cup {p})
          /\ Cardinality(Open(DataPeers) \cup {p}) = Cardinality(Open(DataPeers)) + 1
      BY <1>2, <2>5, FS_AddElement
    <3>2. IsFiniteSet(Open(DataPeers)')
          /\ Cardinality(Open(DataPeers)') <= MaxClients + MaxPending
      BY <1>2, <1>4, <2>5, <3>1
    <3> QED
      BY <2>1, <2>5, <3>2 DEF IInv, Places
  <2>8. Output'
    BY <2>1, <2>5 DEF IInv, Output, OutInv, LastFor
  <2> QED
    BY <2>3, <2>4, <2>6, <2>7, <2>8 DEF IInv
<1> QED
  BY <1>3, <1>4

\* The client connected longest leaves, the rest keeps its order, a new one
\* comes last.
LEMMA TailDistinct ==
  ASSUME NEW S, NEW s \in Seq(S), s # <<>>, Distinct(s)
  PROVE  /\ Head(s) \in Range(s) /\ Tail(s) \in Seq(S) /\ Distinct(Tail(s))
         /\ Range(Tail(s)) = Range(s) \ {Head(s)}
<1>1. /\ Len(s) \in Nat \ {0} /\ Tail(s) \in Seq(S) /\ Len(Tail(s)) = Len(s) - 1
      /\ Head(s) = s[1] /\ \A i \in 1 .. Len(Tail(s)) : Tail(s)[i] = s[i + 1]
  BY HeadTailProperties, EmptySeq
<1>2. /\ Range(s) = {s[i] : i \in 1 .. Len(s)}
      /\ Range(Tail(s)) = {Tail(s)[i] : i \in 1 .. Len(Tail(s))}
  BY <1>1, RangeEquality
<1>3. Distinct(Tail(s))
  BY <1>1 DEF Distinct
<1>4. ASSUME NEW i \in 1 .. Len(Tail(s))
      PROVE  Tail(s)[i] \in Range(s) /\ Tail(s)[i] # Head(s)
  <2>1. i + 1 \in 1 .. Len(s) /\ i + 1 # 1 /\ 1 \in 1 .. Len(s)
    BY <1>1
  <2> QED
    BY <1>1, <1>2, <2>1 DEF Distinct
<1>5. ASSUME NEW i \in 1 .. Len(s), s[i] # Head(s) PROVE s[i] \in Range(Tail(s))
  <2>1. i - 1 \in 1 .. Len(Tail(s)) /\ (i - 1) + 1 = i
    BY <1>1, <1>5
  <2> QED
    BY <1>1, <1>2, <2>1
<1>6. Range(Tail(s)) \subseteq Range(s) \ {Head(s)}
  BY <1>2, <1>4
<1>7. Range(s) \ {Head(s)} \subseteq Range(Tail(s))
  BY <1>2, <1>5
<1>8. Head(s) \in Range(s)
  BY <1>1, <1>2
<1> QED
  BY <1>1, <1>3, <1>6, <1>7, <1>8

LEMMA AppendDistinct ==
  ASSUME NEW S, NEW s \in Seq(S), NEW e \in S, Distinct(s), e \notin Range(s)
  PROVE  /\ Append(s, e) \in Seq(S) /\ Distinct(Append(s, e))
         /\ Range(Append(s, e)) = Range(s) \cup {e}
<1>1. /\ Len(s) \in Nat /\ Append(s, e) \in Seq(S) /\ Len(Append(s, e)) = Len(s) + 1
      /\ \A i \in 1 .. Len(s) : Append(s, e)[i] = s[i]
      /\ Append(s, e)[Len(s) + 1] = e
  BY AppendProperties
<1>2. /\ Range(s) = {s[i] : i \in 1 .. Len(s)}
      /\ Range(Append(s, e)) = {Append(s, e)[i] : i \in 1 .. Len(Append(s, e))}
  BY <1>1, RangeEquality
<1>3. \A i \in 1 .. Len(s) : s[i] # e
  BY <1>2
<1>4. Distinct(Append(s, e))
  BY <1>1, <1>3 DEF Distinct
<1>5. ASSUME NEW i \in 1 .. Len(Append(s, e)) PROVE Append(s, e)[i] \in Range(s) \cup {e}
  BY <1>1, <1>2
<1>6. ASSUME NEW i \in 1 .. Len(s) PROVE s[i] \in Range(Append(s, e))
  BY <1>1, <1>2
<1>7. e \in Range(Append(s, e))
  BY <1>1, <1>2
<1>8. Range(Append(s, e)) \subseteq Range(s) \cup {e}
  BY <1>2, <1>5
<1>9. Range(s) \subseteq Range(Append(s, e))
  BY <1>2, <1>6
<1> QED
  BY <1>1, <1>4, <1>7, <1>8, <1>9

LEMMA AcceptControlKeeps ==
  ASSUME IInv, NEW p \in ControlPeers, AcceptControl(p)
  PROVE  IInv'
<1> DEFINE full == Cardinality(Open(ControlPeers)) >= MaxControl
           gone == IF full THEN {Head(accepted)} ELSE {}
           kept == IF full THEN Tail(accepted) ELSE accepted
<1>1. /\ Due(<<"control-listener", "read">>)
      /\ batch' = batch \ {<<"control-listener", "read">>}
      /\ conn[p] = "queued"
      /\ conn' = [q \in Peers |-> IF q = p THEN "open"
                                  ELSE IF q \in gone THEN "none" ELSE conn[q]]
      /\ sent' = [q \in Peers |-> IF q \in gone THEN <<>> ELSE sent[q]]
      /\ eof' = [q \in Peers |-> eof[q] /\ q \notin gone]
      /\ client' = [q \in Peers |-> IF q \in gone THEN Blank ELSE client[q]]
      /\ pending' = pending \ gone
      /\ accepted' = Append(kept, p)
      /\ UNCHANGED <<sizeVars, ptyVars, turn, current, budget, receivers, todo,
                     stopping>>
  BY DEF AcceptControl, Handled
<1>2. /\ TypeOK /\ Records /\ AttachesOnce /\ TurnInv /\ Places /\ Output
      /\ p \in Peers /\ p \notin DataPeers /\ p \notin Open(ControlPeers)
  BY <1>1, PeersAssumption DEF IInv, Peers, Open
<1>3. /\ IsFiniteSet(Open(ControlPeers)) /\ Cardinality(Open(ControlPeers)) \in Nat
      /\ Cardinality(Open(ControlPeers)) <= MaxControl /\ MaxControl \in Nat \ {0}
      /\ accepted \in Seq(ControlPeers) /\ Distinct(accepted)
      /\ Range(accepted) = Open(ControlPeers)
  BY <1>2, FS_CardinalityType, LimitsAssumption DEF Places, TypeOK
<1>4. /\ gone \subseteq Open(ControlPeers) /\ kept \in Seq(ControlPeers) /\ Distinct(kept)
      /\ Range(kept) = Open(ControlPeers) \ gone
      /\ IsFiniteSet(Open(ControlPeers) \ gone)
      /\ Cardinality(Open(ControlPeers) \ gone) \in Nat
      /\ Cardinality(Open(ControlPeers) \ gone) < MaxControl
  <2>1. CASE ~full
    <3>1. gone = {} /\ kept = accepted /\ Open(ControlPeers) \ gone = Open(ControlPeers)
      BY <2>1
    <3>2. Cardinality(Open(ControlPeers)) < MaxControl
      BY <1>3, <2>1
    <3> QED
      BY <1>3, <3>1, <3>2
  <2>2. CASE full
    <3>1. gone = {Head(accepted)} /\ kept = Tail(accepted)
      BY <2>2
    <3>2. accepted # <<>>
      <4>1. Open(ControlPeers) # {}
        BY <1>3, <2>2, FS_EmptySet
      <4>2. Range(<<>>) = {}
        BY DEF Range
      <4> QED
        BY <1>3, <4>1, <4>2
    <3>3. /\ Head(accepted) \in Open(ControlPeers)
          /\ Tail(accepted) \in Seq(ControlPeers) /\ Distinct(Tail(accepted))
          /\ Range(Tail(accepted)) = Open(ControlPeers) \ {Head(accepted)}
      BY <1>3, <3>2, TailDistinct
    <3>4. /\ IsFiniteSet(Open(ControlPeers) \ {Head(accepted)})
          /\ Cardinality(Open(ControlPeers) \ {Head(accepted)})
               = Cardinality(Open(ControlPeers)) - 1
      BY <1>3, <3>3, FS_RemoveElement
    <3>5. /\ Cardinality(Open(ControlPeers)) - 1 < MaxControl
          /\ Cardinality(Open(ControlPeers) \ {Head(accepted)}) \in Nat
      BY <1>3, <3>4, FS_CardinalityType
    <3> QED
      BY <3>1, <3>3, <3>4, <3>5
  <2> QED
    BY <2>1, <2>2
<1> HIDE DEF gone, kept, full
<1>5. /\ gone \subseteq ControlPeers /\ gone \subseteq Peers
      /\ gone \cap DataPeers = {} /\ p \notin gone
      /\ \A q \in gone : conn[q] = "open" /\ <<q, "read">> \notin batch
  BY <1>1, <1>2, <1>4, PeersAssumption, ControlHandled DEF Open, Peers
<1>6. TypeOK'
  <2>1. client' \in [Peers -> ClientType]
    BY <1>1, <1>2, BlankType, ClientTypeOK
  <2>2. /\ conn' \in [Peers -> {"none", "queued", "open"}]
        /\ sent' \in [Peers -> Seq(Frames)] /\ eof' \in [Peers -> BOOLEAN]
    BY <1>1, <1>2, ClientTypeOK
  <2>3. accepted' \in Seq(ControlPeers)
    BY <1>1, <1>4, AppendProperties
  <2> QED
    BY <1>1, <1>2, <2>1, <2>2, <2>3 DEF TypeOK, ClientType, Frames
<1>7. ASSUME NEW q \in Peers PROVE RecordInv(q)' /\ OnceInv(q)'
  <2>1. RecordInv(q) /\ OnceInv(q)
    BY <1>2 DEF Records, AttachesOnce
  <2>2. CASE q \in gone
    <3>1. client'[q] = Blank /\ sent'[q] = <<>> /\ AttachFrames(<<>>) = {}
          /\ <<q, "read">> \notin batch'
      BY <1>1, <1>5, <2>2 DEF AttachFrames
    <3>2. /\ ~Blank.closing /\ ~Blank.stop /\ ~Blank.attached
          /\ Blank.input = <<>> /\ Blank.out = <<>> /\ Blank.size = DefaultSize
      BY DEF Blank
    <3> QED
      BY <3>1, <3>2 DEF RecordInv, OnceInv
  <2>3. CASE q \notin gone
    <3>1. /\ client'[q] = client[q] /\ sent'[q] = sent[q]
          /\ (conn'[q] # "open" => conn[q] # "open")
      BY <1>1, <2>3
    <3>2. RecordInv(q)'
      BY <1>1, <2>1, <3>1 DEF RecordInv
    <3>3. OnceInv(q)'
      BY <2>1, <3>1 DEF OnceInv
    <3> QED
      BY <3>2, <3>3
  <2> QED
    BY <2>2, <2>3
<1>8. \A q \in DataPeers : client'[q] = client[q] /\ conn'[q] = conn[q]
  BY <1>1, <1>2, <1>5 DEF Peers
<1>9. Attached' = Attached /\ Open(DataPeers)' = Open(DataPeers)
  BY <1>8 DEF Attached, Open
<1>10. Open(ControlPeers)' = (Open(ControlPeers) \ gone) \cup {p}
  BY <1>1, <1>5 DEF Open, Peers
<1>11. Places'
  <2>1. p \notin Open(ControlPeers) \ gone
    BY <1>2
  <2>2. Distinct(accepted') /\ Range(accepted') = Open(ControlPeers)'
    BY <1>1, <1>4, <1>10, <2>1, AppendDistinct
  <2>3. /\ IsFiniteSet(Open(ControlPeers)')
        /\ Cardinality(Open(ControlPeers)') = Cardinality(Open(ControlPeers) \ gone) + 1
    <3>1. /\ IsFiniteSet((Open(ControlPeers) \ gone) \cup {p})
          /\ Cardinality((Open(ControlPeers) \ gone) \cup {p})
               = Cardinality(Open(ControlPeers) \ gone) + 1
      BY <1>4, <2>1, FS_AddElement
    <3> QED
      BY <1>10, <3>1
  <2>4. Cardinality(Open(ControlPeers)') <= MaxControl
    BY <1>3, <1>4, <2>3
  <2> QED
    BY <1>2, <1>9, <2>2, <2>3, <2>4 DEF Places
<1>12. TurnInv'
  BY <1>1, <1>2, <1>9 DEF TurnInv
<1>13. Output'
  <2>1. \A q \in Attached : client'[q] = client[q]
    BY <1>8 DEF Attached
  <2> QED
    BY <1>1, <1>2, <1>9, <2>1 DEF Output, OutInv, LastFor
<1>14. ControllerDecidesSize'
  <2>1. \A q \in Attached : client'[q] = client[q]
    BY <1>8 DEF Attached
  <2> QED
    BY <1>1, <1>9, <2>1 DEF IInv, ControllerDecidesSize
<1> QED
  BY <1>6, <1>7, <1>11, <1>12, <1>13, <1>14 DEF IInv, Records, AttachesOnce

-----------------------------------------------------------------------------
(* The PTY and the turn.                                                   *)

LEMMA ReadPtyKeeps ==
  ASSUME IInv, ReadPty
  PROVE  IInv'
<1>1. /\ Due(<<"pty", "read">>) /\ batch' = batch \ {<<"pty", "read">>}
      /\ UNCHANGED <<socketVars, client, accepted, sizeVars, pending, ptyIn,
                     childGone, turn, current, budget, todo>>
  BY DEF ReadPty, Handled
<1>2. /\ TypeOK /\ Records /\ AttachesOnce /\ TurnInv /\ Places /\ Output
      /\ turn = "events" /\ current = NoPeer /\ receivers = {}
  BY <1>1 DEF IInv, Due
<1>3. Records' /\ AttachesOnce'
  <2>1. ASSUME NEW q \in Peers PROVE RecordInv(q)'
    <3>1. RecordInv(q) /\ (<<q, "read">> \in batch' => <<q, "read">> \in batch)
      BY <1>1, <1>2 DEF Records
    <3> QED
      BY <1>1, <3>1 DEF RecordInv
  <2>2. AttachesOnce'
    BY <1>1, <1>2 DEF AttachesOnce, OnceInv
  <2> QED
    BY <2>1, <2>2 DEF Records
<1>4. Attached' = Attached /\ Open(DataPeers)' = Open(DataPeers)
      /\ Open(ControlPeers)' = Open(ControlPeers)
  BY <1>1 DEF Attached, Open
<1>5. Places' /\ ControllerDecidesSize'
  BY <1>1, <1>2, <1>4 DEF IInv, Places, ControllerDecidesSize
<1>6. CASE ~shellOut
  <2>1. stopping' = TRUE /\ UNCHANGED <<shellOut, produced, replay, receivers>>
    BY <1>6 DEF ReadPty
  <2>2. TypeOK' /\ TurnInv'
    BY <1>1, <1>2, <1>4, <2>1 DEF TypeOK, TurnInv
  <2>3. Output'
    BY <1>1, <1>2, <1>4, <2>1 DEF Output, OutInv, LastFor
  <2> QED
    BY <1>3, <1>5, <2>2, <2>3 DEF IInv
<1>7. CASE shellOut
  <2> DEFINE longer == Append(replay, produced + 1)
             over == IF Len(longer) > ReplayLimit THEN Len(longer) - ReplayLimit ELSE 0
  <2>1. /\ shellOut' = FALSE /\ produced' = produced + 1
        /\ replay' = SubSeq(longer, over + 1, Len(longer))
        /\ receivers' = Attached /\ UNCHANGED stopping
    BY <1>7 DEF ReadPty, Remember
  <2>2. /\ replay \in Seq(Nat) /\ produced \in Nat /\ ReplayLimit \in Nat
        /\ Len(replay) \in Nat /\ Len(replay) <= ReplayLimit /\ Len(replay) <= produced
        /\ Chunks(replay, produced - Len(replay), produced)
    BY <1>2, LimitsAssumption DEF TypeOK, Output
  <2>3. /\ longer \in Seq(Nat) /\ Len(longer) = Len(replay) + 1
        /\ produced - Len(replay) \in Nat /\ produced + 1 \in Nat
    BY <2>2, AppendProperties
  <2>4. Chunks(longer, produced - Len(replay), produced + 1)
    <3>1. (produced + 1) - 1 = produced
      BY <2>2
    <3> QED
      BY <2>2, <2>3, <3>1, ChunksAppend
  <2>5. over \in 0 .. Len(longer)
        /\ Len(longer) - over <= ReplayLimit /\ Len(longer) - over <= produced + 1
        /\ (produced - Len(replay)) + over = (produced + 1) - (Len(longer) - over)
    <3>1. CASE Len(longer) > ReplayLimit
      <4>1. over = Len(longer) - ReplayLimit
        BY <3>1
      <4> HIDE DEF longer, over
      <4> QED
        BY <2>2, <2>3, <3>1, <4>1
    <3>2. CASE ~(Len(longer) > ReplayLimit)
      <4>1. over = 0
        BY <3>2
      <4> HIDE DEF longer, over
      <4> QED
        BY <2>2, <2>3, <3>2, <4>1
    <3> QED
      BY <3>1, <3>2
  <2> HIDE DEF longer, over
  <2>6. /\ replay' \in Seq(Nat) /\ Len(replay') = Len(longer) - over
        /\ Chunks(replay', (produced - Len(replay)) + over, produced + 1)
    BY <2>1, <2>3, <2>4, <2>5, ChunksSuffix
  <2>7. TypeOK'
    <3>1. receivers' \subseteq DataPeers
      BY <2>1 DEF Attached
    <3> QED
      BY <1>1, <1>2, <2>1, <2>3, <2>6, <3>1 DEF TypeOK
  <2>8. TurnInv'
    <3>1. \A q \in Peers : <<q, "read">> \notin batch'
      BY <1>1, ClientsHandled
    <3> QED
      BY <1>1, <1>2, <1>4, <2>1, <3>1 DEF TurnInv
  <2>9. Output'
    <3>1. ASSUME NEW q \in Attached' PROVE OutInv(q)'
      <4>1. OutInv(q) /\ LastFor(q) = produced
        BY <1>2, <1>4, <3>1 DEF Output, LastFor
      <4>2. LastFor(q)' = produced
        BY <1>4, <2>1, <2>2, <3>1 DEF LastFor
      <4> QED
        BY <1>1, <4>1, <4>2 DEF OutInv
    <3> QED
      BY <2>1, <2>5, <2>6, <3>1 DEF Output
  <2> QED
    BY <1>3, <1>5, <2>7, <2>8, <2>9 DEF IInv
<1> QED
  BY <1>6, <1>7

LEMMA SelectKeeps ==
  ASSUME IInv, SelectEvents
  PROVE  IInv'
<1>1. /\ turn = "select" /\ turn' = "events"
      /\ UNCHANGED <<socketVars, client, accepted, sizeVars, pending, ptyVars,
                     current, budget, receivers, todo, stopping>>
  BY DEF SelectEvents
<1>2. PICK W \in SUBSET WriteWanted, pty \in SUBSET {"write"} :
         /\ pty # {} => ptyIn > 0
         /\ batch' = (ReadReady \X {"read"}) \cup (W \X {"write"})
                     \cup Listening(ControlPeers, "control-listener")
                     \cup Listening(DataPeers, "data-listener")
                     \cup ({"pty"} \X (pty \cup IF shellOut \/ childGone
                                                THEN {"read"} ELSE {}))
  BY DEF SelectEvents
<1>3. ReadReady \subseteq Peers /\ W \subseteq Peers
  BY DEF ReadReady, WriteWanted, Open
<1>4. batch' \subseteq Events
  <2>1. /\ ReadReady \X {"read"} \subseteq Events /\ W \X {"write"} \subseteq Events
    BY <1>3 DEF Events
  <2>2. /\ Listening(ControlPeers, "control-listener") \subseteq Events
        /\ Listening(DataPeers, "data-listener") \subseteq Events
    BY DEF Events, Listening
  <2>3. {"pty"} \X (pty \cup IF shellOut \/ childGone THEN {"read"} ELSE {}) \subseteq Events
    BY DEF Events
  <2> QED
    BY <1>2, <2>1, <2>2, <2>3
<1>5. ASSUME NEW q \in Peers, <<q, "read">> \in batch' PROVE q \in ReadReady
  <2>1. q \notin {"data-listener", "control-listener", "pty"}
    BY PeersAssumption
  <2> QED
    BY <1>2, <1>5, <2>1 DEF Listening
<1>6. <<"pty", "write">> \in batch' => ptyIn > 0
  <2>1. "pty" \notin W
    BY <1>3, PeersAssumption
  <2> QED
    BY <1>2, <2>1 DEF Listening
<1>7. TypeOK'
  BY <1>1, <1>4 DEF IInv, TypeOK
<1>8. ASSUME NEW q \in Peers PROVE RecordInv(q)'
  <2>1. RecordInv(q) /\ receivers = {} /\ TurnInv
    BY <1>1 DEF IInv, Records, TurnInv
  <2>2. <<q, "read">> \in batch' => conn[q] = "open" /\ ~client[q].closing
    BY <1>5 DEF ReadReady, Open
  <2>3. current # q
    BY <1>1, <2>1, PeersAssumption DEF TurnInv
  <2> QED
    BY <1>1, <2>1, <2>2, <2>3 DEF RecordInv
<1>9. Attached' = Attached
  BY <1>1 DEF Attached
<1>10. TurnInv'
  BY <1>1, <1>6, <1>9 DEF IInv, TurnInv
<1>11. Quiet
  BY <1>1 DEF Quiet
<1> QED
  BY <1>7, <1>8, <1>10, <1>11, QuietKeeps DEF Records

\* The broker is gone, and with it every client.
LEMMA CleanupKeeps ==
  ASSUME IInv, Cleanup
  PROVE  IInv'
<1>1. /\ turn = "select" /\ turn' = "done" /\ accepted' = <<>> /\ pending' = {}
      /\ controller' = NoPeer
      /\ UNCHANGED <<ptySize, ptyVars, batch, current, budget, receivers, todo,
                     stopping>>
      /\ \A q \in Peers : conn'[q] = "none" /\ sent'[q] = <<>> /\ client'[q] = Blank
  BY DEF Cleanup
<1>2. TypeOK /\ TurnInv /\ Output /\ batch = {} /\ receivers = {} /\ current = NoPeer
  BY <1>1 DEF IInv, TurnInv
<1>3. TypeOK'
  <2>1. client' \in [Peers -> ClientType]
    BY BlankType DEF Cleanup
  <2>2. /\ conn' \in [Peers -> {"none", "queued", "open"}]
        /\ sent' \in [Peers -> Seq(Frames)] /\ eof' \in [Peers -> BOOLEAN]
        /\ accepted' \in Seq(ControlPeers)
    BY DEF Cleanup
  <2> QED
    BY <1>1, <1>2, <2>1, <2>2 DEF TypeOK, ClientType, Frames
<1>4. Attached' = {} /\ Open(DataPeers)' = {} /\ Open(ControlPeers)' = {}
  BY <1>1 DEF Attached, Open, Peers, Blank
<1>5. ASSUME NEW q \in Peers PROVE RecordInv(q)' /\ OnceInv(q)'
  <2>1. AttachFrames(<<>>) = {} /\ ~Blank.closing /\ ~Blank.stop /\ ~Blank.attached
        /\ Blank.input = <<>> /\ Blank.out = <<>> /\ Blank.size = DefaultSize
    BY DEF AttachFrames, Blank
  <2>2. client'[q] = Blank /\ sent'[q] = <<>> /\ batch' = {}
    BY <1>1, <1>2
  <2> QED
    BY <2>1, <2>2 DEF RecordInv, OnceInv
<1>6. Places'
  <2>1. Range(<<>>) = {} /\ Distinct(<<>>)
    BY DEF Range, Distinct
  <2> QED
    BY <1>1, <1>4, <2>1, FS_EmptySet, LimitsAssumption DEF Places
<1>7. TurnInv' /\ Output' /\ ControllerDecidesSize'
  BY <1>1, <1>2, <1>4 DEF TurnInv, Output, ControllerDecidesSize
<1> QED
  BY <1>3, <1>5, <1>6, <1>7 DEF IInv, Records, AttachesOnce

\* A step that changes nothing that a client sees, in its own way.
QuietTypes ==
  /\ eof' \in [Peers -> BOOLEAN] /\ pending' \subseteq Peers /\ todo' \subseteq Peers
  /\ shellOut' \in BOOLEAN /\ childGone' \in BOOLEAN /\ stopping' \in BOOLEAN
  /\ turn' \in {"select", "events", "pending", "done"} /\ budget' \in Nat
  /\ current' \in Peers \cup {NoPeer} /\ ptyIn' \in Nat

QuietTurn ==
  /\ batch' \subseteq batch
  /\ \/ current' \in {current, NoPeer}
     \/ batch = {} /\ receivers = {} /\ turn' = "pending"
  /\ \/ turn' = turn
     \/ batch = {} /\ receivers = {} /\ current' = NoPeer
  /\ <<"pty", "write">> \in batch' => ptyIn' > 0

LEMMA QuietStep ==
  ASSUME IInv, Quiet, QuietTypes, QuietTurn
  PROVE  IInv'
<1>1. TypeOK /\ TurnInv /\ Records /\ Attached' = Attached
  BY DEF IInv, Quiet, Attached
<1>2. TypeOK'
  BY <1>1 DEF TypeOK, Quiet, QuietTypes, QuietTurn
<1>3. ASSUME NEW q \in Peers PROVE RecordInv(q)'
  <2>1. /\ RecordInv(q) /\ conn' = conn /\ client' = client
        /\ (<<q, "read">> \in batch' => <<q, "read">> \in batch)
    BY <1>1 DEF Records, Quiet, QuietTurn
  <2>2. current' = q => <<q, "read">> \notin batch'
    BY <2>1, PeersAssumption DEF RecordInv, QuietTurn
  <2> QED
    BY <2>1, <2>2 DEF RecordInv
<1>4. TurnInv'
  BY <1>1 DEF TurnInv, Quiet, QuietTurn
<1> QED
  BY <1>2, <1>3, <1>4, QuietKeeps DEF Records

LEMMA WorldKeeps ==
  ASSUME IInv,
         \/ \E p \in Peers : Disconnect(p)
         \/ ShellWrites \/ ShellExits \/ RequestStop \/ UNCHANGED vars
  PROVE  IInv'
<1>1. TypeOK /\ TurnInv
  BY DEF IInv
<1>2. /\ Quiet /\ eof' \in [Peers -> BOOLEAN]
      /\ shellOut' \in BOOLEAN /\ childGone' \in BOOLEAN /\ stopping' \in BOOLEAN
      /\ UNCHANGED <<pending, ptyIn, turn, batch, current, budget, todo>>
  BY <1>1 DEF TypeOK, Quiet, Disconnect, ShellWrites, ShellExits, RequestStop, vars
<1>3. QuietTypes
  BY <1>1, <1>2 DEF TypeOK, QuietTypes
<1>4. QuietTurn
  BY <1>1, <1>2 DEF TurnInv, QuietTurn
<1> QED
  BY <1>2, <1>3, <1>4, QuietStep

\* Events that turn out to need nothing, and writing to the PTY.
LEMMA EventKeeps ==
  ASSUME IInv, (\E p \in Peers : WriteSkipped(p)) \/ NoMoreData \/ WritePty
  PROVE  IInv'
<1>1. TypeOK /\ TurnInv
  BY DEF IInv
<1>2. /\ Quiet /\ stopping' \in BOOLEAN /\ batch' \subseteq batch
      /\ UNCHANGED <<eof, pending, shellOut, childGone, turn, current, budget, todo>>
  BY <1>1 DEF TypeOK, Quiet, WriteSkipped, NoMoreData, WritePty, Handled
<1>3. ptyIn' \in Nat /\ (<<"pty", "write">> \in batch' => ptyIn' > 0)
  <2>1. CASE WritePty
    <3>1. /\ <<"pty", "write">> \in batch /\ <<"pty", "write">> \notin batch'
          /\ ptyIn' \in {ptyIn, ptyIn - 1}
      BY <2>1 DEF WritePty, Due, Handled
    <3> QED
      BY <1>1, <3>1 DEF TypeOK, TurnInv
  <2>2. CASE ~WritePty
    <3>1. ptyIn' = ptyIn
      BY <2>2 DEF WriteSkipped, NoMoreData
    <3> QED
      BY <1>1, <1>2, <3>1 DEF TypeOK, TurnInv
  <2> QED
    BY <2>1, <2>2
<1>4. QuietTypes
  BY <1>1, <1>2, <1>3 DEF TypeOK, QuietTypes
<1>5. QuietTurn
  BY <1>2, <1>3 DEF QuietTurn
<1> QED
  BY <1>2, <1>4, <1>5, QuietStep

LEMMA ResumeKeeps ==
  ASSUME IInv, NEW p \in Peers, FramesDone(p) \/ Resume(p)
  PROVE  IInv'
<1>1. TypeOK /\ TurnInv /\ FrameBudget \in Nat
  BY LimitsAssumption DEF IInv
<1>2. Quiet
  BY DEF Quiet, FramesDone, Resume
<1>3. QuietTypes
  BY <1>1 DEF TypeOK, QuietTypes, FramesDone, Resume
<1>4. QuietTurn
  BY <1>1 DEF TurnInv, QuietTurn, FramesDone, Resume, Idle
<1> QED
  BY <1>2, <1>3, <1>4, QuietStep

LEMMA TurnKeeps ==
  ASSUME IInv, EventsDone \/ EndTurn
  PROVE  IInv'
<1>1. TypeOK /\ TurnInv
  BY DEF IInv
<1>2. Quiet
  BY DEF Quiet, EventsDone, EndTurn
<1>3. QuietTypes
  BY <1>1 DEF TypeOK, QuietTypes, EventsDone, EndTurn
<1>4. QuietTurn
  BY <1>1 DEF TurnInv, QuietTurn, EventsDone, EndTurn, Idle
<1> QED
  BY <1>2, <1>3, <1>4, QuietStep

-----------------------------------------------------------------------------
(* The invariant and what follows from it.                                 *)

LEMMA InitIInv ==
  ASSUME Init
  PROVE  IInv
<1>1. TypeOK
  <2>1. client \in [Peers -> ClientType]
    BY BlankType DEF Init
  <2>2. sent \in [Peers -> Seq(Frames)] /\ accepted \in Seq(ControlPeers)
        /\ replay \in Seq(Nat) /\ ptySize \in Sizes
    BY SizesAssumption DEF Init
  <2> QED
    BY <2>1, <2>2 DEF Init, TypeOK, ClientType, Frames
<1>2. Attached = {} /\ Open(DataPeers) = {} /\ Open(ControlPeers) = {}
  BY DEF Init, Attached, Open, Peers, Blank
<1>3. ASSUME NEW q \in Peers PROVE RecordInv(q) /\ OnceInv(q)
  <2>1. AttachFrames(<<>>) = {} /\ ~Blank.closing /\ ~Blank.stop /\ ~Blank.attached
        /\ Blank.input = <<>> /\ Blank.out = <<>> /\ Blank.size = DefaultSize
    BY DEF AttachFrames, Blank
  <2>2. client[q] = Blank /\ sent[q] = <<>> /\ batch = {}
    BY DEF Init
  <2> QED
    BY <2>1, <2>2 DEF RecordInv, OnceInv
<1>4. Places
  <2>1. Range(<<>>) = {} /\ Distinct(<<>>)
    BY DEF Range, Distinct
  <2> QED
    BY <1>2, <2>1, FS_EmptySet, LimitsAssumption DEF Init, Places
<1>5. TurnInv /\ ControllerDecidesSize
  BY <1>2 DEF Init, TurnInv, ControllerDecidesSize
<1>6. Output
  <2>1. Len(<<>>) = 0 /\ replay = <<>> /\ produced = 0
    BY DEF Init
  <2>2. Chunks(replay, produced - Len(replay), produced)
    <3>1. Chunks(<<>>, 0, 0)
      BY <2>1 DEF Chunks
    <3> QED
      BY <2>1, <3>1
  <2> QED
    BY <1>2, <2>1, <2>2, LimitsAssumption DEF Output
<1> QED
  BY <1>1, <1>3, <1>4, <1>5, <1>6 DEF IInv, Records, AttachesOnce

\* IInv is kept by every step, wherever in a turn the world moves.
LEMMA NextIInv ==
  ASSUME IInv, [Next]_vars
  PROVE  IInv'
<1>1. CASE World
  <2>1. ASSUME NEW p \in DataPeers, NEW f \in DataFrames, Send(p, f) PROVE IInv'
    BY <2>1, SendKeeps DEF Peers, Frames
  <2>2. ASSUME NEW p \in ControlPeers, NEW f \in ControlFrames, Send(p, f) PROVE IInv'
    BY <2>2, SendKeeps DEF Peers, Frames
  <2> QED
    BY <1>1, <2>1, <2>2, ConnectKeeps, WorldKeeps DEF World
<1>2. CASE Loop
  <2>1. CASE SelectEvents \/ \E p \in ControlPeers : AcceptControl(p)
    BY <2>1, SelectKeeps, AcceptControlKeeps
  <2>2. CASE \E p \in DataPeers : AcceptData(p) \/ Broadcast(p)
    BY <2>2, AcceptDataKeeps, BroadcastKeeps
  <2>3. ASSUME NEW p \in Peers, HandleFrame(p) PROVE IInv'
    <3>1. CASE Attach(p) \/ Resize(p) \/ Input(p)
      BY <3>1, AttachKeeps, ResizeKeeps, InputKeeps
    <3>2. CASE AttachRefused(p) \/ InputRefused(p) \/ BadFrame(p)
      BY <3>2, AllDrops, DropKeeps
    <3>3. CASE Ask(p) \/ Stop(p) \/ FramesDone(p)
      BY <3>3, AnswerKeeps, ResumeKeeps
    <3> QED
      BY <2>3, <3>1, <3>2, <3>3 DEF HandleFrame
  <2>4. ASSUME NEW p \in Peers,
               \/ ReadClient(p) \/ WriteBroken(p) \/ WriteClient(p)
               \/ WriteSkipped(p) \/ Resume(p) \/ Expire(p)
        PROVE  IInv'
    <3>1. CASE ReadClient(p) \/ WriteClient(p)
      BY <3>1, ReadKeeps, WriteKeeps
    <3>2. CASE WriteBroken(p) \/ Expire(p)
      BY <3>2, AllDrops, DropKeeps
    <3>3. CASE WriteSkipped(p) \/ Resume(p)
      BY <3>3, EventKeeps, ResumeKeeps
    <3> QED
      BY <2>4, <3>1, <3>2, <3>3
  <2>5. CASE NoMoreData \/ ReadPty \/ WritePty \/ EventsDone \/ EndTurn \/ Cleanup
    BY <2>5, EventKeeps, ReadPtyKeeps, TurnKeeps, CleanupKeeps
  <2> QED
    BY <1>2, <2>1, <2>2, <2>3, <2>4, <2>5 DEF Loop
<1>3. CASE UNCHANGED vars
  BY <1>3, WorldKeeps
<1> QED
  BY <1>1, <1>2, <1>3 DEF Next

THEOREM Invariance == Spec => []IInv
<1>1. Init => IInv
  BY InitIInv
<1>2. IInv /\ [Next]_vars => IInv'
  BY NextIInv
<1> QED
  BY <1>1, <1>2, PTL DEF Spec

\* Every variable keeps its type.
THEOREM TypeCorrect == Spec => []TypeOK
<1>1. IInv => TypeOK
  BY DEF IInv
<1> QED
  BY <1>1, Invariance, PTL

\* Whoever leaves, and however (Broker._close_client), the PTY has the size
\* of an attached client, and somebody is in control while anybody is.
THEOREM SizeControlled == Spec => []ControllerDecidesSize
<1>1. IInv => ControllerDecidesSize
  BY DEF IInv
<1> QED
  BY <1>1, Invariance, PTL

\* recv is never called on the socket of a client that an earlier event of
\* the turn closed, because of the order that _event_priority gives them.
THEOREM EventsFresh == Spec => []NoStaleEvent
<1>1. IInv => NoStaleEvent
  BY DEF IInv, Records, RecordInv, NoStaleEvent
<1> QED
  BY <1>1, Invariance, PTL

\* The places and queues that validate_resource_budget multiplies are never
\* exceeded.
THEOREM StaysWithinBudget == Spec => []WithinBudget
<1>1. ASSUME IInv PROVE WithinBudget
  <2>1. ASSUME NEW p \in ControlPeers PROVE Len(client[p].out) <= 1
    <3>1. RecordInv(p)
      BY <1>1 DEF IInv, Records, Peers
    <3>2. Len(<<>>) = 0 /\ Len(<<Reply>>) = 1
      OBVIOUS
    <3> QED
      BY <3>1, <3>2 DEF RecordInv
  <2>2. ASSUME NEW p \in DataPeers PROVE Len(client[p].out) <= OutLimit
    <3>1. RecordInv(p)
      BY <1>1 DEF IInv, Records, Peers
    <3>2. CASE client[p].attached
      BY <1>1, <3>2 DEF IInv, Output, OutInv, Attached
    <3>3. CASE ~client[p].attached
      BY <3>1, <3>3, LimitsAssumption DEF RecordInv
    <3> QED
      BY <3>2, <3>3
  <2>3. \A p \in ControlPeers : Len(client[p].out) <= OutLimit
    <3>1. ASSUME NEW p \in ControlPeers PROVE Len(client[p].out) \in Nat
      <4>1. client[p].out \in Seq(Nat)
        BY <1>1, AtRead DEF Peers
      <4> QED
        BY <4>1
    <3> QED
      BY <2>1, <3>1, LimitsAssumption
  <2> QED
    BY <1>1, <2>1, <2>2, <2>3 DEF IInv, Places, WithinBudget, Peers
<1> QED
  BY <1>1, Invariance, PTL

\* However slowly a client reads, its queue is exactly the output between
\* what it was sent and what was read from the PTY.
THEOREM QueueExact == Spec => []QueueIsUnsentOutput
<1>1. ASSUME IInv PROVE QueueIsUnsentOutput
  <2> SUFFICES ASSUME NEW p \in Attached
               PROVE  client[p].out = [i \in 1 .. LastFor(p) - client[p].seen
                                         |-> client[p].seen + i]
    BY DEF QueueIsUnsentOutput, LastFor
  <2>1. Chunks(client[p].out, client[p].seen, LastFor(p)) /\ client[p].out \in Seq(Nat)
    BY <1>1, AtRead DEF IInv, Output, OutInv, Attached, Peers
  <2>2. client[p].out = [i \in 1 .. Len(client[p].out) |-> client[p].out[i]]
    BY <2>1
  <2> QED
    BY <2>1, <2>2 DEF Chunks
<1> QED
  BY <1>1, Invariance, PTL

\* An authenticated stop whose sender waits is dropped only when the broker
\* stops or by AcceptControl (Broker._accept) at the limit; no timeout, no
\* other client and no later frame of its own drops it.
THEOREM StopKept == Spec => StopLostOnlyByEviction
<1> DEFINE Kept == \A p \in ControlPeers :
             client[p].stop /\ ~eof[p] /\ ~client'[p].stop =>
               \/ stopping'
               \/ /\ Cardinality(Open(ControlPeers)) = MaxControl
                  /\ p = Head(accepted)
                  /\ \E q \in ControlPeers : conn[q] = "queued" /\ conn'[q] = "open"
<1>1. ASSUME IInv, [Next]_vars PROVE Kept
  <2> SUFFICES ASSUME NEW p \in ControlPeers, client[p].stop, ~eof[p], ~client'[p].stop
               PROVE  \/ stopping'
                      \/ /\ Cardinality(Open(ControlPeers)) = MaxControl
                         /\ p = Head(accepted)
                         /\ \E q \in ControlPeers : conn[q] = "queued" /\ conn'[q] = "open"
    OBVIOUS
  <2>1. /\ p \in Peers /\ p \notin DataPeers /\ RecordInv(p) /\ TypeOK /\ TurnInv
        /\ client[p].closing /\ client[p].input = <<>> /\ <<p, "read">> \notin batch
        /\ client[p].out = <<Reply>> /\ ~client[p].attached /\ client[p] # Blank
        /\ conn[p] = "open"
    BY <1>1, PeersAssumption DEF IInv, Records, RecordInv, Peers, Blank
  <2>2. client' # client
    BY <2>1
  <2>3. ASSUME NEW q \in Peers, q # p, Close(q) PROVE client'[p] = client[p]
    BY <2>1, <2>3, CloseEffect
  <2>4. \A q \in Peers : \A F : Frame(q, F) => q # p
    BY <2>1 DEF Frame
  <2>5. CASE \E q \in Peers : HandleFrame(q)
    <3>1. PICK q \in Peers : HandleFrame(q)
      BY <2>5
    <3>2. CASE AttachRefused(q) \/ InputRefused(q) \/ BadFrame(q)
      <4>1. q # p /\ Drops(q)
        BY <1>1, <2>4, <3>2, AllDrops DEF AttachRefused, InputRefused, BadFrame
      <4> QED
        BY <4>1, <2>3 DEF Drops
    <3>3. CASE Attach(q) \/ Resize(q) \/ Input(q) \/ Ask(q) \/ Stop(q)
      <4>1. q # p
        BY <2>4, <3>3 DEF Attach, Resize, Input, Ask, Stop
      <4>2. client'[p] = client[p]
        BY <2>1, <3>3, <4>1 DEF Attach, Resize, Input, Ask, Stop, Answer, TypeOK
      <4> QED
        BY <4>2
    <3> QED
      BY <2>2, <3>1, <3>2, <3>3 DEF HandleFrame, FramesDone
  <2>6. CASE \E q \in Peers : ReadClient(q)
    <3>1. PICK q \in Peers : ReadClient(q)
      BY <2>6
    <3>2. q # p
      BY <2>1, <3>1 DEF ReadClient, Due
    <3>3. client'[p] = client[p]
      BY <2>1, <3>1, <3>2, <2>3 DEF ReadClient, TypeOK
    <3> QED
      BY <3>3
  <2>7. CASE \E q \in Peers : WriteBroken(q) \/ WriteClient(q) \/ Expire(q)
    <3>1. PICK q \in Peers : WriteBroken(q) \/ WriteClient(q) \/ Expire(q)
      BY <2>7
    <3>2. CASE q = p
      <4>1. WriteClient(p) /\ Len(client[p].out) = 1
        BY <2>1, <3>1, <3>2 DEF WriteBroken, Expire, Expirable
      <4> QED
        BY <2>1, <4>1 DEF WriteClient
    <3>3. CASE q # p
      <4>1. client'[p] = client[p]
        BY <2>1, <3>1, <3>3, <2>3 DEF WriteBroken, WriteClient, Expire, TypeOK
      <4> QED
        BY <4>1
    <3> QED
      BY <3>2, <3>3
  <2>8. CASE \E q \in DataPeers : AcceptData(q) \/ Broadcast(q)
    <3>1. PICK q \in DataPeers : AcceptData(q) \/ Broadcast(q)
      BY <2>8
    <3>2. q # p /\ q \in Peers
      BY <2>1 DEF Peers
    <3>3. client'[p] = client[p]
      BY <2>1, <3>1, <3>2, <2>3 DEF AcceptData, Broadcast, TypeOK
    <3> QED
      BY <3>3
  <2>9. CASE \E q \in ControlPeers : AcceptControl(q)
    <3>1. PICK q \in ControlPeers : AcceptControl(q)
      BY <2>9
    <3>2. /\ Cardinality(Open(ControlPeers)) >= MaxControl /\ p = Head(accepted)
          /\ conn[q] = "queued" /\ conn'[q] = "open"
      BY <2>1, <3>1 DEF AcceptControl, Peers
    <3>3. /\ Cardinality(Open(ControlPeers)) <= MaxControl /\ MaxControl \in Nat
          /\ Cardinality(Open(ControlPeers)) \in Nat
      BY <1>1, FS_CardinalityType, LimitsAssumption DEF IInv, Places
    <3> QED
      BY <3>2, <3>3
  <2>10. CASE Cleanup
    BY <2>10 DEF Cleanup
  <2>11. CASE World \/ SelectEvents \/ NoMoreData \/ ReadPty \/ WritePty \/ EventsDone
              \/ EndTurn \/ UNCHANGED vars
              \/ \E q \in Peers : WriteSkipped(q) \/ Resume(q)
    BY <2>2, <2>11 DEF World, Connect, Disconnect, Send, ShellWrites, ShellExits, RequestStop,
       SelectEvents, NoMoreData, ReadPty, WritePty, EventsDone, EndTurn, vars, WriteSkipped,
       Resume
  <2> QED
    BY <1>1, <2>5, <2>6, <2>7, <2>8, <2>9, <2>10, <2>11 DEF Next, Loop
<1>2. Kept => [Kept]_vars
  OBVIOUS
<1> QED
  BY <1>1, Invariance, PTL DEF Spec, StopLostOnlyByEviction
-----------------------------------------------------------------------------
(* The loop implements SharedTerminal.                                      *)

\* The replay buffer is as full as it can be, so that who attaches gets all
\* the history there is.
ReplayFull == Len(replay) = IF produced < ReplayLimit THEN produced ELSE ReplayLimit

LEMMA ReplayStaysFull ==
  ASSUME IInv, ReplayFull, [Next]_vars
  PROVE  ReplayFull'
<1>1. /\ replay \in Seq(Nat) /\ produced \in Nat /\ ReplayLimit \in Nat
      /\ Len(replay) \in Nat
  BY LimitsAssumption DEF IInv, TypeOK
<1>2. CASE ReadPty /\ shellOut
  <2> DEFINE longer == Append(replay, produced + 1)
             over == IF Len(longer) > ReplayLimit THEN Len(longer) - ReplayLimit ELSE 0
  <2>1. produced' = produced + 1 /\ replay' = SubSeq(longer, over + 1, Len(longer))
    BY <1>2 DEF ReadPty, Remember
  <2>2. longer \in Seq(Nat) /\ Len(longer) = Len(replay) + 1
    BY <1>1, AppendProperties
  <2> HIDE DEF longer
  <2>3. over \in Nat /\ over <= Len(longer)
    BY <1>1, <2>2
  <2> HIDE DEF over
  <2>4. Len(replay') = Len(longer) - over
    <3>1. \A i \in over + 1 .. Len(longer) : longer[i] \in Nat
      BY <2>2, <2>3
    <3>2. Len(SubSeq(longer, over + 1, Len(longer)))
            = IF over + 1 <= Len(longer) THEN Len(longer) - (over + 1) + 1 ELSE 0
      BY <2>2, <2>3, <3>1, SubSeqProperties
    <3> QED
      BY <1>1, <2>1, <2>2, <2>3, <3>2
  <2> QED
    BY <1>1, <2>1, <2>2, <2>4 DEF ReplayFull, over
<1>3. CASE ~(ReadPty /\ shellOut)
  <2>1. UNCHANGED <<replay, produced>>
    <3>1. CASE World \/ SelectEvents \/ NoMoreData \/ ReadPty \/ WritePty \/ EventsDone
               \/ EndTurn \/ Cleanup \/ UNCHANGED vars
               \/ \E p \in Peers : WriteSkipped(p) \/ Resume(p)
      BY <1>3, <3>1 DEF World, Connect, Disconnect, Send, ShellWrites, ShellExits,
         RequestStop, SelectEvents, NoMoreData, ReadPty, WritePty, EventsDone, EndTurn,
         Cleanup, vars, WriteSkipped, Resume
    <3>2. CASE \E p \in Peers : \/ ReadClient(p) \/ WriteBroken(p) \/ WriteClient(p)
                                \/ Expire(p) \/ AcceptData(p) \/ Broadcast(p)
                                \/ AcceptControl(p)
      BY <3>2 DEF ReadClient, WriteBroken, WriteClient, Expire, AcceptData, Broadcast,
         AcceptControl
    <3>3. CASE \E p \in Peers : HandleFrame(p)
      BY <3>3 DEF HandleFrame, Attach, AttachRefused, Resize, Input, InputRefused,
         BadFrame, Ask, Stop, Answer, FramesDone, Reject
    <3> QED
      BY <1>3, <3>1, <3>2, <3>3 DEF Next, Loop, Peers
  <2> QED
    BY <2>1 DEF ReplayFull
<1> QED
  BY <1>2, <1>3

\* A step that an attached client does not notice ...
Unnoticed ==
  /\ UNCHANGED <<produced, controller, ptySize>> /\ Attached' = Attached
  /\ \A q \in Attached : client'[q].seen = client[q].seen
                         /\ client'[q].size = client[q].size

\* ... is none of the terminal.
LEMMA UnnoticedStutters ==
  ASSUME Unnoticed
  PROVE  UNCHANGED Terminal!terminalVars
BY DEF Unnoticed, Terminal!terminalVars

\* Dropping a client is leaving, if it was attached.
LEMMA DropIsLeaving ==
  ASSUME IInv, NEW p \in Peers, Drops(p)
  PROVE  Unnoticed \/ (p \in DataPeers /\ Terminal!Leave(p))
<1>1. /\ Attached' = Attached \ {p} /\ produced' = produced /\ HandOver(p)
      /\ \A q \in Attached \ {p} : client'[q] = client[q]
  BY CloseEffect DEF Drops, Close, IInv, Attached, Peers
<1>2. CASE p \notin Attached
  <2>1. controller # p
    BY <1>2, PeersAssumption DEF IInv, ControllerDecidesSize
  <2> QED
    BY <1>1, <1>2, <2>1 DEF Unnoticed, HandOver
<1>3. CASE p \in Attached
  <2>1. /\ [q \in Attached |-> client[q].seen]' = [q \in Attached \ {p} |-> client[q].seen]
        /\ [q \in Attached |-> client[q].size]' = [q \in Attached \ {p} |-> client[q].size]
    BY <1>1
  <2>2. Terminal!Leave(p)
    BY <1>1, <1>3, <2>1 DEF Terminal!Leave, HandOver
  <2> QED
    BY <1>3, <2>2 DEF Attached
<1> QED
  BY <1>2, <1>3

\* An attach that is granted is joining.
LEMMA AttachIsJoining ==
  ASSUME IInv, ReplayFull, NEW p \in Peers, Attach(p)
  PROVE  p \in DataPeers /\ Terminal!Join(p)
<1>1. RecordInv(p) /\ OnceInv(p) /\ TypeOK /\ client[p] \in ClientType
  BY AtFrame DEF Attach
<1>2. ~client[p].attached
  <2>1. AttachFrames(client[p].input) # {}
    BY <1>1, OnceTaken DEF Attach, Frame, ClientType, OnceInv
  <2> QED
    BY <1>1, <2>1 DEF OnceInv
<1>3. /\ client' = [client EXCEPT ![p] = [Taken(p) EXCEPT !.attached = TRUE,
                              !.out = @ \o replay, !.seen = produced - Len(replay)]]
      /\ client'[p].attached /\ client'[p].size = client[p].size
      /\ client'[p].seen = produced - Len(replay)
  BY <1>1 DEF Attach, Taken, TypeOK, ClientType
<1>4. \A q \in Peers \ {p} : client'[q] = client[q]
  BY <1>1, <1>3 DEF TypeOK
<1>5. p \in DataPeers /\ p \notin Attached /\ Attached' = Attached \cup {p}
  BY <1>2, <1>3, <1>4 DEF Attach, Attached, Peers
<1>6. client[p].size = DefaultSize
  BY <1>1, <1>2 DEF RecordInv
<1>7. produced - Len(replay) = produced - (IF produced < ReplayLimit THEN produced ELSE ReplayLimit)
  BY DEF ReplayFull
<1>8. [q \in Attached |-> client[q].seen]'
        = [q \in Attached \cup {p} |-> IF q = p THEN produced - Len(replay)
                                       ELSE [r \in Attached |-> client[r].seen][q]]
  BY <1>3, <1>4, <1>5 DEF Attached, Peers
<1>9. [q \in Attached |-> client[q].size]'
        = [q \in Attached \cup {p} |-> IF q = p THEN DefaultSize
                                       ELSE [r \in Attached |-> client[r].size][q]]
  BY <1>3, <1>4, <1>5, <1>6 DEF Attached, Peers
<1>10. /\ produced' = produced
       /\ IF controller = NoPeer THEN controller' = p /\ ptySize' = DefaultSize
                                 ELSE UNCHANGED <<controller, ptySize>>
  BY <1>6 DEF Attach, Taken
<1> QED
  BY <1>5, <1>7, <1>8, <1>9, <1>10 DEF Terminal!Join

\* The frames that count.
LEMMA ResizeIsWanting ==
  ASSUME IInv, NEW p \in Peers, Resize(p)
  PROVE  p \in DataPeers /\ \E s \in Sizes : Terminal!Want(p, s)
<1> DEFINE s == Head(client[p].input)
<1>1. TypeOK /\ client[p] \in ClientType
  BY AtFrame DEF Resize
<1>2. /\ client' = [client EXCEPT ![p] = [Taken(p) EXCEPT !.size = s]]
      /\ client'[p].attached = client[p].attached /\ client'[p].size = s
      /\ client'[p].seen = client[p].seen
  BY <1>1 DEF Resize, Taken, TypeOK, ClientType
<1>3. \A q \in Peers \ {p} : client'[q] = client[q]
  BY <1>1, <1>2 DEF TypeOK
<1>4. /\ p \in Attached /\ s \in Sizes /\ Attached' = Attached
      /\ Attached \subseteq Peers
  BY <1>2, <1>3 DEF Resize, Frame, Attached, Peers
<1> HIDE DEF s
<1>5. [q \in Attached |-> client[q].seen]' = [q \in Attached |-> client[q].seen]
  BY <1>2, <1>3, <1>4 DEF Attached, Peers
<1>6. [q \in Attached |-> client[q].size]'
        = [[q \in Attached |-> client[q].size] EXCEPT ![p] = s]
  <2>1. /\ client'[p].size = s
        /\ \A q \in Attached \ {p} : client'[q].size = client[q].size
    BY <1>2, <1>3, <1>4
  <2> QED
    BY ONLY <1>4, <2>1
<1>7. /\ produced' = produced /\ controller' = controller
      /\ ptySize' = IF controller = p THEN s ELSE ptySize
  BY DEF Resize, s
<1> QED
  BY <1>4, <1>5, <1>6, <1>7 DEF Terminal!Want, Attached

LEMMA InputIsTaking ==
  ASSUME IInv, NEW p \in Peers, Input(p)
  PROVE  p \in DataPeers /\ Terminal!Take(p)
<1>1. TypeOK /\ client[p] \in ClientType
  BY AtFrame DEF Input
<1>2. /\ client' = [client EXCEPT ![p] = Taken(p)]
      /\ client'[p].attached = client[p].attached /\ client'[p].size = client[p].size
      /\ client'[p].seen = client[p].seen
  BY <1>1 DEF Input, Taken, TypeOK, ClientType
<1>3. \A q \in Peers \ {p} : client'[q] = client[q]
  BY <1>1, <1>2 DEF TypeOK
<1>4. p \in Attached /\ Attached' = Attached
  BY <1>2, <1>3 DEF Input, Attached, Peers
<1>5. /\ [q \in Attached |-> client[q].seen]' = [q \in Attached |-> client[q].seen]
      /\ [q \in Attached |-> client[q].size]' = [q \in Attached |-> client[q].size]
  BY <1>2, <1>3, <1>4 DEF Attached, Peers
<1>6. produced' = produced /\ controller' = p /\ ptySize' = client[p].size
  BY <1>4 DEF Input, IInv, ControllerDecidesSize
<1> QED
  BY <1>4, <1>5, <1>6 DEF Terminal!Take, Attached

\* What leaves a queue is the next chunk of its client.
LEMMA WriteIsReading ==
  ASSUME IInv, NEW p \in Peers, WriteClient(p)
  PROVE  \/ Unnoticed
         \/ p \in DataPeers /\ (Terminal!Read(p) \/ Terminal!Leave(p))
<1>1. CASE client[p].closing /\ Len(client[p].out) = 1
  BY <1>1, AllDrops, DropIsLeaving
<1>2. CASE ~(client[p].closing /\ Len(client[p].out) = 1)
  <2>1. /\ RecordInv(p) /\ TypeOK /\ client[p].out # <<>> /\ client[p].out \in Seq(Nat)
        /\ client[p] \in ClientType /\ receivers = {}
    BY <1>2, AtRead DEF WriteClient, Due
  <2>2. p \in Attached
    <3>1. Len(<<Reply>>) = 1
      OBVIOUS
    <3> QED
      BY <1>2, <2>1, <3>1 DEF RecordInv, Attached, Peers, ClientType
  <2>3. Chunks(client[p].out, client[p].seen, produced)
    BY <2>1, <2>2 DEF IInv, Output, OutInv, LastFor
  <2>4. /\ client[p].seen \in Nat /\ produced \in Nat
        /\ client[p].seen < produced /\ Head(client[p].out) = client[p].seen + 1
    <3>1. client[p].seen \in Nat /\ produced \in Nat
      BY <2>1 DEF ClientType, TypeOK
    <3>2. /\ Head(client[p].out) = client[p].seen + 1
          /\ Chunks(Tail(client[p].out), client[p].seen + 1, produced)
      BY <2>1, <2>3, <3>1, ChunksTail
    <3> QED
      BY <3>1, <3>2 DEF Chunks
  <2>5. /\ client' = [client EXCEPT ![p].out = Tail(@), ![p].seen = Head(client[p].out)]
        /\ UNCHANGED <<produced, controller, ptySize>>
    BY <1>2 DEF WriteClient
  <2>6. /\ client'[p].seen = client[p].seen + 1 /\ client'[p].size = client[p].size
        /\ client'[p].attached = client[p].attached
        /\ \A q \in Peers \ {p} : client'[q] = client[q]
    BY <2>1, <2>4, <2>5 DEF TypeOK, ClientType
  <2>7. Attached' = Attached
    BY <2>6 DEF Attached, Peers
  <2>8. /\ [q \in Attached |-> client[q].seen]'
             = [[q \in Attached |-> client[q].seen] EXCEPT ![p] = @ + 1]
        /\ [q \in Attached |-> client[q].size]' = [q \in Attached |-> client[q].size]
    BY <2>2, <2>6, <2>7 DEF Attached, Peers
  <2>9. Terminal!Read(p)
    BY <2>2, <2>4, <2>5, <2>7, <2>8 DEF Terminal!Read
  <2> QED
    BY <2>2, <2>9 DEF Attached
<1> QED
  BY <1>1, <1>2

\* Reading the PTY is printing; the end of the broker is that of the terminal.
LEMMA PtyIsPrinting ==
  ASSUME ReadPty
  PROVE  Unnoticed \/ Terminal!PrintChunk
<1>1. UNCHANGED <<client, controller, ptySize>> /\ Attached' = Attached
  BY DEF ReadPty, Attached
<1>2. produced' = produced \/ produced' = produced + 1
  BY DEF ReadPty
<1> QED
  BY <1>1, <1>2 DEF Unnoticed, Terminal!PrintChunk

LEMMA CleanupIsEnding ==
  ASSUME Cleanup
  PROVE  Terminal!End
<1>1. /\ Attached' = {} /\ controller' = NoPeer /\ UNCHANGED <<produced, ptySize>>
  BY DEF Cleanup, Attached, Peers, Blank
<1> QED
  BY <1>1 DEF Terminal!End

\* A newcomer at the control listener takes the place of another control
\* client, if of any.
LEMMA AcceptUnnoticed ==
  ASSUME IInv, NEW p \in ControlPeers, AcceptControl(p)
  PROVE  Unnoticed
<1>1. /\ IsFiniteSet(Open(ControlPeers)) /\ Cardinality(Open(ControlPeers)) \in Nat
      /\ MaxControl \in Nat \ {0} /\ accepted \in Seq(ControlPeers)
      /\ Range(accepted) = Open(ControlPeers)
  BY FS_CardinalityType, LimitsAssumption DEF IInv, Places, TypeOK
<1>2. ASSUME Cardinality(Open(ControlPeers)) >= MaxControl
      PROVE  Head(accepted) \in ControlPeers
  <2>1. accepted # <<>>
    <3>1. Open(ControlPeers) # {}
      BY <1>1, <1>2, FS_EmptySet
    <3>2. Range(<<>>) = {}
      BY DEF Range
    <3> QED
      BY <1>1, <3>1, <3>2
  <2> QED
    BY <1>1, <2>1, HeadTailProperties
<1>3. \A q \in DataPeers : client'[q] = client[q]
  BY <1>2, PeersAssumption DEF AcceptControl, Peers
<1> QED
  BY <1>3 DEF AcceptControl, Unnoticed, Attached

\* Steps that change at most the input of an attached client.
LEMMA OtherUnnoticed ==
  ASSUME IInv,
         \/ World \/ SelectEvents \/ NoMoreData \/ WritePty \/ EventsDone \/ EndTurn
         \/ UNCHANGED vars
         \/ \E p \in Peers : WriteSkipped(p) \/ Resume(p) \/ FramesDone(p)
  PROVE  Unnoticed
<1>1. UNCHANGED <<client, produced, controller, ptySize>>
  BY DEF World, Connect, Disconnect, Send, ShellWrites, ShellExits, RequestStop,
     SelectEvents, NoMoreData, WritePty, EventsDone, EndTurn, vars, WriteSkipped, Resume,
     FramesDone
<1> QED
  BY <1>1 DEF Unnoticed, Attached

LEMMA EditUnnoticed ==
  ASSUME IInv, NEW p \in Peers,
         \/ Ask(p) \/ Stop(p)
         \/ ReadClient(p) /\ ~(sent[p] = <<>> \/ Len(client[p].input \o sent[p]) > InLimit)
         \/ p \in DataPeers /\ Broadcast(p) /\ Len(client[p].out) < OutLimit
  PROVE  Unnoticed
<1>1. TypeOK /\ client[p] \in ClientType
  BY AtRead
<1>2. /\ UNCHANGED <<produced, controller, ptySize>>
      /\ client'[p].attached = client[p].attached /\ client'[p].size = client[p].size
      /\ client'[p].seen = client[p].seen
      /\ \A q \in Peers \ {p} : client'[q] = client[q]
  <2>1. CASE Ask(p) \/ Stop(p)
    <3>1. PICK stops \in BOOLEAN : Answer(p, stops)
      BY <2>1 DEF Ask, Stop
    <3>2. client' = [client EXCEPT ![p] =
                       [client[p] EXCEPT !.closing = TRUE, !.stop = stops,
                                         !.input = <<>>, !.out = Append(@, Reply)]]
      BY <3>1 DEF Answer
    <3> QED
      BY <1>1, <3>1, <3>2 DEF Answer, TypeOK, ClientType
  <2>2. CASE ReadClient(p) /\ ~(sent[p] = <<>> \/ Len(client[p].input \o sent[p]) > InLimit)
    BY <1>1, <2>2 DEF ReadClient, TypeOK, ClientType
  <2>3. CASE Broadcast(p) /\ Len(client[p].out) < OutLimit
    BY <1>1, <2>3 DEF Broadcast, TypeOK, ClientType
  <2> QED
    BY <2>1, <2>2, <2>3
<1>3. Attached' = Attached
  BY <1>2 DEF Attached, Peers
<1> QED
  BY <1>2, <1>3 DEF Unnoticed, Attached, Peers

LEMMA TerminalStep ==
  ASSUME IInv, ReplayFull, [Next]_vars
  PROVE  Unnoticed \/ Terminal!TerminalNext
<1>1. ASSUME NEW p \in DataPeers,
             Terminal!Leave(p) \/ Terminal!Read(p) \/ Terminal!Take(p) \/ Terminal!Join(p)
             \/ \E s \in Sizes : Terminal!Want(p, s)
      PROVE  Terminal!TerminalNext
  BY <1>1 DEF Terminal!TerminalNext
<1>2. ASSUME NEW p \in Peers, Drops(p) PROVE Unnoticed \/ Terminal!TerminalNext
  BY <1>1, <1>2, DropIsLeaving
<1>3. ASSUME NEW p \in Peers, HandleFrame(p) PROVE Unnoticed \/ Terminal!TerminalNext
  <2>1. CASE Attach(p) \/ Resize(p) \/ Input(p)
    BY <1>1, <2>1, AttachIsJoining, ResizeIsWanting, InputIsTaking
  <2>2. CASE AttachRefused(p) \/ InputRefused(p) \/ BadFrame(p)
    BY <1>2, <2>2, AllDrops
  <2>3. CASE Ask(p) \/ Stop(p) \/ FramesDone(p)
    BY <2>3, EditUnnoticed, OtherUnnoticed
  <2> QED
    BY <1>3, <2>1, <2>2, <2>3 DEF HandleFrame
<1>4. ASSUME NEW p \in Peers, ReadClient(p) \/ WriteBroken(p) \/ WriteClient(p) \/ Expire(p)
      PROVE  Unnoticed \/ Terminal!TerminalNext
  <2>1. CASE ReadClient(p)
    BY <1>2, <2>1, AllDrops, EditUnnoticed
  <2>2. CASE WriteBroken(p) \/ Expire(p)
    BY <1>2, <2>2, AllDrops
  <2>3. CASE WriteClient(p)
    BY <1>1, <2>3, WriteIsReading
  <2> QED
    BY <1>4, <2>1, <2>2, <2>3
<1>5. ASSUME NEW p \in DataPeers, AcceptData(p) \/ Broadcast(p)
      PROVE  Unnoticed \/ Terminal!TerminalNext
  <2>1. p \in Peers
    BY DEF Peers
  <2>2. CASE AcceptData(p)
    <3>1. CASE Cardinality(Open(DataPeers)) >= MaxClients + MaxPending
      BY <1>2, <2>1, <2>2, <3>1, AllDrops
    <3>2. CASE ~(Cardinality(Open(DataPeers)) >= MaxClients + MaxPending)
      BY <2>2, <3>2 DEF AcceptData, Unnoticed, Attached
    <3> QED
      BY <3>1, <3>2
  <2>3. CASE Broadcast(p)
    <3>1. CASE Len(client[p].out) < OutLimit
      BY <2>1, <2>3, <3>1, EditUnnoticed
    <3>2. CASE ~(Len(client[p].out) < OutLimit)
      <4>1. Len(client[p].out) \in Nat /\ OutLimit \in Nat
        <5>1. client[p].out \in Seq(Nat)
          BY <2>1, AtRead
        <5> QED
          BY <5>1, LimitsAssumption
      <4>2. Len(client[p].out) >= OutLimit
        BY <3>2, <4>1
      <4> QED
        BY <1>2, <2>1, <2>3, <4>2, AllDrops
    <3> QED
      BY <3>1, <3>2
  <2> QED
    BY <1>5, <2>2, <2>3
<1>6. CASE ReadPty \/ Cleanup
  BY <1>6, PtyIsPrinting, CleanupIsEnding DEF Terminal!TerminalNext
<1>7. CASE \E p \in ControlPeers : AcceptControl(p)
  BY <1>7, AcceptUnnoticed
<1>8. CASE \/ World \/ SelectEvents \/ NoMoreData \/ WritePty \/ EventsDone \/ EndTurn
           \/ UNCHANGED vars
           \/ \E p \in Peers : WriteSkipped(p) \/ Resume(p)
  BY <1>8, OtherUnnoticed
<1> QED
  BY <1>3, <1>4, <1>5, <1>6, <1>7, <1>8 DEF Next, Loop

\* Whatever sockets, events and queues do, the broker is one terminal that
\* everybody reads from his place in the one output, whose size is that of
\* one of those who look at it (Broker in scripts/pty_broker.py).
THEOREM ImplementsSharedTerminal == Spec => ImplementsTerminal
<1>1. Init => IInv /\ ReplayFull /\ Terminal!TerminalInit
  <2> SUFFICES ASSUME Init PROVE ReplayFull /\ Terminal!TerminalInit
    BY InitIInv
  <2>1. ReplayFull
    BY LimitsAssumption DEF Init, ReplayFull
  <2>2. Attached = {}
    BY DEF Init, Attached, Peers, Blank
  <2>3. produced = 0 /\ controller = NoPeer /\ ptySize = DefaultSize
    BY DEF Init
  <2> QED
    BY <2>1, <2>2, <2>3 DEF Terminal!TerminalInit
<1>2. IInv /\ ReplayFull /\ [Next]_vars => IInv' /\ ReplayFull'
  BY NextIInv, ReplayStaysFull
<1>3. IInv /\ ReplayFull /\ [Next]_vars
        => [Terminal!TerminalNext]_(Terminal!terminalVars)
  BY TerminalStep, UnnoticedStutters
<1> QED
  BY <1>1, <1>2, <1>3, PTL DEF Spec, ImplementsTerminal, Terminal!TerminalSpec
=============================================================================
