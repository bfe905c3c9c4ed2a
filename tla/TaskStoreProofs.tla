-------------------------- MODULE TaskStoreProofs --------------------------
(***************************************************************************)
(* Part 1: IInv is inductive, for any sets of hosts, tasks and names; type *)
(* correctness, BrokerHasRow and the other state properties follow, and so *)
(* do the refinement of TaskLifecycle and OnlyOwnRowChanges.  Part 2 is    *)
(* about names and numbers in the registry file, part 3 about the sockets  *)
(* and cgroups of the brokers.                                             *)
(***************************************************************************)
EXTENDS TaskStore, FiniteSetTheorems, TLAPS

USE DEF brokerVars, hostVars, cmdVars, Step, Edit, Publish, Goto

-----------------------------------------------------------------------------
(* What the steps of every transaction have in common.                     *)

\* The host whose transaction is in progress is the lock holder, and no other
\* host is in a transaction.
LEMMA Holding ==
  ASSUME IInv, NEW h \in Hosts, pc[h] # "idle"
  PROVE  /\ lock = h /\ HostInv(h)
         /\ \A k \in Hosts \ {h} : pc[k] = "idle"
  BY DEF IInv, LockInv, MemInv

\* A holder's step to another point of its transaction preserves what the
\* hosts know if it preserves what this host knows.
LEMMA GoesOn ==
  ASSUME IInv, NEW h \in Hosts, pc[h] # "idle",
         NEW p \in PCs \ {"idle"}, Step(h, p), UNCHANGED lock, HostInv(h)'
  PROVE  LockInv' /\ MemInv'
  <1>1. pc'[h] = p /\ \A k \in Hosts \ {h} : pc'[k] = "idle"
    BY Holding DEF IInv, TypeOK
  <1>2. LockInv'
    BY <1>1, Holding DEF LockInv
  <1>3. ASSUME NEW k \in Hosts \ {h} PROVE HostInv(k)'
    BY <1>1 DEF HostInv, Scanning
  <1> QED
    BY <1>2, <1>3 DEF MemInv

\* A holder that leaves its transaction knows nothing.
LEMMA Releases ==
  ASSUME IInv, NEW h \in Hosts, pc[h] # "idle", Forget(h)
  PROVE  LockInv' /\ MemInv'
  <1>1. \A k \in Hosts : pc'[k] = "idle"
    BY Holding DEF IInv, TypeOK, Forget
  <1>2. LockInv'
    BY <1>1, Holding, NoHostAssumption DEF LockInv, Forget
  <1> QED
    BY <1>1, <1>2 DEF MemInv, HostInv, Scanning

\* A host that begins is the only one in a transaction.
LEMMA BeginsAlone ==
  ASSUME IInv, NEW h \in Hosts, NEW o, NEW p \in PCs \ {"idle"}, NEW t,
         Begin(h, o, p, t), HostInv(h)'
  PROVE  LockInv' /\ MemInv'
  <1>1. pc'[h] = p /\ lock' = h /\ \A k \in Hosts \ {h} : pc'[k] = "idle"
    BY NoHostAssumption DEF IInv, LockInv, TypeOK, Begin
  <1>2. LockInv'
    BY <1>1 DEF LockInv
  <1>3. ASSUME NEW k \in Hosts \ {h} PROVE HostInv(k)'
    BY <1>1 DEF HostInv, Scanning
  <1> QED
    BY <1>2, <1>3 DEF MemInv

\* The rows and the gates keep their invariants while neither the file nor a
\* broker changes and the host is not between a spawn and the gate byte.
LEMMA FileKept ==
  ASSUME IInv, NEW h \in Hosts, UNCHANGED <<registry, phase, gate>>,
         pc[h] \notin {"publishPid", "release"},
         \A k \in Hosts \ {h} : pc'[k] = pc[k] /\ cur'[k] = cur[k]
  PROVE  GateInv' /\ RowInv'
  <1>1. RowInv'
    BY DEF IInv, RowInv, Served
  <1>2. GateInv'
    BY DEF IInv, GateInv
  <1> QED
    BY <1>1, <1>2

\* A quiet step changes only where the holder stands.
LEMMA QuietStep ==
  ASSUME IInv, NEW h \in Hosts,
         pc[h] \notin {"idle", "publishPid", "release"},
         NEW p \in PCs \ {"idle"}, Step(h, p),
         UNCHANGED <<phase, gate, registry, lock, cur, mem, todo>>,
         HostInv(h)'
  PROVE  LockInv' /\ MemInv' /\ GateInv' /\ RowInv'
  <1>1. \A k \in Hosts \ {h} : pc'[k] = pc[k] /\ cur'[k] = cur[k]
    BY DEF IInv, TypeOK
  <1> QED
    BY <1>1, GoesOn, FileKept
-----------------------------------------------------------------------------
(* create                                                                  *)

\* The points of a transaction that works on one row.
Working == PCs \ (Scanning \cup {"idle", "leave"})

\* What a host at such a point knows, unfolded.
LEMMA AtWork ==
  ASSUME IInv, NEW h \in Hosts, pc[h] \in Working
  PROVE  /\ cur[h] \in Tasks /\ CurInv(h, cur[h])
         /\ \A t \in Tasks \ {cur[h]} : mem[h][t] = registry[t]
  BY DEF IInv, MemInv, HostInv, Working

LEMMA CreateStepInv ==
  ASSUME IInv, NEW h \in Hosts, CreateStep(h)
  PROVE  IInv'
  <1> USE DEF IInv
  <1>1. CASE Register(h)
    <2> USE DEF Register
    <2>1. TypeOK'
      BY <1>1 DEF TypeOK, BrokerTypeOK, PCs
    <2>2. /\ cur[h] \in Tasks /\ CurInv(h, cur[h])
          /\ \A t \in Tasks \ {cur[h]} : mem[h][t] = registry[t]
      BY <1>1, AtWork DEF Working, PCs, Scanning
    <2>3. /\ registry[cur[h]] = NoRow /\ mem[h][cur[h]] # NoRow
          /\ phase[cur[h]] = "none" /\ mem[h][cur[h]].state = "starting"
          /\ ~mem[h][cur[h]].ident /\ ~mem[h][cur[h]].pid
      BY <1>1, <2>2 DEF CurInv
    <2>4. pc'[h] = "spawn"
      BY <1>1 DEF TypeOK
    <2>5. HostInv(h)'
      BY <1>1, <2>2, <2>3, <2>4 DEF HostInv, CurInv, Scanning
    <2>6. RowInv'
      BY <1>1, <2>2, <2>3 DEF RowInv, Served
    <2>7. GateInv'
      BY <1>1, <2>2, <2>3, Holding DEF GateInv, PastGate, Starting, Stopping, TypeOK
    <2> QED
      BY <1>1, <2>1, <2>5, <2>6, <2>7, GoesOn DEF PCs
  <1>2. CASE Spawn(h)
    <2> USE DEF Spawn
    <2>1. /\ cur[h] \in Tasks /\ CurInv(h, cur[h])
          /\ \A t \in Tasks \ {cur[h]} : mem[h][t] = registry[t]
      BY <1>2, AtWork DEF Working, PCs, Scanning
    <2>2. /\ registry[cur[h]] # NoRow /\ mem[h][cur[h]] = registry[cur[h]]
          /\ phase[cur[h]] = "none" /\ registry[cur[h]].state = "starting"
          /\ ~registry[cur[h]].ident
      BY <1>2, <2>1 DEF CurInv
    <2>3. mem[h][cur[h]] \in Row
      BY <2>1, <2>2 DEF TypeOK
    <2>4. [mem[h][cur[h]] EXCEPT !.pid = TRUE] \in Row
      BY <2>3 DEF Row
    <2>5. TypeOK'
      BY <1>2, <2>1, <2>4 DEF TypeOK, BrokerTypeOK, PCs, Phases
    <2>6. /\ pc'[h] = "publishPid" /\ phase'[cur[h]] = "gate"
          /\ gate'[cur[h]] = "held"
          /\ mem'[h][cur[h]] = [mem[h][cur[h]] EXCEPT !.pid = TRUE]
          /\ \A t \in Tasks \ {cur[h]} : mem'[h][t] = mem[h][t]
      BY <1>2, <2>1 DEF TypeOK, BrokerTypeOK
    <2>7. /\ mem'[h][cur[h]] # NoRow /\ mem'[h][cur[h]].pid
          /\ ~mem'[h][cur[h]].ident /\ mem'[h][cur[h]].state = "starting"
      BY <2>2, <2>3, <2>4, <2>6, NoRowAssumption DEF Row
    <2>8. HostInv(h)'
      BY <1>2, <2>1, <2>2, <2>6, <2>7 DEF HostInv, CurInv, Scanning
    <2>9. RowInv'
      BY <1>2, <2>1, <2>2 DEF RowInv, Served, TypeOK, BrokerTypeOK
    <2>10. GateInv'
      BY <1>2, <2>1, <2>2, <2>6, Holding
         DEF GateInv, PastGate, Starting, Stopping, TypeOK, BrokerTypeOK
    <2> QED
      BY <1>2, <2>5, <2>8, <2>9, <2>10, GoesOn DEF PCs
  <1>3. CASE SpawnFails(h)
    <2> USE DEF SpawnFails
    <2>1. /\ cur[h] \in Tasks /\ CurInv(h, cur[h])
          /\ \A t \in Tasks \ {cur[h]} : mem[h][t] = registry[t]
      BY <1>3, AtWork DEF Working, PCs, Scanning
    <2>2. /\ registry[cur[h]] # NoRow /\ phase[cur[h]] = "none"
          /\ ~registry[cur[h]].ident /\ ~registry[cur[h]].pid
      BY <1>3, <2>1 DEF CurInv
    <2>3. TypeOK'
      <3>1. BrokerTypeOK'
        <4>1. CASE UNCHANGED <<phase, gate>>
          BY <1>3, <4>1 DEF TypeOK, BrokerTypeOK
        <4>2. CASE ~UNCHANGED <<phase, gate>>
          <5>1. PICK g \in {"closed", "forgotten"} :
                  gate' = [gate EXCEPT ![cur[h]] = g]
            BY <1>3, <4>2
          <5>2. phase' = [phase EXCEPT ![cur[h]] = "gate"]
            BY <1>3, <4>2
          <5> QED
            BY <1>3, <5>1, <5>2 DEF TypeOK, BrokerTypeOK, Phases
        <4> QED
          BY <4>1, <4>2
      <3> QED
        BY <1>3, <2>1, <3>1 DEF TypeOK, PCs
    <2>4. /\ pc'[h] = "unregister" /\ mem'[h][cur[h]] = NoRow
          /\ \A t \in Tasks \ {cur[h]} : mem'[h][t] = mem[h][t]
          /\ \A t \in Tasks \ {cur[h]} : phase'[t] = phase[t] /\ gate'[t] = gate[t]
          /\ \/ phase'[cur[h]] = "none"
             \/ phase'[cur[h]] = "gate" /\ gate'[cur[h]] \in {"closed", "forgotten"}
      BY <1>3, <2>1, <2>2 DEF TypeOK, BrokerTypeOK
    <2>5. HostInv(h)'
      BY <1>3, <2>1, <2>2, <2>4 DEF HostInv, CurInv, Scanning, NotRunning
    <2>6. RowInv'
      BY <1>3, <2>1, <2>2, <2>4 DEF RowInv, Served
    <2>7. GateInv'
      BY <1>3, <2>1, <2>2, <2>4, Holding
         DEF GateInv, PastGate, Starting, Stopping
    <2> QED
      BY <1>3, <2>3, <2>5, <2>6, <2>7, GoesOn DEF PCs
  <1>4. CASE PublishPid(h)
    <2> USE DEF PublishPid
    <2>1. /\ cur[h] \in Tasks /\ CurInv(h, cur[h])
          /\ \A t \in Tasks \ {cur[h]} : mem[h][t] = registry[t]
      BY <1>4, AtWork DEF Working, PCs, Scanning
    <2>2. /\ registry[cur[h]] # NoRow /\ gate[cur[h]] = "held"
          /\ mem[h][cur[h]] # NoRow /\ mem[h][cur[h]].pid
          /\ ~mem[h][cur[h]].ident /\ mem[h][cur[h]].state = "starting"
      BY <1>4, <2>1 DEF CurInv
    <2>3. TypeOK'
      BY <1>4 DEF TypeOK, BrokerTypeOK, PCs
    <2>4. pc'[h] = "release" /\ \A k \in Hosts \ {h} : pc'[k] = pc[k]
      BY <1>4 DEF TypeOK
    <2>5. HostInv(h)'
      BY <1>4, <2>1, <2>2, <2>4 DEF HostInv, CurInv, Scanning
    <2>6. RowInv'
      BY <1>4, <2>1, <2>2 DEF RowInv, Served
    <2>7. GateInv'
      BY <1>4, <2>1, <2>2, <2>4 DEF GateInv
    <2> QED
      BY <1>4, <2>3, <2>5, <2>6, <2>7, GoesOn DEF PCs
  <1>5. CASE PublishPidFails(h)
    <2> USE DEF PublishPidFails
    <2>1. /\ cur[h] \in Tasks /\ CurInv(h, cur[h])
          /\ \A t \in Tasks \ {cur[h]} : mem[h][t] = registry[t]
      BY <1>5, AtWork DEF Working, PCs, Scanning
    <2>2. TypeOK'
      BY <1>5, <2>1 DEF TypeOK, BrokerTypeOK, PCs
    <2>3. /\ pc'[h] = "identify" /\ \A k \in Hosts \ {h} : pc'[k] = pc[k]
          /\ gate'[cur[h]] = "closed"
          /\ \A t \in Tasks \ {cur[h]} : gate'[t] = gate[t]
      BY <1>5, <2>1 DEF TypeOK, BrokerTypeOK
    <2>4. HostInv(h)'
      BY <1>5, <2>1, <2>3 DEF HostInv, CurInv, Scanning
    <2>5. RowInv'
      BY <1>5 DEF RowInv, Served
    <2>6. GateInv'
      BY <1>5, <2>1, <2>3 DEF GateInv, CurInv
    <2> QED
      BY <1>5, <2>2, <2>4, <2>5, <2>6, GoesOn DEF PCs
  <1>6. CASE ReleaseStartup(h)
    <2> USE DEF ReleaseStartup
    <2>1. /\ cur[h] \in Tasks /\ CurInv(h, cur[h])
          /\ \A t \in Tasks \ {cur[h]} : mem[h][t] = registry[t]
      BY <1>6, AtWork DEF Working, PCs, Scanning
    <2>2. TypeOK'
      BY <1>6, <2>1 DEF TypeOK, BrokerTypeOK, PCs
    <2>3. /\ pc'[h] = "await" /\ \A k \in Hosts \ {h} : pc'[k] = pc[k]
          /\ gate'[cur[h]] = "released"
          /\ \A t \in Tasks \ {cur[h]} : gate'[t] = gate[t]
      BY <1>6, <2>1 DEF TypeOK, BrokerTypeOK
    <2>4. HostInv(h)'
      BY <1>6, <2>1, <2>3 DEF HostInv, CurInv, Scanning
    <2>5. RowInv'
      BY <1>6 DEF RowInv, Served
    <2>6. GateInv'
      BY <1>6, <2>1, <2>3 DEF GateInv, CurInv
    <2> QED
      BY <1>6, <2>2, <2>4, <2>5, <2>6, GoesOn DEF PCs
  <1>7. CASE Await(h)
    <2> USE DEF Await
    <2>1. /\ cur[h] \in Tasks /\ CurInv(h, cur[h])
          /\ \A t \in Tasks \ {cur[h]} : mem[h][t] = registry[t]
      BY <1>7, AtWork DEF Working, PCs, Scanning
    <2>2. TypeOK'
      BY <1>7 DEF TypeOK, BrokerTypeOK, PCs
    <2>3. pc'[h] = "hydrate"
      BY <1>7 DEF TypeOK
    <2>4. HostInv(h)'
      BY <1>7, <2>1, <2>3 DEF HostInv, Scanning, CurInv
    <2> QED
      BY <1>7, <2>2, <2>4, QuietStep DEF PCs
  <1>8. CASE AwaitFails(h)
    <2> USE DEF AwaitFails
    <2>1. /\ cur[h] \in Tasks /\ CurInv(h, cur[h])
          /\ \A t \in Tasks \ {cur[h]} : mem[h][t] = registry[t]
      BY <1>8, AtWork DEF Working, PCs, Scanning
    <2>2. TypeOK'
      BY <1>8 DEF TypeOK, BrokerTypeOK, PCs
    <2>3. pc'[h] = "identify"
      BY <1>8 DEF TypeOK
    <2>4. HostInv(h)'
      BY <1>8, <2>1, <2>3 DEF HostInv, Scanning, CurInv
    <2> QED
      BY <1>8, <2>2, <2>4, QuietStep DEF PCs
  <1>9. CASE Hydrate(h)
    <2> USE DEF Hydrate
    <2>1. /\ cur[h] \in Tasks /\ CurInv(h, cur[h])
          /\ \A t \in Tasks \ {cur[h]} : mem[h][t] = registry[t]
      BY <1>9, AtWork DEF Working, PCs, Scanning
    <2>2. mem[h][cur[h]] # NoRow /\ mem[h][cur[h]].pid
      BY <1>9, <2>1 DEF CurInv
    <2> DEFINE row == Hydrated(mem[h][cur[h]])
    <2>3. mem[h][cur[h]] \in Row
      BY <2>1, <2>2 DEF TypeOK
    <2>4. row \in Row /\ row # NoRow
          /\ row.ident /\ row.pid
      BY <2>2, <2>3, NoRowAssumption DEF Row, Hydrated
    <2> HIDE DEF row
    <2>5. TypeOK'
      BY <1>9, <2>1, <2>4 DEF row, TypeOK, BrokerTypeOK, PCs
    <2>6. /\ pc'[h] = "publishRunning" /\ mem'[h][cur[h]] = row
          /\ \A t \in Tasks \ {cur[h]} : mem'[h][t] = mem[h][t]
          /\ \A k \in Hosts \ {h} : pc'[k] = pc[k] /\ cur'[k] = cur[k]
      BY <1>9, <2>1 DEF row, TypeOK
    <2>7. HostInv(h)'
      BY <1>9, <2>1, <2>2, <2>4, <2>6 DEF HostInv, CurInv, Scanning, Served, Serving
    <2> QED
      BY <1>9, <2>5, <2>6, <2>7, GoesOn, FileKept DEF PCs
  <1>10. CASE HydrateFails(h)
    <2> USE DEF HydrateFails
    <2>1. /\ cur[h] \in Tasks /\ CurInv(h, cur[h])
          /\ \A t \in Tasks \ {cur[h]} : mem[h][t] = registry[t]
      BY <1>10, AtWork DEF Working, PCs, Scanning
    <2>2. TypeOK'
      BY <1>10 DEF TypeOK, BrokerTypeOK, PCs
    <2>3. pc'[h] = "identify"
      BY <1>10 DEF TypeOK
    <2>4. HostInv(h)'
      BY <1>10, <2>1, <2>3 DEF HostInv, Scanning, CurInv
    <2> QED
      BY <1>10, <2>2, <2>4, QuietStep DEF PCs
  <1>11. CASE PublishRunning(h)
    <2> USE DEF PublishRunning
    <2>1. /\ cur[h] \in Tasks /\ CurInv(h, cur[h])
          /\ \A t \in Tasks \ {cur[h]} : mem[h][t] = registry[t]
      BY <1>11, AtWork DEF Working, PCs, Scanning
    <2>2. /\ mem[h][cur[h]] # NoRow /\ mem[h][cur[h]].pid
          /\ mem[h][cur[h]].ident /\ Served(cur[h])
      BY <1>11, <2>1 DEF CurInv
    <2>3. TypeOK'
      BY <1>11 DEF Forget, EmptyRegistry, TypeOK, BrokerTypeOK, PCs
    <2>4. RowInv'
      BY <1>11, <2>1, <2>2 DEF RowInv, Served, NotRunning
    <2>5. GateInv'
      BY <1>11, <2>1, <2>2, Holding
         DEF GateInv, NotRunning, Served, PastGate, Starting, Stopping
    <2> QED
      BY <1>11, <2>3, <2>4, <2>5, Releases
  <1>12. CASE PublishRunningFails(h)
    <2> USE DEF PublishRunningFails
    <2>1. /\ cur[h] \in Tasks /\ CurInv(h, cur[h])
          /\ \A t \in Tasks \ {cur[h]} : mem[h][t] = registry[t]
      BY <1>12, AtWork DEF Working, PCs, Scanning
    <2>2. mem[h][cur[h]] # NoRow /\ mem[h][cur[h]].pid /\ mem[h][cur[h]].ident
      BY <1>12, <2>1 DEF CurInv
    <2> DEFINE row == [mem[h][cur[h]] EXCEPT !.state = "starting"]
    <2>3. mem[h][cur[h]] \in Row
      BY <2>1, <2>2 DEF TypeOK
    <2>4. row \in Row /\ row # NoRow
          /\ row.ident /\ row.pid /\ row.state = "starting"
      BY <2>2, <2>3, NoRowAssumption DEF Row, Hydrated
    <2> HIDE DEF row
    <2>5. TypeOK'
      BY <1>12, <2>1, <2>4 DEF row, TypeOK, BrokerTypeOK, PCs
    <2>6. /\ pc'[h] = "record" /\ mem'[h][cur[h]] = row
          /\ \A t \in Tasks \ {cur[h]} : mem'[h][t] = mem[h][t]
          /\ \A k \in Hosts \ {h} : pc'[k] = pc[k] /\ cur'[k] = cur[k]
      BY <1>12, <2>1 DEF row, TypeOK
    <2>7. HostInv(h)'
      BY <1>12, <2>1, <2>2, <2>4, <2>6 DEF HostInv, CurInv, Scanning, Served, Serving
    <2> QED
      BY <1>12, <2>5, <2>6, <2>7, GoesOn, FileKept DEF PCs
  <1>13. CASE Identify(h)
    <2> USE DEF Identify
    <2>1. /\ cur[h] \in Tasks /\ CurInv(h, cur[h])
          /\ \A t \in Tasks \ {cur[h]} : mem[h][t] = registry[t]
      BY <1>13, AtWork DEF Working, PCs, Scanning
    <2>2. mem[h][cur[h]] # NoRow /\ mem[h][cur[h]].pid /\ mem[h][cur[h]].state = "starting"
      BY <1>13, <2>1 DEF CurInv
    <2> DEFINE row == [mem[h][cur[h]] EXCEPT !.ident = TRUE]
    <2>3. mem[h][cur[h]] \in Row
      BY <2>1, <2>2 DEF TypeOK
    <2>4. row \in Row /\ row # NoRow
          /\ row.ident /\ row.pid /\ row.state = "starting"
      BY <2>2, <2>3, NoRowAssumption DEF Row, Hydrated
    <2> HIDE DEF row
    <2>5. TypeOK'
      BY <1>13, <2>1, <2>4 DEF row, TypeOK, BrokerTypeOK, PCs
    <2>6. /\ pc'[h] = "record" /\ mem'[h][cur[h]] = row
          /\ \A t \in Tasks \ {cur[h]} : mem'[h][t] = mem[h][t]
          /\ \A k \in Hosts \ {h} : pc'[k] = pc[k] /\ cur'[k] = cur[k]
      BY <1>13, <2>1 DEF row, TypeOK
    <2>7. CurInv(h, cur[h])'
      <3>1. Served(cur[h])'
        BY <1>13 DEF Served, Serving
      <3>2. /\ registry[cur[h]] # NoRow /\ registry[cur[h]].state = "starting"
            /\ ~registry[cur[h]].ident
        BY <1>13, <2>1 DEF CurInv
      <3> QED
        BY <1>13, <2>4, <2>6, <3>1, <3>2 DEF CurInv
    <2>8. HostInv(h)'
      BY <1>13, <2>1, <2>6, <2>7 DEF HostInv, Scanning
    <2> QED
      BY <1>13, <2>5, <2>6, <2>8, GoesOn, FileKept DEF PCs
  <1>14. CASE IdentifyFails(h)
    <2> USE DEF IdentifyFails
    <2>1. /\ cur[h] \in Tasks /\ CurInv(h, cur[h])
          /\ \A t \in Tasks \ {cur[h]} : mem[h][t] = registry[t]
      BY <1>14, AtWork DEF Working, PCs, Scanning
    <2>2. TypeOK'
      BY <1>14 DEF TypeOK, BrokerTypeOK, PCs
    <2>3. pc'[h] = "probeProcess"
      BY <1>14 DEF TypeOK
    <2>4. HostInv(h)'
      BY <1>14, <2>1, <2>3 DEF HostInv, Scanning, CurInv
    <2> QED
      BY <1>14, <2>2, <2>4, QuietStep DEF PCs
  <1>15. CASE Record(h)
    <2> USE DEF Record
    <2>1. /\ cur[h] \in Tasks /\ CurInv(h, cur[h])
          /\ \A t \in Tasks \ {cur[h]} : mem[h][t] = registry[t]
      BY <1>15, AtWork DEF Working, PCs, Scanning
    <2>2. /\ mem[h][cur[h]] # NoRow /\ mem[h][cur[h]].pid /\ Served(cur[h])
          /\ mem[h][cur[h]].ident /\ mem[h][cur[h]].state = "starting"
      BY <1>15, <2>1 DEF CurInv
    <2>3. TypeOK'
      BY <1>15 DEF TypeOK, BrokerTypeOK, PCs
    <2>4. pc'[h] = "stopVerify" /\ \A k \in Hosts \ {h} : pc'[k] = pc[k]
      BY <1>15 DEF TypeOK
    <2>5. HostInv(h)'
      BY <1>15, <2>1, <2>2, <2>4 DEF HostInv, CurInv, Scanning
    <2>6. RowInv'
      BY <1>15, <2>1, <2>2 DEF RowInv, Served
    <2>7. GateInv'
      BY <1>15, <2>1, <2>2, <2>4 DEF GateInv, Served, PastGate, Starting, Stopping
    <2> QED
      BY <1>15, <2>3, <2>5, <2>6, <2>7, GoesOn DEF PCs
  <1>16. CASE ProbeProcess(h)
    <2> USE DEF ProbeProcess
    <2>1. /\ cur[h] \in Tasks /\ CurInv(h, cur[h])
          /\ \A t \in Tasks \ {cur[h]} : mem[h][t] = registry[t]
      BY <1>16, AtWork DEF Working, PCs, Scanning
    <2>2. TypeOK'
      BY <1>16 DEF TypeOK, BrokerTypeOK, PCs
    <2>3. pc'[h] = "probeSockets"
      BY <1>16 DEF TypeOK
    <2>4. HostInv(h)'
      BY <1>16, <2>1, <2>3 DEF HostInv, Scanning, CurInv, NotRunning, Alive, TypeOK, BrokerTypeOK, Phases
    <2> QED
      BY <1>16, <2>2, <2>4, QuietStep DEF PCs
  <1>17. CASE ProbeSockets(h)
    <2> USE DEF ProbeSockets
    <2>1. /\ cur[h] \in Tasks /\ CurInv(h, cur[h])
          /\ \A t \in Tasks \ {cur[h]} : mem[h][t] = registry[t]
      BY <1>17, AtWork DEF Working, PCs, Scanning
    <2>2. registry[cur[h]] # NoRow /\ NotRunning(cur[h])
      BY <1>17, <2>1 DEF CurInv, NotRunning
    <2>3. TypeOK'
      BY <1>17, <2>1 DEF TypeOK, BrokerTypeOK, PCs
    <2>4. /\ pc'[h] = "unregister" /\ mem'[h][cur[h]] = NoRow
          /\ \A t \in Tasks \ {cur[h]} : mem'[h][t] = mem[h][t]
          /\ \A k \in Hosts \ {h} : pc'[k] = pc[k] /\ cur'[k] = cur[k]
      BY <1>17, <2>1 DEF TypeOK
    <2>5. HostInv(h)'
      BY <1>17, <2>1, <2>2, <2>4 DEF HostInv, CurInv, Scanning, NotRunning
    <2> QED
      BY <1>17, <2>3, <2>4, <2>5, GoesOn, FileKept DEF PCs
  <1>18. CASE ProbeFails(h)
    <2> USE DEF ProbeFails
    <2>1. TypeOK'
      BY <1>18 DEF TypeOK, BrokerTypeOK, PCs
    <2>2. HostInv(h)'
      BY <1>18 DEF HostInv, Scanning, TypeOK
    <2> QED
      BY <1>18, <2>1, <2>2, QuietStep DEF PCs
  <1> QED
    BY <1>1, <1>2, <1>3, <1>4, <1>5, <1>6, <1>7, <1>8, <1>9, <1>10, <1>11,
       <1>12, <1>13, <1>14, <1>15, <1>16, <1>17, <1>18 DEF CreateStep

-----------------------------------------------------------------------------
(* delete                                                                  *)

LEMMA DeleteStepInv ==
  ASSUME IInv, NEW h \in Hosts, DeleteStep(h)
  PROVE  IInv'
  <1> USE DEF IInv
  <1>1. CASE StopVerify(h)
    <2> USE DEF StopVerify
    <2>1. /\ cur[h] \in Tasks /\ CurInv(h, cur[h])
          /\ \A t \in Tasks \ {cur[h]} : mem[h][t] = registry[t]
      BY <1>1, AtWork DEF Working, PCs, Scanning
    <2>2. TypeOK'
      BY <1>1, <2>1 DEF TypeOK, BrokerTypeOK, PCs
    <2>3. pc'[h] = "stopSend"
      BY <1>1 DEF TypeOK
    <2>4. HostInv(h)'
      BY <1>1, <2>1, <2>3 DEF HostInv, Scanning, CurInv
    <2> QED
      BY <1>1, <2>2, <2>4, QuietStep DEF PCs
  <1>2. CASE StopSend(h)
    <2> USE DEF StopSend
    <2>1. /\ cur[h] \in Tasks /\ CurInv(h, cur[h])
          /\ \A t \in Tasks \ {cur[h]} : mem[h][t] = registry[t]
      BY <1>2, AtWork DEF Working, PCs, Scanning
    <2>2. TypeOK'
      BY <1>2, <2>1 DEF TypeOK, BrokerTypeOK, PCs, Commands
    <2>3. pc'[h] = "stopAck"
      BY <1>2 DEF TypeOK
    <2>4. HostInv(h)'
      BY <1>2, <2>1, <2>3 DEF HostInv, Scanning, CurInv
    <2> QED
      BY <1>2, <2>2, <2>4, QuietStep DEF PCs, Commands
  <1>3. CASE StopAcked(h)
    <2> USE DEF StopAcked
    <2>1. /\ cur[h] \in Tasks /\ CurInv(h, cur[h])
          /\ \A t \in Tasks \ {cur[h]} : mem[h][t] = registry[t]
      BY <1>3, AtWork DEF Working, PCs, Scanning
    <2>2. TypeOK'
      BY <1>3, <2>1 DEF TypeOK, BrokerTypeOK, PCs, CollectChild, Commands
    <2>3. pc'[h] = "stopPoll"
      BY <1>3 DEF TypeOK
    <2>4. HostInv(h)'
      BY <1>3, <2>1, <2>3 DEF HostInv, Scanning, CurInv
    <2> QED
      BY <1>3, <2>2, <2>4, QuietStep DEF PCs, CollectChild, Commands
  <1>4. CASE StopConfirmed(h)
    <2> USE DEF StopConfirmed
    <2>1. /\ cur[h] \in Tasks /\ CurInv(h, cur[h])
          /\ \A t \in Tasks \ {cur[h]} : mem[h][t] = registry[t]
      BY <1>4, AtWork DEF Working, PCs, Scanning
    <2>2. registry[cur[h]] # NoRow /\ NotRunning(cur[h])
      BY <1>4, <2>1 DEF CurInv, NotRunning, NothingLeft, Alive, TypeOK, BrokerTypeOK, Phases
    <2>3. TypeOK'
      BY <1>4, <2>1 DEF TypeOK, BrokerTypeOK, PCs
    <2>4. /\ pc'[h] = "unregister" /\ mem'[h][cur[h]] = NoRow
          /\ \A t \in Tasks \ {cur[h]} : mem'[h][t] = mem[h][t]
          /\ \A k \in Hosts \ {h} : pc'[k] = pc[k] /\ cur'[k] = cur[k]
      BY <1>4, <2>1 DEF TypeOK
    <2>5. HostInv(h)'
      BY <1>4, <2>1, <2>2, <2>4 DEF HostInv, CurInv, Scanning, NotRunning
    <2> QED
      BY <1>4, <2>3, <2>4, <2>5, GoesOn, FileKept DEF PCs
  <1>5. CASE StopFails(h)
    <2> USE DEF StopFails
    <2>1. /\ cur[h] \in Tasks /\ CurInv(h, cur[h])
          /\ \A t \in Tasks \ {cur[h]} : mem[h][t] = registry[t]
      BY <1>5, AtWork DEF Working, PCs, Scanning
    <2> DEFINE p == AfterFailedStop(h)
    <2>2. TypeOK'
      BY <1>5 DEF TypeOK, BrokerTypeOK, PCs, AfterFailedStop
    <2>3. p \in {"recoverCheck", "leave"} /\ pc' = [pc EXCEPT ![h] = p]
      BY <1>5 DEF AfterFailedStop
    <2> HIDE DEF p
    <2>4. pc'[h] = p
      BY <2>3 DEF TypeOK
    <2>5. HostInv(h)'
      BY <1>5, <2>1, <2>3, <2>4 DEF HostInv, Scanning, CurInv
    <2> QED
      BY <1>5, <2>2, <2>3, <2>5, QuietStep DEF PCs
  <1>6. CASE StopRejected(h)
    <2> USE DEF StopRejected
    <2>1. /\ cur[h] \in Tasks /\ CurInv(h, cur[h])
          /\ \A t \in Tasks \ {cur[h]} : mem[h][t] = registry[t]
      BY <1>6, AtWork DEF Working, PCs, Scanning
    <2> DEFINE p == AfterFailedStop(h)
    <2>2. TypeOK'
      BY <1>6 DEF TypeOK, BrokerTypeOK, PCs, AfterFailedStop, CollectChild, Commands
    <2>3. p \in {"recoverCheck", "leave"} /\ pc' = [pc EXCEPT ![h] = p]
      BY <1>6 DEF AfterFailedStop
    <2> HIDE DEF p
    <2>4. pc'[h] = p
      BY <2>3 DEF TypeOK
    <2>5. HostInv(h)'
      BY <1>6, <2>1, <2>3, <2>4 DEF HostInv, Scanning, CurInv
    <2> QED
      BY <1>6, <2>2, <2>3, <2>5, QuietStep DEF PCs, CollectChild, Commands
  <1>7. CASE RecoverStart(h)
    <2> USE DEF RecoverStart
    <2>1. /\ cur[h] \in Tasks /\ CurInv(h, cur[h])
          /\ \A t \in Tasks \ {cur[h]} : mem[h][t] = registry[t]
      BY <1>7, AtWork DEF Working, PCs, Scanning
    <2>2. TypeOK'
      BY <1>7, <2>1 DEF TypeOK, BrokerTypeOK, PCs, Commands, Recovering
    <2>3. pc'[h] = "recoverWait"
      BY <1>7 DEF TypeOK
    <2>4. HostInv(h)'
      BY <1>7, <2>1, <2>3 DEF HostInv, Scanning, CurInv
    <2> QED
      BY <1>7, <2>2, <2>4, QuietStep DEF PCs, Commands, Recovering
  <1>8. CASE RecoverRefused(h)
    <2> USE DEF RecoverRefused
    <2>1. /\ cur[h] \in Tasks /\ CurInv(h, cur[h])
          /\ \A t \in Tasks \ {cur[h]} : mem[h][t] = registry[t]
      BY <1>8, AtWork DEF Working, PCs, Scanning
    <2>2. TypeOK'
      BY <1>8, <2>1 DEF TypeOK, BrokerTypeOK, PCs
    <2>3. pc'[h] = "leave"
      BY <1>8 DEF TypeOK
    <2>4. HostInv(h)'
      BY <1>8, <2>1, <2>3 DEF HostInv, Scanning, CurInv
    <2> QED
      BY <1>8, <2>2, <2>4, QuietStep DEF PCs
  <1>9. CASE RecoverConfirmed(h)
    <2> USE DEF RecoverConfirmed
    <2>1. /\ cur[h] \in Tasks /\ CurInv(h, cur[h])
          /\ \A t \in Tasks \ {cur[h]} : mem[h][t] = registry[t]
      BY <1>9, AtWork DEF Working, PCs, Scanning
    <2>2. registry[cur[h]] # NoRow /\ NotRunning(cur[h])
      BY <1>9, <2>1 DEF CurInv, NotRunning, NothingLeft, Alive, TypeOK, BrokerTypeOK, Phases
    <2>3. TypeOK'
      BY <1>9, <2>1 DEF TypeOK, BrokerTypeOK, PCs, CollectChild, Commands
    <2>4. /\ pc'[h] = "unregister" /\ mem'[h][cur[h]] = NoRow
          /\ \A t \in Tasks \ {cur[h]} : mem'[h][t] = mem[h][t]
          /\ \A k \in Hosts \ {h} : pc'[k] = pc[k] /\ cur'[k] = cur[k]
      BY <1>9, <2>1 DEF TypeOK
    <2>5. HostInv(h)'
      BY <1>9, <2>1, <2>2, <2>4 DEF HostInv, CurInv, Scanning, NotRunning
    <2> QED
      BY <1>9, <2>3, <2>4, <2>5, GoesOn, FileKept DEF PCs
  <1>10. CASE RecoverFails(h)
    <2> USE DEF RecoverFails
    <2>1. /\ cur[h] \in Tasks /\ CurInv(h, cur[h])
          /\ \A t \in Tasks \ {cur[h]} : mem[h][t] = registry[t]
      BY <1>10, AtWork DEF Working, PCs, Scanning
    <2>2. TypeOK'
      BY <1>10, <2>1 DEF TypeOK, BrokerTypeOK, PCs, CollectChild, Commands
    <2>3. pc'[h] = "leave"
      BY <1>10 DEF TypeOK
    <2>4. HostInv(h)'
      BY <1>10, <2>1, <2>3 DEF HostInv, Scanning, CurInv
    <2> QED
      BY <1>10, <2>2, <2>4, QuietStep DEF PCs, CollectChild, Commands
  <1>11. CASE Unregister(h)
    <2> USE DEF Unregister
    <2>1. /\ cur[h] \in Tasks /\ CurInv(h, cur[h])
          /\ \A t \in Tasks \ {cur[h]} : mem[h][t] = registry[t]
      BY <1>11, AtWork DEF Working, PCs, Scanning
    <2>2. mem[h][cur[h]] = NoRow /\ NotRunning(cur[h])
      BY <1>11, <2>1 DEF CurInv
    <2>3. TypeOK'
      BY <1>11 DEF Forget, EmptyRegistry, TypeOK, BrokerTypeOK, PCs
    <2>4. RowInv'
      BY <1>11, <2>1, <2>2 DEF RowInv, Served, NotRunning
    <2>5. GateInv'
      BY <1>11, <2>1, <2>2, Holding
         DEF GateInv, NotRunning, Served, PastGate, Starting, Stopping
    <2> QED
      BY <1>11, <2>3, <2>4, <2>5, Releases
  <1>12. CASE Leave(h)
    <2> USE DEF Leave
    <2>1. TypeOK'
      BY <1>12 DEF Forget, EmptyRegistry, TypeOK, BrokerTypeOK, PCs
    <2>2. \A k \in Hosts \ {h} : pc'[k] = pc[k] /\ cur'[k] = cur[k]
      BY <1>12 DEF Forget, TypeOK
    <2> QED
      BY <1>12, <2>1, <2>2, Releases, FileKept
  <1> QED
    BY <1>1, <1>2, <1>3, <1>4, <1>5, <1>6, <1>7, <1>8, <1>9, <1>10, <1>11,
       <1>12 DEF DeleteStep

-----------------------------------------------------------------------------
(* list                                                                    *)

\* What list knows while it scans, unfolded.
LEMMA AtScan ==
  ASSUME IInv, NEW h \in Hosts, pc[h] \in Scanning
  PROVE  /\ \A t \in Tasks : ScanInv(h, t)
         /\ pc[h] # "writeList" => TodoInv(h)
         /\ pc[h] = "scanProcess" =>
              /\ cur[h] \in Tasks \ todo[h]
              /\ mem[h][cur[h]] = registry[cur[h]]
              /\ registry[cur[h]] # NoRow
              /\ registry[cur[h]].state = "starting"
  BY DEF IInv, MemInv, HostInv, Scanning

LEMMA ListStepInv ==
  ASSUME IInv, NEW h \in Hosts, ListStep(h)
  PROVE  IInv'
  <1> USE DEF IInv
  <1>1. ASSUME NEW t \in Tasks, ScanHydrate(h, t) PROVE IInv'
    <2> USE DEF ScanHydrate
    <2> DEFINE row == Hydrated(mem[h][t])
    <2>1. (\A s \in Tasks : ScanInv(h, s)) /\ TodoInv(h)
      BY <1>1, AtScan DEF Scanning
    <2>2. /\ mem[h][t] = registry[t] /\ registry[t] # NoRow
          /\ registry[t].state = "starting" /\ registry[t].pid
      BY <1>1, <2>1 DEF TodoInv
    <2>3. row \in Row
      <3>1. mem[h][t] \in Row
        BY <2>2 DEF TypeOK
      <3> QED
        BY <3>1 DEF Row, Hydrated
    <2> HIDE DEF row
    <2>4. TypeOK'
      BY <1>1, <2>3 DEF row, TypeOK, BrokerTypeOK
    <2>5. /\ mem'[h][t] = Hydrated(registry[t]) /\ todo'[h] = todo[h] \ {t}
          /\ \A s \in Tasks \ {t} : mem'[h][s] = mem[h][s]
      BY <1>1, <2>2 DEF TypeOK
    <2>6. Served(t)'
      BY <1>1 DEF Serving, Served
    <2>7. ASSUME NEW s \in Tasks PROVE ScanInv(h, s)'
      <3>1. CASE s = t
        BY <1>1, <2>2, <2>5, <2>6, <3>1 DEF ScanInv, Hydrated
      <3>2. CASE s # t
        BY <1>1, <2>1, <2>5, <3>2 DEF ScanInv, Hydrated, NotRunning, Served
      <3> QED
        BY <3>1, <3>2
    <2>8. TodoInv(h)'
      BY <1>1, <2>1, <2>5 DEF TodoInv, TypeOK
    <2>9. HostInv(h)'
      BY <1>1, <2>7, <2>8 DEF HostInv, Scanning
    <2>10. LockInv' /\ MemInv'
      <3>1. LockInv'
        BY <1>1 DEF LockInv
      <3>2. ASSUME NEW k \in Hosts \ {h} PROVE HostInv(k)'
        BY <1>1, Holding DEF HostInv, Scanning
      <3> QED
        BY <2>9, <3>1, <3>2 DEF MemInv
    <2> QED
      BY <1>1, <2>4, <2>10, FileKept
  <1>2. ASSUME NEW t \in Tasks, ScanKeep(h, t) PROVE IInv'
    <2> USE DEF ScanKeep
    <2>1. (\A s \in Tasks : ScanInv(h, s)) /\ TodoInv(h)
      BY <1>2, AtScan DEF Scanning
    <2>2. TypeOK'
      BY <1>2 DEF TypeOK, BrokerTypeOK
    <2>3. \A s \in Tasks : ScanInv(h, s)'
      BY <1>2, <2>1 DEF ScanInv, Hydrated, NotRunning, Served
    <2>4. TodoInv(h)'
      BY <1>2, <2>1 DEF TodoInv, TypeOK
    <2>5. HostInv(h)'
      BY <1>2, <2>3, <2>4 DEF HostInv, Scanning
    <2>6. LockInv' /\ MemInv'
      <3>1. LockInv'
        BY <1>2 DEF LockInv
      <3>2. ASSUME NEW k \in Hosts \ {h} PROVE HostInv(k)'
        BY <1>2, Holding DEF HostInv, Scanning
      <3> QED
        BY <2>5, <3>1, <3>2 DEF MemInv
    <2> QED
      BY <1>2, <2>2, <2>6, FileKept
  <1>3. ASSUME NEW t \in Tasks, ScanLookup(h, t) PROVE IInv'
    <2> USE DEF ScanLookup
    <2>1. (\A s \in Tasks : ScanInv(h, s)) /\ TodoInv(h)
      BY <1>3, AtScan DEF Scanning
    <2>2. TypeOK'
      BY <1>3 DEF TypeOK, BrokerTypeOK, PCs
    <2>3. /\ pc'[h] = "scanProcess" /\ cur'[h] = t /\ todo'[h] = todo[h] \ {t}
          /\ \A k \in Hosts \ {h} : pc'[k] = pc[k] /\ cur'[k] = cur[k]
      BY <1>3 DEF TypeOK
    <2>4. \A s \in Tasks : ScanInv(h, s)'
      BY <1>3, <2>1 DEF ScanInv, Hydrated, NotRunning, Served
    <2>5. TodoInv(h)'
      BY <1>3, <2>1, <2>3 DEF TodoInv
    <2>6. HostInv(h)'
      BY <1>3, <2>1, <2>3, <2>4, <2>5 DEF HostInv, TodoInv, Scanning
    <2> QED
      BY <1>3, <2>2, <2>3, <2>6, GoesOn, FileKept DEF PCs
  <1>4. CASE ScanProcess(h)
    <2> USE DEF ScanProcess
    <2>1. /\ \A s \in Tasks : ScanInv(h, s)
          /\ TodoInv(h) /\ cur[h] \in Tasks \ todo[h]
          /\ mem[h][cur[h]] = registry[cur[h]] /\ registry[cur[h]] # NoRow
          /\ registry[cur[h]].state = "starting"
      BY <1>4, AtScan DEF Scanning
    <2>2. TypeOK'
      <3>1. mem' = mem \/ mem' = [mem EXCEPT ![h][cur[h]] = NoRow]
        BY <1>4
      <3>2. mem' \in [Hosts -> [Tasks -> Row \cup {NoRow}]]
        BY <2>1, <3>1 DEF TypeOK
      <3> QED
        BY <1>4, <3>2 DEF TypeOK, BrokerTypeOK, PCs
    <2>3. /\ pc'[h] = "scan"
          /\ \A s \in Tasks \ {cur[h]} : mem'[h][s] = mem[h][s]
          /\ \A k \in Hosts \ {h} : pc'[k] = pc[k] /\ cur'[k] = cur[k]
      BY <1>4, <2>1 DEF TypeOK
    <2>4. \/ mem'[h][cur[h]] = registry[cur[h]]
          \/ mem'[h][cur[h]] = NoRow /\ ~(registry[cur[h]].pid /\ Alive(cur[h]))
      BY <1>4, <2>1 DEF TypeOK
    \* A broker that still waits at its gate belongs to another holder.
    <2>5. ~(registry[cur[h]].pid /\ Alive(cur[h])) => NotRunning(cur[h])
      BY <1>4, <2>1, Holding DEF GateInv, Alive, NotRunning, TypeOK, BrokerTypeOK,
         Phases
    <2>6. ASSUME NEW s \in Tasks PROVE ScanInv(h, s)'
      <3>1. CASE s = cur[h]
        BY <1>4, <2>1, <2>4, <2>5, <3>1 DEF ScanInv, NotRunning
      <3>2. CASE s # cur[h]
        BY <1>4, <2>1, <2>3, <3>2 DEF ScanInv, Hydrated, NotRunning, Served
      <3> QED
        BY <3>1, <3>2
    <2>7. TodoInv(h)'
      BY <1>4, <2>1, <2>3 DEF TodoInv, TypeOK
    <2>8. HostInv(h)'
      BY <2>3, <2>6, <2>7 DEF HostInv, Scanning
    <2> QED
      BY <1>4, <2>2, <2>3, <2>8, GoesOn, FileKept DEF PCs
  <1>5. CASE ScanDone(h)
    <2> USE DEF ScanDone
    <2> DEFINE p == IF mem[h] = registry THEN "leave" ELSE "writeList"
    <2>1. \A s \in Tasks : ScanInv(h, s)
      BY <1>5, AtScan DEF Scanning
    <2>2. p \in {"leave", "writeList"} /\ pc' = [pc EXCEPT ![h] = p]
      BY <1>5
    <2> HIDE DEF p
    <2>3. TypeOK'
      BY <1>5, <2>2 DEF TypeOK, BrokerTypeOK, PCs
    <2>4. pc'[h] = p
      BY <2>2 DEF TypeOK
    <2>5. \A s \in Tasks : ScanInv(h, s)'
      BY <1>5, <2>1 DEF ScanInv, Hydrated, NotRunning, Served
    <2>6. HostInv(h)'
      BY <2>2, <2>4, <2>5 DEF HostInv, Scanning
    <2> QED
      BY <1>5, <2>2, <2>3, <2>6, QuietStep DEF PCs
  <1>6. CASE WriteList(h)
    <2> USE DEF WriteList
    <2>1. \A s \in Tasks : ScanInv(h, s)
      BY <1>6, AtScan DEF Scanning
    <2>2. TypeOK'
      BY <1>6 DEF Forget, EmptyRegistry, TypeOK, BrokerTypeOK, PCs
    <2>3. ASSUME NEW s \in Tasks
          PROVE  \/ registry'[s] = registry[s]
                 \/ registry'[s] = NoRow /\ NotRunning(s)
                 \/ /\ registry'[s] # NoRow /\ registry'[s].pid
                    /\ registry'[s].ident /\ Served(s)
      <3>1. registry'[s] = mem[h][s] /\ ScanInv(h, s)
        BY <1>6, <2>1
      <3>2. CASE /\ registry[s] # NoRow /\ registry[s].pid /\ Served(s)
                 /\ mem[h][s] = Hydrated(registry[s])
        <4>1. registry[s] \in Row
          BY <3>2 DEF TypeOK
        <4>2. /\ Hydrated(registry[s]) \in Row
              /\ Hydrated(registry[s]).pid /\ Hydrated(registry[s]).ident
          BY <3>2, <4>1 DEF Row, Hydrated
        <4> QED
          BY <3>1, <3>2, <4>2, NoRowAssumption
      <3> QED
        BY <3>1, <3>2 DEF ScanInv
    <2>4. RowInv'
      BY <1>6, <2>3 DEF RowInv, Served
    <2>5. GateInv'
      BY <1>6, <2>3, Holding
         DEF GateInv, NotRunning, Served, PastGate, Starting, Stopping
    <2> QED
      BY <1>6, <2>2, <2>4, <2>5, Releases
  <1> QED
    BY <1>1, <1>2, <1>3, <1>4, <1>5, <1>6 DEF ListStep

-----------------------------------------------------------------------------
(* the beginning of a transaction                                          *)

LEMMA BeginsInv ==
  ASSUME IInv, NEW h \in Hosts, Begins(h)
  PROVE  IInv'
  <1> USE DEF IInv
  <1>1. CASE BeginList(h)
    <2> USE DEF BeginList, Begin
    <2>1. TypeOK'
      BY <1>1 DEF TypeOK, BrokerTypeOK, PCs, StartingRows, Present
    <2>2. /\ pc'[h] = "scan" /\ mem'[h] = registry /\ registry' = registry
          /\ todo'[h] = StartingRows(registry)
          /\ \A k \in Hosts \ {h} : pc'[k] = pc[k] /\ cur'[k] = cur[k]
      BY <1>1 DEF TypeOK
    <2>3. HostInv(h)'
      BY <2>2 DEF HostInv, ScanInv, TodoInv, Scanning, StartingRows, Present
    <2>4. GateInv' /\ RowInv'
      BY <1>1, <2>2, FileKept
    <2> QED
      BY <1>1, <2>1, <2>3, <2>4, BeginsAlone DEF PCs
  <1>2. ASSUME NEW t \in Tasks, BeginDelete(h, t) PROVE IInv'
    <2> USE DEF BeginDelete
    <2> DEFINE p == IF registry[t].ident /\ ~Alive(t)
                    THEN "recoverCheck" ELSE "stopVerify"
    <2>1. p \in {"recoverCheck", "stopVerify"} /\ Begin(h, "delete", p, t)
      BY <1>2
    <2> HIDE DEF p
    <2>2. TypeOK'
      BY <1>2, <2>1 DEF Begin, TypeOK, BrokerTypeOK, PCs
    <2>3. /\ pc'[h] = p /\ mem'[h] = registry /\ registry' = registry
          /\ cur'[h] = t
          /\ \A k \in Hosts \ {h} : pc'[k] = pc[k] /\ cur'[k] = cur[k]
      BY <1>2, <2>1 DEF Begin, TypeOK
    <2>4. HostInv(h)'
      BY <1>2, <2>1, <2>3 DEF HostInv, CurInv, Scanning
    <2>5. GateInv' /\ RowInv'
      BY <1>2, <2>1, <2>3, FileKept DEF Begin
    <2> QED
      BY <1>2, <2>1, <2>2, <2>4, <2>5, BeginsAlone DEF PCs
  <1>3. ASSUME NEW t \in Tasks, NEW n \in Names, BeginCreate(h, t, n)
        PROVE  IInv'
    <2> USE DEF BeginCreate, Fresh
    <2> DEFINE row == [state |-> "starting", pid |-> FALSE, ident |-> FALSE,
                       name |-> n, open |-> TRUE]
    <2>1. /\ row \in Row /\ row # NoRow /\ row.state = "starting"
          /\ ~row.ident /\ ~row.pid
      <3>1. row \in Row
        BY DEF Row
      <3> QED
        BY <3>1, NoRowAssumption
    <2> HIDE DEF row
    <2>2. mem' = [mem EXCEPT ![h] = [registry EXCEPT ![t] = row]]
      BY <1>3, Zenon DEF row
    <2>3. TypeOK'
      <3>1. mem' \in [Hosts -> [Tasks -> Row \cup {NoRow}]]
        BY <2>1, <2>2 DEF TypeOK
      <3> QED
        BY <1>3, <3>1 DEF Begin, TypeOK, BrokerTypeOK, PCs
    <2>4. /\ pc'[h] = "register" /\ cur'[h] = t /\ mem'[h][t] = row
          /\ \A s \in Tasks \ {t} : mem'[h][s] = registry[s]
          /\ \A k \in Hosts \ {h} : pc'[k] = pc[k] /\ cur'[k] = cur[k]
      <3>1. mem'[h] = [registry EXCEPT ![t] = row]
        BY <2>2 DEF TypeOK
      <3> QED
        BY <1>3, <3>1 DEF Begin, TypeOK
    <2>5. HostInv(h)'
      BY <1>3, <2>1, <2>4 DEF HostInv, CurInv, Scanning
    <2>6. GateInv' /\ RowInv'
      BY <1>3, <2>4, FileKept DEF Begin
    <2> QED
      BY <1>3, <2>3, <2>5, <2>6, BeginsAlone DEF PCs
  <1>4. ASSUME NEW t \in Tasks, registry[t] # NoRow, UNCHANGED <<brokerVars,
               registry, todo, verify, cmdVars>>, Begin(h, "edit", "edit", t),
               NEW row \in Row, mem' = [mem EXCEPT ![h] =
                                         [registry EXCEPT ![t] = row]],
               row.state = registry[t].state, row.pid = registry[t].pid,
               row.ident = registry[t].ident
        PROVE  IInv'
    <2>1. TypeOK'
      BY <1>4 DEF Begin, TypeOK, BrokerTypeOK, PCs
    <2>2. /\ pc'[h] = "edit" /\ cur'[h] = t /\ mem'[h][t] = row
          /\ \A s \in Tasks \ {t} : mem'[h][s] = registry[s]
          /\ \A k \in Hosts \ {h} : pc'[k] = pc[k] /\ cur'[k] = cur[k]
      BY <1>4 DEF Begin, TypeOK
    <2>3. HostInv(h)'
      BY <1>4, <2>2, NoRowAssumption DEF HostInv, CurInv, Scanning
    <2>4. GateInv' /\ RowInv'
      BY <1>4, <2>2, FileKept DEF Begin
    <2> QED
      BY <1>4, <2>1, <2>3, <2>4, BeginsAlone DEF PCs
  <1>5. ASSUME NEW t \in Tasks, NEW n \in Names, BeginRename(h, t, n)
        PROVE  IInv'
    <2> DEFINE row == [registry[t] EXCEPT !.name = n]
    <2>1. registry[t] \in Row
      BY <1>5 DEF BeginRename, TypeOK
    <2>2. /\ row \in Row /\ row.state = registry[t].state
          /\ row.pid = registry[t].pid /\ row.ident = registry[t].ident
      BY <2>1 DEF Row
    <2>3. mem' = [mem EXCEPT ![h] = [registry EXCEPT ![t] = row]]
      BY <1>5, <2>1 DEF BeginRename, TypeOK
    <2> QED
      BY <1>4, <1>5, <2>2, <2>3 DEF BeginRename
  <1>6. ASSUME NEW t \in Tasks, NEW o \in BOOLEAN, BeginSetOpen(h, t, o)
        PROVE  IInv'
    <2> DEFINE row == [registry[t] EXCEPT !.open = o]
    <2>1. registry[t] \in Row
      BY <1>6 DEF BeginSetOpen, TypeOK
    <2>2. /\ row \in Row /\ row.state = registry[t].state
          /\ row.pid = registry[t].pid /\ row.ident = registry[t].ident
      BY <2>1 DEF Row
    <2>3. mem' = [mem EXCEPT ![h] = [registry EXCEPT ![t] = row]]
      BY <1>6, <2>1 DEF BeginSetOpen, TypeOK
    <2> QED
      BY <1>4, <1>6, <2>2, <2>3 DEF BeginSetOpen
  <1> QED
    BY <1>1, <1>2, <1>3, <1>5, <1>6 DEF Begins

-----------------------------------------------------------------------------
(* rename and setOpen write; faults                                        *)

LEMMA WriteEditInv ==
  ASSUME IInv, NEW h \in Hosts, WriteEdit(h)
  PROVE  IInv'
  <1> USE DEF IInv, WriteEdit
  <1>1. /\ cur[h] \in Tasks /\ CurInv(h, cur[h])
        /\ \A t \in Tasks \ {cur[h]} : mem[h][t] = registry[t]
    BY AtWork DEF Working, PCs, Scanning
  <1>2. /\ mem[h][cur[h]] # NoRow /\ registry[cur[h]] # NoRow
        /\ mem[h][cur[h]].state = registry[cur[h]].state
        /\ mem[h][cur[h]].pid = registry[cur[h]].pid
        /\ mem[h][cur[h]].ident = registry[cur[h]].ident
    BY <1>1 DEF CurInv
  <1>3. TypeOK'
    BY DEF Forget, EmptyRegistry, TypeOK, BrokerTypeOK, PCs
  <1>4. RowInv'
    BY <1>1, <1>2 DEF RowInv, Served
  <1>5. GateInv'
    BY <1>1, <1>2, Holding DEF GateInv
  <1> QED
    BY <1>3, <1>4, <1>5, Releases

LEMMA FaultInv ==
  ASSUME IInv, NEW h \in Hosts, Fault(h)
  PROVE  IInv'
  <1> USE DEF IInv
  <1>1. CASE WriteFails(h) \/ ScanThrows(h)
    <2> USE DEF WriteFails, ScanThrows
    <2>1. TypeOK'
      BY <1>1 DEF TypeOK, BrokerTypeOK, PCs
    <2>2. HostInv(h)'
      BY <1>1 DEF HostInv, Scanning, TypeOK
    <2> QED
      BY <1>1, <2>1, <2>2, QuietStep DEF PCs
  <1>2. CASE HostCrash(h)
    <2> USE DEF HostCrash
    <2>1. TypeOK'
      <3>1. (cmd' = [cmd EXCEPT ![h] = "none"] \/ cmd' = cmd)
            /\ (cmdTask' = [cmdTask EXCEPT ![h] = NoTask] \/ cmdTask' = cmdTask)
        BY <1>2 DEF CollectChild
      <3>2. gate' \in [Tasks -> {"none", "held", "released", "closed", "forgotten"}]
        BY <1>2 DEF TypeOK, BrokerTypeOK
      <3> QED
        BY <1>2, <3>1, <3>2
           DEF Forget, EmptyRegistry, TypeOK, BrokerTypeOK, PCs, Commands
    <2>2. \A t \in Tasks : \/ gate'[t] = gate[t] /\ ~(cur[h] = t /\ gate[t] = "held")
                           \/ gate'[t] = "closed" /\ gate[t] = "held" /\ cur[h] = t
      BY <1>2
    <2>3. RowInv'
      BY <1>2 DEF RowInv, Served
    <2>4. GateInv'
      BY <1>2, <2>2, Holding DEF GateInv
    <2> QED
      BY <1>2, <2>1, <2>3, <2>4, Releases
  <1> QED
    BY <1>1, <1>2 DEF Fault

-----------------------------------------------------------------------------
(* brokers and child commands                                              *)

\* How far a broker may move without telling anybody.
Moves(t) ==
  /\ NotRunning(t) => NotRunning(t)'
  /\ Served(t) => Served(t)'
  /\ phase'[t] = "none" <=> phase[t] = "none"
  /\ phase'[t] = "gate" => phase[t] = "gate"
  /\ gate'[t] = gate[t] \/ (gate[t] = "forgotten" /\ gate'[t] = "closed")
  /\ phase'[t] \in PastGate =>
       phase[t] \in PastGate \/ (phase[t] = "gate" /\ gate[t] = "released")

LEMMA BrokersMove ==
  ASSUME IInv, UNCHANGED <<registry, lock, pc, cur, mem, todo>>,
         \A t \in Tasks : Moves(t)
  PROVE  LockInv' /\ MemInv' /\ GateInv' /\ RowInv'
  <1> USE DEF IInv
  <1>1. LockInv' /\ RowInv'
    BY DEF LockInv, RowInv, Moves
  <1>2. GateInv'
    BY DEF GateInv, Moves, PastGate, Starting, Stopping
  <1>3. ASSUME NEW h \in Hosts PROVE HostInv(h)'
    <2>1. HostInv(h)
      BY DEF MemInv
    <2>2. ASSUME NEW t \in Tasks, ScanInv(h, t) PROVE ScanInv(h, t)'
      BY <2>2 DEF ScanInv, Hydrated, Moves
    <2>3. ASSUME NEW t \in Tasks, CurInv(h, t) PROVE CurInv(h, t)'
      BY <2>3 DEF CurInv, Moves
    <2> QED
      BY <2>1, <2>2, <2>3 DEF HostInv, TodoInv
  <1> QED
    BY <1>1, <1>2, <1>3 DEF MemInv

LEMMA BrokerStepInv ==
  ASSUME IInv, NEW t \in Tasks, Alone(BrokerStep(t))
  PROVE  IInv'
  <1> USE DEF IInv, Alone
  <1> USE DEF PassGate, GateRefused, PrepareCgroup, StartShell, BindControl,
              BindData, TerminateCgroup, UnlinkData, UnlinkControl, Reaped,
              LoopEnds, StartupFails, TerminateFails, UnlinkDataFails, Killed
  <1>1. BrokerTypeOK'
    <2> USE DEF TypeOK, BrokerTypeOK
    <2>1. CASE BrokerProgress(t)
      BY <2>1 DEF BrokerProgress, Phases, PastGate, Starting, Stopping
    <2>2. CASE LoopEnds(t)
      BY <2>2 DEF Phases, PastGate, Stopping
    <2>3. CASE TerminateFails(t)
      <3>1. cgroup' = [cgroup EXCEPT ![t] = FALSE] \/ cgroup' = [cgroup EXCEPT ![t] = cgroup[t]]
        BY <2>3
      <3>2. cgroup' \in [Tasks -> BOOLEAN]
        BY <3>1
      <3> QED
        BY <2>3, <3>2 DEF Phases
    <2>4. CASE BrokerFault(t) /\ ~TerminateFails(t)
      BY <2>4 DEF BrokerFault, Phases, PastGate, Stopping
    <2> QED
      BY <2>1, <2>2, <2>3, <2>4 DEF BrokerStep
  <1>2. TypeOK'
    BY <1>1 DEF TypeOK
  <1>3. gate' = gate /\ \A s \in Tasks \ {t} : phase'[s] = phase[s]
    BY DEF BrokerStep, BrokerProgress, BrokerFault, TypeOK, BrokerTypeOK
  <1>4. \/ phase[t] = "gate" /\ gate[t] = "released" /\ phase'[t] = "begin"
        \/ phase[t] = "gate" /\ gate[t] = "closed" /\ phase'[t] = "zombie"
        \/ phase[t] \in Starting /\ phase'[t] \in PastGate
        \/ phase[t] \in {"serving"} \cup Stopping /\ phase'[t] \in Stopping \cup {"zombie"}
        \/ phase[t] \in PastGate \cup {"gate"} /\ phase'[t] = "zombie"
        \/ phase[t] = "zombie" /\ phase'[t] = "gone"
    <2> USE DEF TypeOK, BrokerTypeOK
    <2>1. CASE BrokerProgress(t)
      BY <2>1 DEF BrokerProgress, PastGate, Starting, Stopping
    <2>2. CASE LoopEnds(t)
      BY <2>2 DEF PastGate, Stopping
    <2>3. CASE BrokerFault(t)
      BY <2>3 DEF BrokerFault, Alive, PastGate, Starting, Stopping
    <2> QED
      BY <2>1, <2>2, <2>3 DEF BrokerStep
  <1>5. Moves(t)
    BY <1>3, <1>4 DEF Moves, NotRunning, Served, PastGate, Starting, Stopping
  <1>6. \A s \in Tasks : Moves(s)
    BY <1>3, <1>5 DEF Moves, NotRunning, Served
  <1> QED
    BY <1>2, <1>3, <1>6, BrokersMove

LEMMA KeeperExitsInv ==
  ASSUME IInv, NEW t \in Tasks, Alone(KeeperExits(t))
  PROVE  IInv'
  <1> USE DEF IInv, Alone, KeeperExits
  <1>1. TypeOK'
    BY DEF TypeOK, BrokerTypeOK
  <1>2. phase' = phase /\ \A s \in Tasks \ {t} : gate'[s] = gate[s]
    BY DEF TypeOK, BrokerTypeOK
  <1>3. gate[t] = "forgotten" /\ gate'[t] = "closed"
    BY DEF TypeOK, BrokerTypeOK
  <1>4. \A s \in Tasks : Moves(s)
    BY <1>2, <1>3 DEF Moves, NotRunning, Served
  <1> QED
    BY <1>1, <1>4, BrokersMove

LEMMA ChildInv ==
  ASSUME IInv, NEW h \in Hosts, Child(h)
  PROVE  IInv'
  <1> USE DEF IInv
  <1>1. ASSUME NEW outcome \in {"ok", "failed"}, ChildExits(h, outcome)
        PROVE  /\ cmd' \in [Hosts -> Commands]
               /\ cmdTask' \in [Hosts -> Tasks \cup {NoTask}]
    BY <1>1 DEF ChildExits, CollectChild, TypeOK, Commands
  <1>2. CASE StopDelivered(h)
    <2> USE DEF StopDelivered, LoopEnds
    <2>1. TypeOK'
      BY <1>1, <1>2 DEF TypeOK, BrokerTypeOK, Phases, PastGate, Stopping
    <2>2. ASSUME NEW t \in Tasks PROVE Moves(t)
      <3>1. \/ phase'[t] = phase[t]
            \/ phase[t] = "serving" /\ phase'[t] = "closing"
        BY <1>2 DEF TypeOK, BrokerTypeOK
      <3> QED
        BY <1>2, <3>1 DEF Moves, NotRunning, Served, PastGate, Starting, Stopping
    <2> QED
      BY <1>2, <2>1, <2>2, BrokersMove
  <1>3. CASE \/ StopUndelivered(h) \/ RecoverSockets(h)
             \/ RecoverCgroup(h) \/ RecoverChildFails(h)
    <2> USE DEF StopUndelivered, RecoverSockets, RecoverCgroup, RecoverChildFails
    <2>1. /\ cmd' \in [Hosts -> Commands]
          /\ cmdTask' \in [Hosts -> Tasks \cup {NoTask}]
      BY <1>1, <1>3 DEF TypeOK, Commands, Recovering
    <2>2. /\ data' \in [Tasks -> BOOLEAN] /\ control' \in [Tasks -> BOOLEAN]
          /\ cgroup' \in [Tasks -> BOOLEAN]
      BY <1>3 DEF TypeOK, BrokerTypeOK
    <2>3. UNCHANGED <<phase, gate, registry, hostVars>>
      BY <1>3
    <2>4. TypeOK'
      BY <2>1, <2>2, <2>3 DEF TypeOK, BrokerTypeOK
    <2>5. \A t \in Tasks : Moves(t)
      BY <2>3 DEF Moves, NotRunning, Served
    <2> QED
      BY <2>3, <2>4, <2>5, BrokersMove
  <1> QED
    BY <1>2, <1>3 DEF Child

-----------------------------------------------------------------------------
(* The theorems                                                            *)

LEMMA InitInv == Init => IInv
  <1> SUFFICES ASSUME Init PROVE IInv
    OBVIOUS
  <1> USE DEF Init, BrokerInit, EmptyRegistry
  <1>1. TypeOK
    BY DEF TypeOK, BrokerTypeOK, Phases, PCs, Commands
  <1>2. LockInv
    BY NoHostAssumption DEF LockInv
  <1>3. GateInv /\ RowInv
    BY DEF GateInv, RowInv, PastGate, Starting, Stopping
  <1>4. MemInv
    BY DEF MemInv, HostInv, Scanning
  <1> QED
    BY <1>1, <1>2, <1>3, <1>4 DEF IInv

LEMMA StutterInv == IInv /\ UNCHANGED vars => IInv'
  <1> SUFFICES ASSUME IInv, UNCHANGED vars PROVE IInv'
    OBVIOUS
  <1> USE DEF IInv, vars
  <1>1. TypeOK'
    BY DEF TypeOK, BrokerTypeOK
  <1>2. \A t \in Tasks : Moves(t)
    BY DEF Moves, NotRunning, Served
  <1> QED
    BY <1>1, <1>2, BrokersMove

LEMMA NextInv == IInv /\ [Next]_vars => IInv'
  <1> SUFFICES ASSUME IInv, [Next]_vars PROVE IInv'
    OBVIOUS
  <1>1. CASE UNCHANGED vars
    BY <1>1, StutterInv
  <1>2. ASSUME NEW h \in Hosts, HostStep(h) PROVE IInv'
    BY <1>2, CreateStepInv, DeleteStepInv, ListStepInv, WriteEditInv DEF HostStep
  <1>3. ASSUME NEW h \in Hosts, Begins(h) \/ Child(h) \/ Fault(h) PROVE IInv'
    BY <1>3, BeginsInv, ChildInv, FaultInv
  <1>4. ASSUME NEW t \in Tasks, Alone(BrokerStep(t)) \/ Alone(KeeperExits(t))
        PROVE  IInv'
    BY <1>4, BrokerStepInv, KeeperExitsInv
  <1> QED
    BY <1>1, <1>2, <1>3, <1>4 DEF Next

\* The invariant holds in every reachable state, whatever the number of
\* hosts and tasks.
THEOREM Invariance == Spec => []IInv
  BY InitInv, NextInv, PTL DEF Spec

\* No fault and no interleaving leaves a variable outside its type; in
\* particular no transaction edits a row that is not there.
THEOREM TypeCorrect == Spec => []TypeOK
  <1>1. IInv => TypeOK
    BY DEF IInv
  <1> QED
    BY <1>1, Invariance, PTL

\* A broker that was let through its startup gate has a row with its PID.
THEOREM LiveBrokerRegistered == Spec => []BrokerHasRow
  <1>1. IInv => BrokerHasRow
    BY DEF IInv, GateInv, BrokerHasRow
  <1> QED
    BY <1>1, Invariance, PTL

\* An identity in the registry is that of a broker that reached its loop.
THEOREM IdentityServed == Spec => []IdentityWasServed
  <1>1. IInv => IdentityWasServed
    BY DEF IInv, RowInv, IdentityWasServed, Present, Served
  <1> QED
    BY <1>1, Invariance, PTL

-----------------------------------------------------------------------------
(* TaskStore implements TaskLifecycle                                      *)

\* A write of the file after which every row is one the lifecycle allows.
LEMMA LegalWrite ==
  ASSUME IInv, IInv', UNCHANGED phase,
         \A t \in Tasks :
           \/ registry'[t] = registry[t]
           \/ /\ registry[t] = NoRow /\ phase[t] = "none"
              /\ registry'[t] # NoRow /\ registry'[t].state = "starting"
           \/ /\ registry[t] # NoRow /\ registry'[t] # NoRow
              /\ registry'[t].state = registry[t].state
           \/ /\ registry[t] # NoRow /\ registry'[t] # NoRow
              /\ registry[t].state = "starting" /\ Served(t)
           \/ registry[t] # NoRow /\ registry'[t] = NoRow /\ NotRunning(t)
  PROVE  Lifecycle!WriteRegistry
  <1> USE DEF IInv, TypeOK, BrokerTypeOK
  <1> DEFINE row(t) == IF registry[t] = NoRow THEN "absent" ELSE registry[t].state
             broker(t) == IF phase[t] \in {"none", "gate"} THEN "none"
                          ELSE IF phase[t] \in PastGate THEN "live" ELSE "dead"
  <1>1. \A t \in Tasks : registry'[t] # NoRow =>
          registry'[t].state \in {"starting", "running"}
    BY DEF Row
  <1>2. \A t \in Tasks : row(t)' \in {"absent", "starting", "running"}
    BY <1>1
  <1>3. ASSUME NEW t \in Tasks
        PROVE  \/ row(t)' = row(t)
               \/ row(t) = "absent" /\ broker(t) = "none" /\ row(t)' = "starting"
               \/ row(t) = "starting" /\ broker(t) # "none" /\ row(t)' = "running"
               \/ row(t) # "absent" /\ broker(t) # "live" /\ row(t)' = "absent"
    <2>1. registry[t] # NoRow => registry[t].state \in {"starting", "running"}
      BY DEF Row
    <2> QED
      BY <1>1, <2>1 DEF Served, NotRunning, PastGate, Starting, Stopping
  <1> QED
    BY <1>2, <1>3 DEF Lifecycle!WriteRegistry, Lifecycle!Reserve,
       Lifecycle!Promote, Lifecycle!Drop

\* The steps that write the file.
Writes(h) ==
  \/ Register(h) \/ PublishPid(h) \/ PublishRunning(h) \/ Record(h)
  \/ Unregister(h) \/ WriteList(h) \/ WriteEdit(h)

LEMMA WritesAreLegal ==
  ASSUME IInv, IInv', NEW h \in Hosts, Writes(h)
  PROVE  Lifecycle!WriteRegistry
  <1>1. UNCHANGED phase
    BY DEF Writes, Register, PublishPid, PublishRunning, Record, Unregister,
           WriteList, WriteEdit
  <1>2. CASE WriteList(h)
    <2>1. \A t \in Tasks : registry'[t] = mem[h][t] /\ ScanInv(h, t)
      BY <1>2, AtScan DEF WriteList, Scanning
    <2>2. \A t \in Tasks : registry[t] # NoRow =>
             /\ Hydrated(registry[t]) # NoRow
             /\ registry[t] \in Row
      <3>1. TypeOK
        BY DEF IInv
      <3>2. \A t \in Tasks : registry[t] # NoRow => registry[t] \in Row
        BY <3>1 DEF TypeOK
      <3>3. \A r \in Row : Hydrated(r) \in Row
        BY DEF Hydrated, Row
      <3> QED
        BY <3>2, <3>3, NoRowAssumption
    <2> QED
      BY <1>1, <2>1, <2>2, LegalWrite DEF ScanInv
  <1>3. CASE \/ Register(h) \/ PublishPid(h) \/ PublishRunning(h) \/ Record(h)
             \/ Unregister(h) \/ WriteEdit(h)
    <2>1. /\ cur[h] \in Tasks /\ CurInv(h, cur[h])
          /\ \A t \in Tasks \ {cur[h]} : mem[h][t] = registry[t]
      BY <1>3, AtWork DEF Working, PCs, Scanning, Register, PublishPid,
         PublishRunning, Record, Unregister, WriteEdit
    <2>2. registry' = mem[h]
      BY <1>3 DEF Register, PublishPid, PublishRunning, Record, Unregister,
         WriteEdit
    <2>3. \/ /\ registry[cur[h]] = NoRow /\ phase[cur[h]] = "none"
             /\ mem[h][cur[h]] # NoRow /\ mem[h][cur[h]].state = "starting"
          \/ /\ registry[cur[h]] # NoRow /\ mem[h][cur[h]] # NoRow
             /\ mem[h][cur[h]].state = registry[cur[h]].state
          \/ /\ registry[cur[h]] # NoRow /\ mem[h][cur[h]] # NoRow
             /\ registry[cur[h]].state = "starting" /\ Served(cur[h])
          \/ registry[cur[h]] # NoRow /\ mem[h][cur[h]] = NoRow
             /\ NotRunning(cur[h])
      BY <1>3, <2>1 DEF CurInv, Register, PublishPid, PublishRunning, Record,
         Unregister, WriteEdit
    <2> QED
      BY <1>1, <2>1, <2>2, <2>3, LegalWrite
  <1> QED
    BY <1>2, <1>3 DEF Writes

\* Every other step of a host leaves the file alone, and of the brokers
\* changes at most where one stands before its gate, or stops one.
LEMMA OtherHostSteps ==
  ASSUME IInv, NEW h \in Hosts, ~Writes(h),
         Begins(h) \/ HostStep(h) \/ Child(h) \/ Fault(h)
  PROVE  /\ UNCHANGED registry
         /\ \A t \in Tasks :
              \/ phase'[t] = phase[t]
              \/ phase[t] = "none" /\ phase'[t] = "gate"
              \/ phase[t] = "serving" /\ phase'[t] = "closing"
  <1> USE DEF IInv, TypeOK, BrokerTypeOK
  <1>1. CASE Begins(h)
    BY <1>1 DEF Begins, BeginList, BeginDelete, BeginCreate, BeginRename,
       BeginSetOpen
  <1>2. CASE Fault(h)
    BY <1>2 DEF Fault, WriteFails, ScanThrows, HostCrash
  <1>3. CASE Child(h)
    BY <1>3 DEF Child, StopDelivered, LoopEnds, StopUndelivered, RecoverSockets,
       RecoverCgroup, RecoverChildFails
  <1>4. CASE Spawn(h) \/ SpawnFails(h)
    <2>1. cur[h] \in Tasks /\ phase[cur[h]] = "none"
      BY <1>4, AtWork DEF Working, PCs, Scanning, Spawn, SpawnFails, CurInv
    <2> QED
      BY <1>4, <2>1 DEF Spawn, SpawnFails
  <1>5. CASE CreateStep(h) /\ ~Spawn(h) /\ ~SpawnFails(h)
    BY <1>5 DEF CreateStep, Writes, PublishPidFails, ReleaseStartup, Await,
       AwaitFails, Hydrate, HydrateFails, PublishRunningFails, Identify,
       IdentifyFails, ProbeProcess, ProbeSockets, ProbeFails
  <1>6. CASE DeleteStep(h)
    BY <1>6 DEF DeleteStep, Writes, StopVerify, StopSend, StopAcked,
       StopConfirmed, StopFails, StopRejected, RecoverStart, RecoverRefused,
       RecoverConfirmed, RecoverFails, Leave
  <1>7. CASE ListStep(h)
    BY <1>7 DEF ListStep, Writes, ScanHydrate, ScanKeep, ScanLookup, ScanProcess,
       ScanDone
  <1> QED
    BY <1>1, <1>2, <1>3, <1>4, <1>5, <1>6, <1>7 DEF HostStep, Writes

\* A step that moves one broker and writes nothing is GoLive, Die or nothing.
LEMMA BrokerStepRefines ==
  ASSUME IInv, NEW t \in Tasks, Alone(BrokerStep(t))
  PROVE  [Lifecycle!LifecycleNext]_(Lifecycle!lifecycleVars)
  <1> USE DEF IInv, TypeOK, BrokerTypeOK
  <1> DEFINE row(s) == IF registry[s] = NoRow THEN "absent" ELSE registry[s].state
             broker(s) == IF phase[s] \in {"none", "gate"} THEN "none"
                          ELSE IF phase[s] \in PastGate THEN "live" ELSE "dead"
  <1>1. UNCHANGED registry /\ \A s \in Tasks \ {t} : phase'[s] = phase[s]
    BY DEF Alone, BrokerStep, BrokerProgress, BrokerFault, PassGate, GateRefused,
       PrepareCgroup, StartShell, BindControl, BindData, TerminateCgroup,
       UnlinkData, UnlinkControl, Reaped, LoopEnds, StartupFails,
       TerminateFails, UnlinkDataFails, Killed
  <1>2. CASE PassGate(t)
    <2>1. /\ broker(t) = "none" /\ broker(t)' = "live"
      BY <1>2 DEF PassGate, PastGate, Starting
    <2>2. row(t) = "starting"
      <3>1. /\ phase[t] = "gate" /\ gate[t] = "released"
        BY <1>2 DEF PassGate
      <3>2. registry[t] # NoRow /\ registry[t] \in Row
        BY <3>1 DEF GateInv
      <3>3. registry[t].state \in {"starting", "running"}
        BY <3>2 DEF Row
      <3>4. ~Served(t)
        BY <3>1 DEF Served, Stopping
      <3> QED
        BY <3>2, <3>3, <3>4 DEF RowInv
    <2>3. [s \in Tasks |-> broker(s)'] =
            [[s \in Tasks |-> broker(s)] EXCEPT ![t] = "live"]
      BY <1>1, <2>1
    <2> QED
      BY <1>1, <2>1, <2>2, <2>3 DEF Lifecycle!LifecycleNext, Lifecycle!GoLive
  <1>3. CASE ~PassGate(t)
    <2>1. \/ broker(t)' = broker(t)
          \/ broker(t) \in {"none", "live"} /\ broker(t)' = "dead"
      BY <1>3 DEF Alone, BrokerStep, BrokerProgress, BrokerFault, GateRefused,
         PrepareCgroup, StartShell, BindControl, BindData, TerminateCgroup,
         UnlinkData, UnlinkControl, Reaped, LoopEnds, StartupFails,
         TerminateFails, UnlinkDataFails, Killed, Alive, PastGate, Starting,
         Stopping
    <2>2. CASE broker(t)' = broker(t)
      BY <1>1, <2>2 DEF Lifecycle!lifecycleVars
    <2>3. CASE broker(t) \in {"none", "live"} /\ broker(t)' = "dead"
      <3>1. [s \in Tasks |-> broker(s)'] =
              [[s \in Tasks |-> broker(s)] EXCEPT ![t] = "dead"]
        BY <1>1, <2>3
      <3> QED
        BY <1>1, <2>3, <3>1 DEF Lifecycle!LifecycleNext, Lifecycle!Die
    <2> QED
      BY <2>1, <2>2, <2>3
  <1> QED
    BY <1>2, <1>3

\* Whatever fails and however hosts, brokers and children interleave, the
\* registry and the brokers live the abstract life of TaskLifecycle.
THEOREM Refinement == Spec => ImplementsLifecycle
  <1>1. Init => Lifecycle!LifecycleInit
    BY DEF Init, BrokerInit, EmptyRegistry, Lifecycle!LifecycleInit
  <1>2. IInv /\ IInv' /\ [Next]_vars =>
          [Lifecycle!LifecycleNext]_(Lifecycle!lifecycleVars)
    <2> SUFFICES ASSUME IInv, IInv', [Next]_vars
                 PROVE  [Lifecycle!LifecycleNext]_(Lifecycle!lifecycleVars)
      OBVIOUS
    <2>1. CASE UNCHANGED vars
      BY <2>1 DEF vars, Lifecycle!lifecycleVars
    <2>2. ASSUME NEW h \in Hosts, Writes(h)
          PROVE  Lifecycle!LifecycleNext
      BY <2>2, WritesAreLegal DEF Lifecycle!LifecycleNext
    <2>3. ASSUME NEW h \in Hosts, ~Writes(h),
                 Begins(h) \/ HostStep(h) \/ Child(h) \/ Fault(h)
          PROVE  UNCHANGED Lifecycle!lifecycleVars
      BY <2>3, OtherHostSteps DEF Lifecycle!lifecycleVars, PastGate, Stopping
    <2>4. ASSUME NEW t \in Tasks, Alone(BrokerStep(t))
          PROVE  [Lifecycle!LifecycleNext]_(Lifecycle!lifecycleVars)
      BY <2>4, BrokerStepRefines
    <2>5. ASSUME NEW t \in Tasks, Alone(KeeperExits(t))
          PROVE  UNCHANGED Lifecycle!lifecycleVars
      BY <2>5 DEF Alone, KeeperExits, Lifecycle!lifecycleVars
    <2> QED
      BY <2>1, <2>2, <2>3, <2>4, <2>5 DEF Next
  <1> QED
    BY <1>1, <1>2, Invariance, PTL DEF Spec, ImplementsLifecycle,
       Lifecycle!LifecycleSpec

-----------------------------------------------------------------------------
(* No lost update                                                          *)

\* A step that changes a row is a write by the holder of the lock, of the
\* row it works on or, in list, of a row that is still starting.
LEMMA OwnRow ==
  ASSUME IInv, NEW h \in Hosts, Writes(h),
         NEW t \in Tasks, registry'[t] # registry[t]
  PROVE  /\ lock = h
         /\ \/ cur[h] = t
            \/ pc[h] = "writeList" /\ registry[t] # NoRow
                                   /\ registry[t].state = "starting"
  <1>1. lock = h
    BY DEF IInv, LockInv, Writes, Register, PublishPid, PublishRunning, Record,
       Unregister, WriteList, WriteEdit
  <1>2. registry' = mem[h]
    BY DEF Writes, Register, PublishPid, PublishRunning, Record, Unregister,
       WriteList, WriteEdit, Publish
  <1>3. CASE WriteList(h)
    <2>1. ScanInv(h, t) /\ pc[h] = "writeList"
      BY <1>3, AtScan DEF WriteList, Scanning
    <2> QED
      BY <1>1, <1>2, <2>1 DEF ScanInv
  <1>4. CASE ~WriteList(h)
    <2>1. \A s \in Tasks \ {cur[h]} : mem[h][s] = registry[s]
      BY <1>4, AtWork DEF Working, PCs, Scanning, Writes, Register, PublishPid,
         PublishRunning, Record, Unregister, WriteEdit
    <2> QED
      BY <1>1, <1>2, <2>1
  <1> QED
    BY <1>3, <1>4

\* No transaction of any number of hosts overwrites what another one wrote:
\* it changes its own row, and list only rows that are still starting.
THEOREM NoLostUpdate == Spec => OnlyOwnRowChanges
  <1> DEFINE Own(t) == \E h \in Hosts :
                         /\ lock = h
                         /\ \/ cur[h] = t
                            \/ pc[h] = "writeList" /\ registry[t] # NoRow
                               /\ registry[t].state = "starting"
  <1>1. IInv /\ [Next]_vars =>
          [\A t \in Tasks : registry'[t] # registry[t] => Own(t)]_vars
    <2> SUFFICES ASSUME IInv, [Next]_vars, NEW t \in Tasks,
                        registry'[t] # registry[t]
                 PROVE  Own(t)
      OBVIOUS
    <2>1. CASE UNCHANGED vars
      BY <2>1 DEF vars
    <2>2. ASSUME NEW h \in Hosts, Writes(h)
          PROVE  Own(t)
      BY <2>2, OwnRow
    <2>3. ASSUME NEW h \in Hosts, ~Writes(h),
                 Begins(h) \/ HostStep(h) \/ Child(h) \/ Fault(h)
          PROVE  FALSE
      BY <2>3, OtherHostSteps
    <2>4. ASSUME NEW s \in Tasks, Alone(BrokerStep(s)) \/ Alone(KeeperExits(s))
          PROVE  FALSE
      BY <2>4 DEF Alone
    <2> QED
      BY <2>1, <2>2, <2>3, <2>4 DEF Next
  <1> QED
    BY <1>1, Invariance, PTL DEF Spec, OnlyOwnRowChanges

-----------------------------------------------------------------------------
(***************************************************************************)
(* Part 2.  Every file that any transaction writes is one that             *)
(* readRegistry accepts on the next read: RegistryReadable, for any number *)
(* of hosts and any maxTasks.  It does not follow from IInv, which says    *)
(* nothing of names and numbers; NamesInv adds what a transaction's copy   *)
(* may say of them.                                                        *)
(***************************************************************************)

\* The part of Readable that relates rows to each other.  (The number of rows
\* of an infinite set would be no number.)
Fits(r) ==
  /\ IsFiniteSet(Present(r))
  /\ Cardinality(Present(r)) <= MaxTasks
  /\ \A s, t \in Present(r) : r[s].name = r[t].name => s = t

\* The points of create at which the copy's row is not the file's.
Ahead == {"publishPid", "publishRunning", "identify", "record",
          "probeProcess", "probeSockets"}

\* A copy that holds a new row or a new name was checked when it was made;
\* later edits of a row keep its name.
CopyFits(h) ==
  /\ pc[h] \in {"register", "edit"} => Fits(mem[h])
  /\ pc[h] \in Ahead => mem[h][cur[h]].name = registry[cur[h]].name

NamesInv == Fits(registry) /\ \A h \in Hosts : CopyFits(h)

-----------------------------------------------------------------------------
(* What keeps a registry in its limits.                                    *)

\* Dropping rows, and changing anything but names in the others.
LEMMA NoNewNames ==
  ASSUME NEW r, NEW s, Fits(r),
         \A t \in Tasks : s[t] # NoRow => r[t] # NoRow /\ s[t].name = r[t].name
  PROVE  Fits(s)
  <1>1. Present(s) \subseteq Present(r)
    BY DEF Present
  <1>2. /\ IsFiniteSet(Present(s))
        /\ Cardinality(Present(s)) <= Cardinality(Present(r))
    BY <1>1, FS_Subset DEF Fits
  <1>3. Cardinality(Present(s)) \in Nat /\ Cardinality(Present(r)) \in Nat
    BY <1>2, FS_CardinalityType DEF Fits
  <1>4. Cardinality(Present(s)) <= MaxTasks
    BY <1>2, <1>3, MaxTasksAssumption DEF Fits
  <1>5. \A t, u \in Present(s) : s[t].name = s[u].name => t = u
    BY <1>1 DEF Fits, Present
  <1> QED
    BY <1>2, <1>4, <1>5 DEF Fits

\* One more row, below the limit and with a name of its own.
LEMMA NewRow ==
  ASSUME IInv, Fits(registry), NEW t \in Tasks, registry[t] = NoRow,
         NEW row \in Row, ~NameTaken(registry, row.name, t),
         Cardinality(Present(registry)) < MaxTasks
  PROVE  Fits([registry EXCEPT ![t] = row])
  <1> DEFINE r == [registry EXCEPT ![t] = row]
  <1>1. r[t] = row /\ \A s \in Tasks \ {t} : r[s] = registry[s]
    BY DEF IInv, TypeOK
  <1>2. Present(r) = Present(registry) \cup {t} /\ t \notin Present(registry)
    BY <1>1, NoRowAssumption DEF Present
  <1>3. /\ IsFiniteSet(Present(r))
        /\ Cardinality(Present(r)) = Cardinality(Present(registry)) + 1
    <2> HIDE DEF r
    <2>1. IsFiniteSet(Present(registry))
      BY DEF Fits
    <2> QED
      BY <1>2, <2>1, FS_AddElement
  <1>4. Cardinality(Present(r)) <= MaxTasks
    BY <1>3, FS_CardinalityType, MaxTasksAssumption DEF Fits
  <1>5. \A s \in Present(registry) : r[s] = registry[s] /\ r[s].name # row.name
    BY <1>1, <1>2 DEF NameTaken, Present
  <1>6. \A s, u \in Present(r) : r[s].name = r[u].name => s = u
    BY <1>1, <1>2, <1>5 DEF Fits
  <1> QED
    BY <1>3, <1>4, <1>6 DEF Fits

\* A row replaced by one with a name of its own.
LEMMA OtherRow ==
  ASSUME IInv, Fits(registry), NEW t \in Tasks, registry[t] # NoRow,
         NEW row \in Row, ~NameTaken(registry, row.name, t)
  PROVE  Fits([registry EXCEPT ![t] = row])
  <1> DEFINE r == [registry EXCEPT ![t] = row]
  <1>1. r[t] = row /\ \A s \in Tasks \ {t} : r[s] = registry[s]
    BY DEF IInv, TypeOK
  <1>2. Present(r) = Present(registry)
    BY <1>1, NoRowAssumption DEF Present
  <1>3. \A s \in Present(registry) \ {t} : r[s].name # row.name
    BY <1>1 DEF NameTaken, Present
  <1>4. \A s, u \in Present(r) : r[s].name = r[u].name => s = u
    BY <1>1, <1>2, <1>3 DEF Fits, Present
  <1> QED
    BY <1>2, <1>4 DEF Fits

-----------------------------------------------------------------------------
(* The steps                                                               *)

\* Every write publishes a copy that fits.
LEMMA WritesFit ==
  ASSUME IInv, NamesInv, NEW h \in Hosts, Writes(h)
  PROVE  Fits(registry)'
  <1>1. registry' = mem[h]
    BY DEF Writes, Register, PublishPid, PublishRunning, Record, Unregister,
       WriteList, WriteEdit
  <1>2. CASE pc[h] \in {"register", "edit"}
    BY <1>1, <1>2 DEF NamesInv, CopyFits, Fits, Present
  <1>3. CASE pc[h] \notin {"register", "edit"}
    <2>1. \A t \in Tasks : mem[h][t] # NoRow =>
             registry[t] # NoRow /\ mem[h][t].name = registry[t].name
      <3>1. CASE WriteList(h)
        <4>1. \A t \in Tasks : ScanInv(h, t)
          BY <3>1, AtScan DEF WriteList, Scanning
        <4>2. \A t \in Tasks : registry[t] # NoRow =>
                 Hydrated(registry[t]).name = registry[t].name
          BY DEF IInv, TypeOK, Row, Hydrated
        <4> QED
          BY <4>1, <4>2 DEF ScanInv
      <3>2. CASE ~WriteList(h)
        <4>1. /\ cur[h] \in Tasks /\ CurInv(h, cur[h])
              /\ \A t \in Tasks \ {cur[h]} : mem[h][t] = registry[t]
          BY <3>2, AtWork DEF Working, PCs, Scanning, Writes, Register,
             PublishPid, PublishRunning, Record, Unregister, WriteEdit
        <4>2. pc[h] \in Ahead \cup {"unregister"}
          BY <1>3, <3>2 DEF Ahead, Writes, Register, PublishPid,
             PublishRunning, Record, Unregister, WriteEdit
        <4>3. mem[h][cur[h]] # NoRow =>
                /\ registry[cur[h]] # NoRow
                /\ mem[h][cur[h]].name = registry[cur[h]].name
          BY <4>1, <4>2 DEF NamesInv, CopyFits, CurInv, Ahead
        <4> QED
          BY <4>1, <4>3
      <3> QED
        BY <3>1, <3>2
    <2>2. Fits(mem[h])
      BY <2>1, NoNewNames DEF NamesInv
    <2> QED
      BY <1>1, <2>2 DEF Fits, Present
  <1> QED
    BY <1>2, <1>3

\* A transaction that begins checks the name and the limit in the file it
\* read under the lock.
LEMMA BeginsFit ==
  ASSUME IInv, NamesInv, NEW h \in Hosts, Begins(h)
  PROVE  CopyFits(h)'
  <1> USE DEF IInv, NamesInv, Begin
  <1>1. CASE BeginList(h) \/ \E t \in Tasks : BeginDelete(h, t)
    BY <1>1 DEF BeginList, BeginDelete, TypeOK, CopyFits, Ahead
  <1>2. ASSUME NEW t \in Tasks, NEW n \in Names, BeginCreate(h, t, n)
        PROVE  CopyFits(h)'
    <2> DEFINE row == [state |-> "starting", pid |-> FALSE, ident |-> FALSE,
                       name |-> n, open |-> TRUE]
    <2>1. row \in Row /\ row.name = n
      BY DEF Row
    <2> HIDE DEF row
    <2>2. Fits([registry EXCEPT ![t] = row])
      BY <1>2, <2>1, NewRow DEF BeginCreate, Fresh
    <2>3. pc'[h] = "register" /\ mem'[h] = [registry EXCEPT ![t] = row]
      BY <1>2 DEF BeginCreate, TypeOK, row
    <2> QED
      BY <2>2, <2>3 DEF CopyFits, Ahead, Fits, Present
  <1>3. ASSUME NEW t \in Tasks, NEW n \in Names, BeginRename(h, t, n)
        PROVE  CopyFits(h)'
    <2> DEFINE row == [registry[t] EXCEPT !.name = n]
    <2>1. registry[t] \in Row
      BY <1>3 DEF BeginRename, TypeOK
    <2>2. row \in Row /\ row.name = n
      BY <2>1 DEF Row
    <2> HIDE DEF row
    <2>3. Fits([registry EXCEPT ![t] = row])
      BY <1>3, <2>2, OtherRow DEF BeginRename
    <2>4. pc'[h] = "edit" /\ mem'[h] = [registry EXCEPT ![t] = row]
      BY <1>3 DEF BeginRename, TypeOK, row
    <2> QED
      BY <2>3, <2>4 DEF CopyFits, Ahead, Fits, Present
  <1>4. ASSUME NEW t \in Tasks, NEW o \in BOOLEAN, BeginSetOpen(h, t, o)
        PROVE  CopyFits(h)'
    <2> DEFINE row == [registry[t] EXCEPT !.open = o]
    <2>1. registry[t] \in Row
      BY <1>4 DEF BeginSetOpen, TypeOK
    <2>2. row \in Row /\ row.name = registry[t].name
      BY <2>1 DEF Row
    <2> HIDE DEF row
    <2>3. ~NameTaken(registry, row.name, t)
      BY <1>4, <2>2 DEF BeginSetOpen, NameTaken, Fits, Present
    <2>4. Fits([registry EXCEPT ![t] = row])
      BY <1>4, <2>2, <2>3, OtherRow DEF BeginSetOpen
    <2>5. pc'[h] = "edit" /\ mem'[h] = [registry EXCEPT ![t] = row]
      BY <1>4 DEF BeginSetOpen, TypeOK, row
    <2> QED
      BY <2>4, <2>5 DEF CopyFits, Ahead, Fits, Present
  <1> QED
    BY <1>1, <1>2, <1>3, <1>4 DEF Begins

\* No step of create changes a name.
LEMMA CreateFits ==
  ASSUME IInv, IInv', NamesInv, NEW h \in Hosts, CreateStep(h)
  PROVE  CopyFits(h)'
  <1> USE DEF NamesInv, CopyFits, Ahead
  <1>1. pc[h] \in Working /\ pc[h] \in PCs
    BY DEF CreateStep, Working, PCs, Scanning, Register, Spawn, SpawnFails,
       PublishPid, PublishPidFails, ReleaseStartup, Await, AwaitFails,
       Hydrate, HydrateFails, PublishRunning, PublishRunningFails, Identify,
       IdentifyFails, Record, ProbeProcess, ProbeSockets, ProbeFails
  <1>2. cur[h] \in Tasks /\ CurInv(h, cur[h])
    BY <1>1, AtWork
  <1>3. TypeOK
    BY DEF IInv
  <1>4. CASE Register(h) \/ SpawnFails(h) \/ PublishPid(h) \/ ReleaseStartup(h)
             \/ Await(h) \/ PublishRunning(h) \/ Record(h) \/ ProbeSockets(h)
             \/ ProbeFails(h)
    BY <1>3, <1>4 DEF TypeOK, Register, SpawnFails, PublishPid,
       ReleaseStartup, Await, PublishRunning, Record, ProbeSockets,
       ProbeFails, Forget
  <1>5. CASE PublishPidFails(h) \/ IdentifyFails(h) \/ ProbeProcess(h)
             \/ AwaitFails(h) \/ HydrateFails(h)
    BY <1>2, <1>3, <1>5 DEF TypeOK, CurInv, PublishPidFails, IdentifyFails,
       ProbeProcess, AwaitFails, HydrateFails
  <1>6. CASE Spawn(h) \/ Hydrate(h) \/ PublishRunningFails(h) \/ Identify(h)
    <2>1. /\ mem[h][cur[h]] \in Row
          /\ mem[h][cur[h]].name = registry[cur[h]].name
      BY <1>2, <1>3, <1>6 DEF CurInv, TypeOK, Spawn, Hydrate,
         PublishRunningFails, Identify
    <2> DEFINE row == mem[h][cur[h]]
    <2>2. mem'[h][cur[h]].name = mem[h][cur[h]].name
      <3>1. ASSUME NEW r, mem' = [mem EXCEPT ![h][cur[h]] = r]
            PROVE  mem'[h][cur[h]] = r
        BY <1>2, <1>3, <3>1 DEF TypeOK
      <3>2. CASE Spawn(h)
        <4>1. mem'[h][cur[h]] = [row EXCEPT !.pid = TRUE]
          BY <3>1, <3>2 DEF Spawn
        <4> QED
          BY <2>1, <4>1 DEF Row
      <3>3. CASE Hydrate(h)
        <4>1. mem'[h][cur[h]] = [row EXCEPT !.state = "running", !.ident = TRUE]
          BY <3>1, <3>3 DEF Hydrate, Hydrated
        <4> QED
          BY <2>1, <4>1 DEF Row
      <3>4. CASE PublishRunningFails(h)
        <4>1. mem'[h][cur[h]] = [row EXCEPT !.state = "starting"]
          BY <3>1, <3>4 DEF PublishRunningFails
        <4> QED
          BY <2>1, <4>1 DEF Row
      <3>5. CASE Identify(h)
        <4>1. mem'[h][cur[h]] = [row EXCEPT !.ident = TRUE]
          BY <3>1, <3>5 DEF Identify
        <4> QED
          BY <2>1, <4>1 DEF Row
      <3> QED
        BY <1>6, <3>2, <3>3, <3>4, <3>5
    <2>3. pc'[h] \in Ahead /\ UNCHANGED <<registry, cur>>
      BY <1>3, <1>6 DEF TypeOK, Spawn, Hydrate, PublishRunningFails, Identify
    <2> QED
      BY <2>1, <2>2, <2>3
  <1> QED
    BY <1>4, <1>5, <1>6 DEF CreateStep

\* Any other step leads to a point where the copy needs no promise.
LEMMA OthersFit ==
  ASSUME IInv, NEW h \in Hosts,
         DeleteStep(h) \/ ListStep(h) \/ WriteEdit(h) \/ Fault(h)
  PROVE  CopyFits(h)'
  <1> USE DEF IInv, TypeOK
  <1>1. pc'[h] \notin Ahead \cup {"register", "edit"}
    <2>1. CASE DeleteStep(h)
      BY <2>1 DEF Ahead, DeleteStep, StopVerify, StopSend, StopAcked,
         StopConfirmed, StopFails, StopRejected, RecoverStart, RecoverRefused,
         RecoverConfirmed, RecoverFails, Unregister, Leave, Forget,
         AfterFailedStop
    <2>2. CASE ListStep(h)
      BY <2>2 DEF Ahead, ListStep, ScanHydrate, ScanKeep, ScanLookup,
         ScanProcess, ScanDone, WriteList, Forget
    <2>3. CASE WriteEdit(h) \/ Fault(h)
      BY <2>3 DEF Ahead, WriteEdit, Fault, WriteFails, ScanThrows, HostCrash,
         Forget
    <2> QED
      BY <2>1, <2>2, <2>3
  <1> QED
    BY <1>1 DEF CopyFits

\* While one host is in a transaction the others are idle.
LEMMA OthersIdle ==
  ASSUME IInv, IInv', NEW h \in Hosts, Begins(h) \/ HostStep(h) \/ Fault(h),
         NEW k \in Hosts \ {h}
  PROVE  CopyFits(k)'
  <1>1. pc[k] = "idle"
    <2>1. CASE Begins(h)
      BY <2>1, NoHostAssumption DEF Begins, BeginList, BeginDelete, BeginCreate,
         BeginRename, BeginSetOpen, Begin, IInv, LockInv
    <2>2. CASE pc[h] # "idle"
      BY <2>2, Holding
    <2>3. CASE HostStep(h) \/ Fault(h)
      <3>1. pc[h] # "idle"
        BY <2>3 DEF HostStep, CreateStep, Register, Spawn, SpawnFails,
           PublishPid, PublishPidFails, ReleaseStartup, Await, AwaitFails,
           Hydrate, HydrateFails, PublishRunning, PublishRunningFails,
           Identify, IdentifyFails, Record, ProbeProcess, ProbeSockets,
           ProbeFails, DeleteStep, StopVerify, StopSend, StopAcked,
           StopConfirmed, StopFails, StopRejected, RecoverStart,
           RecoverRefused, RecoverConfirmed, RecoverFails, Unregister, Leave,
           ListStep, ScanHydrate, ScanKeep, ScanLookup, ScanProcess, ScanDone,
           WriteList, WriteEdit, Fault, WriteFails, ScanThrows, HostCrash
      <3> QED
        BY <3>1, <2>2
    <2> QED
      BY <2>1, <2>3
  <1>2. pc'[k] = pc[k]
    <2> USE DEF IInv, TypeOK
    <2>1. CASE Begins(h)
      BY <2>1 DEF Begins, BeginList, BeginDelete, BeginCreate, BeginRename,
         BeginSetOpen, Begin
    <2>2. CASE CreateStep(h)
      BY <2>2 DEF CreateStep, Register, Spawn, SpawnFails, PublishPid,
         PublishPidFails, ReleaseStartup, Await, AwaitFails, Hydrate,
         HydrateFails, PublishRunning, PublishRunningFails, Identify,
         IdentifyFails, Record, ProbeProcess, ProbeSockets, ProbeFails, Forget
    <2>3. CASE DeleteStep(h)
      BY <2>3 DEF DeleteStep, StopVerify, StopSend, StopAcked, StopConfirmed,
         StopFails, StopRejected, RecoverStart, RecoverRefused,
         RecoverConfirmed, RecoverFails, Unregister, Leave, Forget
    <2>4. CASE ListStep(h)
      BY <2>4 DEF ListStep, ScanHydrate, ScanKeep, ScanLookup, ScanProcess,
         ScanDone, WriteList, Forget
    <2>5. CASE WriteEdit(h) \/ Fault(h)
      BY <2>5 DEF WriteEdit, Fault, WriteFails, ScanThrows, HostCrash, Forget
    <2> QED
      BY <2>1, <2>2, <2>3, <2>4, <2>5 DEF HostStep
  <1> QED
    BY <1>1, <1>2 DEF CopyFits, Ahead

-----------------------------------------------------------------------------
(* The theorem                                                             *)

LEMMA InitNames == Init => NamesInv
  <1> SUFFICES ASSUME Init PROVE NamesInv
    OBVIOUS
  <1>1. Present(registry) = {} /\ \A h \in Hosts : pc[h] = "idle"
    BY DEF Init, EmptyRegistry, Present
  <1>2. Fits(registry)
    BY <1>1, FS_EmptySet, MaxTasksAssumption DEF Fits
  <1> QED
    BY <1>1, <1>2 DEF NamesInv, CopyFits, Ahead

LEMMA NextNames == IInv /\ IInv' /\ NamesInv /\ [Next]_vars => NamesInv'
  <1> SUFFICES ASSUME IInv, IInv', NamesInv, [Next]_vars PROVE NamesInv'
    OBVIOUS
  <1>1. ASSUME UNCHANGED <<registry, pc, mem, cur>> PROVE NamesInv'
    BY <1>1 DEF NamesInv, CopyFits, Fits, Present
  <1>2. ASSUME NEW h \in Hosts, Begins(h) \/ HostStep(h) \/ Fault(h)
        PROVE  NamesInv'
    <2>1. Fits(registry)'
      <3>1. CASE Writes(h)
        BY <3>1, WritesFit
      <3>2. CASE ~Writes(h)
        <4>1. UNCHANGED registry
          BY <1>2, <3>2, OtherHostSteps
        <4> QED
          BY <4>1 DEF NamesInv, Fits, Present
      <3> QED
        BY <3>1, <3>2
    <2>2. CopyFits(h)'
      BY <1>2, BeginsFit, CreateFits, OthersFit DEF HostStep
    <2>3. \A k \in Hosts \ {h} : CopyFits(k)'
      BY <1>2, OthersIdle
    <2> QED
      BY <2>1, <2>2, <2>3 DEF NamesInv
  <1>3. ASSUME NEW h \in Hosts, Child(h) PROVE NamesInv'
    <2>1. UNCHANGED <<registry, pc, mem, cur>>
      BY <1>3 DEF Child, StopDelivered, StopUndelivered, RecoverSockets,
         RecoverCgroup, RecoverChildFails
    <2> QED
      BY <1>1, <2>1
  <1>4. ASSUME NEW t \in Tasks, Alone(BrokerStep(t)) \/ Alone(KeeperExits(t))
        PROVE  NamesInv'
    BY <1>1, <1>4 DEF Alone
  <1> QED
    BY <1>1, <1>2, <1>3, <1>4 DEF Next, vars

\* No transaction of any number of hosts, whatever fails, leaves a file that
\* the next reader rejects: not too many rows, no name twice, no running row
\* without an identity, no identity without a PID.
THEOREM RegistryStaysReadable == Spec => []RegistryReadable
  <1>1. IInv /\ NamesInv => RegistryReadable
    BY DEF IInv, RowInv, NamesInv, Fits, RegistryReadable, Readable, ValidRow,
       Present
  <1> QED
    BY <1>1, InitNames, NextNames, Invariance, PTL DEF Spec

-----------------------------------------------------------------------------
(***************************************************************************)
(* Part 3.  What a serving broker holds is never taken from it             *)
(* (ServingBrokerIntact), and an identified row leaves the registry only   *)
(* with everything it names (IdentifiedRemovalIsClean).  IInv says nothing *)
(* of sockets and cgroups; ResInv adds what a broker holds at each phase,  *)
(* what a transaction may conclude from a lookup it made some steps ago,   *)
(* and of which brokers a recover child was started.                       *)
(***************************************************************************)

Dead(t) == phase[t] \in {"zombie", "gone"}

FilesGone(t) == SocketsGone(t) /\ ~cgroup[t]

Identified(t) == registry[t] # NoRow /\ registry[t].ident

\* What the broker has allocated on its way to the event loop is still there.
Holds(t) ==
  /\ phase[t] \in {"contained", "shell", "control", "serving"} => cgroup[t]
  /\ phase[t] \in {"control", "serving"} => control[t]
  /\ phase[t] = "serving" => data[t]

\* A recover child, whether or not its host still waits for it, works on a
\* broker that has died.
ChildOfTheDead(h) ==
  cmd[h] \in Recovering => cmdTask[h] \in Tasks /\ Dead(cmdTask[h])

\* The points of a stop or a recover that only an identified row leads to.
Ending == {"stopSend", "stopAck", "stopPoll", "recoverCheck", "recoverWait"}

\* What a lookup the transaction made earlier still says.
Lookups(h) ==
  /\ \/ pc[h] \in Ending
     \/ pc[h] = "stopVerify" /\ op[h] = "create"
     => Identified(cur[h])
  /\ pc[h] = "unregister" /\ Identified(cur[h]) => NothingLeft(cur[h])
  /\ pc[h] = "scanProcess" /\ Identified(cur[h]) => FilesGone(cur[h])
  /\ pc[h] \in Scanning =>
       \A t \in Tasks : Identified(t) /\ mem[h][t] = NoRow => NothingLeft(t)

ResInv ==
  /\ \A t \in Tasks : Holds(t)
  /\ \A h \in Hosts : ChildOfTheDead(h) /\ Lookups(h)

-----------------------------------------------------------------------------
(* Sockets and cgroups of a broker that reached its loop only go.          *)

Ages(t) ==
  Served(t) =>
    /\ Served(t)' /\ (Dead(t) => Dead(t)')
    /\ data'[t] => data[t]
    /\ control'[t] => control[t]
    /\ cgroup'[t] => cgroup[t]

\* What was gone of such a broker stays gone.
LEMMA GoneForGood ==
  ASSUME NEW t \in Tasks, IInv, Served(t), Ages(t)
  PROVE  /\ FilesGone(t) => FilesGone(t)'
         /\ NothingLeft(t) => NothingLeft(t)'
  <1>1. FilesGone(t) => FilesGone(t)'
    BY DEF Ages, FilesGone, SocketsGone
  <1>2. NothingLeft(t) => Dead(t)
    BY DEF NothingLeft, Alive, Served, Dead, PastGate, Stopping
  <1>3. Dead(t)' => ~Alive(t)'
    BY DEF Dead, Alive, PastGate, Starting, Stopping
  <1> QED
    BY <1>1, <1>2, <1>3 DEF Ages, NothingLeft, FilesGone

\* An identity in the file is that of such a broker.
LEMMA IdentifiedServed ==
  ASSUME IInv, NEW t \in Tasks, Identified(t)
  PROVE  Served(t)
  BY DEF IInv, RowInv, Identified

\* A transaction touches no socket and no cgroup, and of the brokers only
\* the one it spawns; every other host is idle.
LEMMA HostsTouchNoFile ==
  ASSUME IInv, NEW h \in Hosts, Begins(h) \/ HostStep(h) \/ Fault(h)
  PROVE  /\ UNCHANGED <<data, control, cgroup>>
         /\ \A t \in Tasks : \/ phase'[t] = phase[t]
                             \/ phase[t] = "none" /\ phase'[t] = "gate"
         /\ \A k \in Hosts \ {h} :
              pc'[k] = "idle" /\ cmd'[k] = cmd[k] /\ cmdTask'[k] = cmdTask[k]
         /\ \/ cmd'[h] = cmd[h] /\ cmdTask'[h] = cmdTask[h]
            \/ cmd'[h] \in {"none", "stop"}
            \/ RecoverStart(h)
  <1> USE DEF IInv, TypeOK, BrokerTypeOK
  <1>1. CASE Begins(h)
    <2>1. \A k \in Hosts : pc[k] = "idle"
      BY <1>1, NoHostAssumption DEF LockInv, Begins, BeginList, BeginDelete,
         BeginCreate, BeginRename, BeginSetOpen, Begin
    <2> QED
      BY <1>1, <2>1 DEF Begins, BeginList, BeginDelete, BeginCreate, BeginRename,
         BeginSetOpen, Begin
  <1>2. CASE Fault(h)
    <2>1. \A k \in Hosts \ {h} : pc[k] = "idle"
      BY <1>2, Holding DEF Fault, WriteFails, ScanThrows, HostCrash
    <2> QED
      BY <1>2, <2>1 DEF Fault, WriteFails, ScanThrows, HostCrash, Forget,
         CollectChild
  <1>3. CASE Spawn(h) \/ SpawnFails(h)
    <2>1. /\ cur[h] \in Tasks /\ phase[cur[h]] = "none"
          /\ \A k \in Hosts \ {h} : pc[k] = "idle"
      BY <1>3, AtWork, Holding DEF Working, PCs, Scanning, Spawn, SpawnFails,
         CurInv
    <2> QED
      BY <1>3, <2>1 DEF Spawn, SpawnFails
  <1>4. CASE CreateStep(h) /\ ~Spawn(h) /\ ~SpawnFails(h)
    <2> USE DEF CreateStep, Register, PublishPid, PublishPidFails,
        ReleaseStartup, Await, AwaitFails, Hydrate, HydrateFails, PublishRunning,
        PublishRunningFails, Identify, IdentifyFails, Record, ProbeProcess,
        ProbeSockets, ProbeFails
    <2>1. \A k \in Hosts \ {h} : pc[k] = "idle"
      BY <1>4, Holding
    <2> QED
      BY <1>4, <2>1 DEF Forget
  <1>5. CASE DeleteStep(h)
    <2> USE DEF DeleteStep, StopVerify, StopSend, StopAcked, StopConfirmed,
        StopFails, StopRejected, RecoverStart, RecoverRefused, RecoverConfirmed,
        RecoverFails, Unregister, Leave
    <2>1. \A k \in Hosts \ {h} : pc[k] = "idle"
      BY <1>5, Holding
    <2> QED
      BY <1>5, <2>1 DEF Forget, CollectChild
  <1>6. CASE ListStep(h) \/ WriteEdit(h)
    <2> USE DEF ListStep, ScanHydrate, ScanKeep, ScanLookup, ScanProcess,
        ScanDone, WriteList, WriteEdit
    <2>1. \A k \in Hosts \ {h} : pc[k] = "idle"
      BY <1>6, Holding
    <2> QED
      BY <1>6, <2>1 DEF Forget
  <1> QED
    BY <1>1, <1>2, <1>3, <1>4, <1>5, <1>6 DEF HostStep

\* Broker and child steps take nothing a broker in its loop gets back.
LEMMA BrokersAge ==
  ASSUME IInv, NEW t \in Tasks, BrokerStep(t)
  PROVE  \A s \in Tasks : Ages(s)
  <1> USE DEF IInv, TypeOK, BrokerTypeOK
  <1> USE DEF PassGate, GateRefused, PrepareCgroup, StartShell, BindControl,
              BindData, TerminateCgroup, UnlinkData, UnlinkControl, Reaped,
              LoopEnds, StartupFails, TerminateFails, UnlinkDataFails, Killed
  <1> USE DEF Ages, Served, Dead, Stopping, PastGate, Starting
  <1>1. CASE BrokerProgress(t)
    BY <1>1 DEF BrokerProgress
  <1>2. CASE LoopEnds(t) \/ StartupFails(t) \/ UnlinkDataFails(t)
    BY <1>2
  <1>3. CASE Killed(t)
    BY <1>3 DEF Alive
  <1>4. CASE TerminateFails(t)
    <2>1. \/ cgroup' = [cgroup EXCEPT ![t] = FALSE]
          \/ cgroup' = [cgroup EXCEPT ![t] = cgroup[t]]
      BY <1>4
    <2>2. \A s \in Tasks : cgroup'[s] => cgroup[s]
      BY <2>1
    <2>3. phase[t] = "closing" /\ phase' = [phase EXCEPT ![t] = "zombie"]
      BY <1>4
    <2>4. \A s \in Tasks : \/ phase'[s] = phase[s]
                           \/ phase[s] = "closing" /\ phase'[s] = "zombie"
      BY <2>3
    <2> QED
      BY <1>4, <2>2, <2>4
  <1> QED
    BY <1>1, <1>2, <1>3, <1>4 DEF BrokerStep, BrokerFault

LEMMA ChildrenAge ==
  ASSUME IInv, NEW h \in Hosts, Child(h)
  PROVE  \A t \in Tasks : Ages(t)
  <1> USE DEF IInv, TypeOK, BrokerTypeOK, Ages, Served, Dead, Stopping
  <1>1. CASE StopDelivered(h)
    BY <1>1 DEF StopDelivered, LoopEnds
  <1>2. CASE StopUndelivered(h) \/ RecoverSockets(h) \/ RecoverCgroup(h)
    BY <1>2 DEF StopUndelivered, RecoverSockets, RecoverCgroup
  <1>3. CASE RecoverChildFails(h)
    BY <1>3 DEF RecoverChildFails
  <1> QED
    BY <1>1, <1>2, <1>3 DEF Child

LEMMA HostsAge ==
  ASSUME IInv, NEW h \in Hosts, Begins(h) \/ HostStep(h) \/ Fault(h)
  PROVE  \A t \in Tasks : Ages(t)
  <1>1. \A t \in Tasks : \/ phase'[t] = phase[t]
                         \/ phase[t] = "none" /\ phase'[t] = "gate"
    BY HostsTouchNoFile
  <1>2. UNCHANGED <<data, control, cgroup>>
    BY HostsTouchNoFile
  <1> QED
    BY <1>1, <1>2 DEF Ages, Served, Dead, Stopping

-----------------------------------------------------------------------------
(* What a broker holds.                                                    *)

LEMMA HoldsKept ==
  ASSUME IInv, ResInv, NEW t \in Tasks,
         \/ UNCHANGED <<phase, data, control, cgroup>>
         \/ \E s \in Tasks : Alone(BrokerStep(s))
         \/ \E h \in Hosts : Begins(h) \/ HostStep(h) \/ Fault(h) \/ Child(h)
  PROVE  Holds(t)'
  <1> USE DEF IInv, TypeOK, BrokerTypeOK
  <1>0. Holds(t)
    BY DEF ResInv
  <1>1. CASE UNCHANGED <<phase, data, control, cgroup>>
    BY <1>0, <1>1 DEF Holds
  <1>2. ASSUME NEW s \in Tasks, BrokerStep(s) PROVE Holds(t)'
    <2> USE DEF PassGate, GateRefused, PrepareCgroup, StartShell, BindControl,
              BindData, TerminateCgroup, UnlinkData, UnlinkControl, Reaped,
              LoopEnds, StartupFails, TerminateFails, UnlinkDataFails, Killed
    <2>1. CASE BrokerProgress(s)
      BY <1>0, <2>1 DEF BrokerProgress, Holds
    <2>2. CASE LoopEnds(s) \/ StartupFails(s) \/ UnlinkDataFails(s) \/ Killed(s)
      BY <1>0, <2>2 DEF Holds
    <2>3. CASE TerminateFails(s)
      BY <1>0, <2>3 DEF Holds
    <2> QED
      BY <1>2, <2>1, <2>2, <2>3 DEF BrokerStep, BrokerFault
  <1>3. ASSUME NEW h \in Hosts, Begins(h) \/ HostStep(h) \/ Fault(h)
        PROVE  Holds(t)'
    <2>1. \/ phase'[t] = phase[t]
          \/ phase[t] = "none" /\ phase'[t] = "gate"
      BY <1>3, HostsTouchNoFile
    <2>2. UNCHANGED <<data, control, cgroup>>
      BY <1>3, HostsTouchNoFile
    <2> QED
      BY <1>0, <2>1, <2>2 DEF Holds
  \* A recover child takes what it takes from a dead broker.
  <1>4. ASSUME NEW h \in Hosts, Child(h) PROVE Holds(t)'
    <2>1. CASE StopDelivered(h)
      BY <1>0, <2>1 DEF StopDelivered, LoopEnds, Holds
    <2>2. CASE StopUndelivered(h)
      BY <1>0, <2>2 DEF StopUndelivered, Holds
    <2>3. CASE RecoverSockets(h) \/ RecoverCgroup(h) \/ RecoverChildFails(h)
      <3> USE DEF RecoverSockets, RecoverCgroup, RecoverChildFails
      <3>1. cmdTask[h] \in Tasks /\ Dead(cmdTask[h])
        BY <2>3 DEF ResInv, ChildOfTheDead, Recovering
      <3>2. phase' = phase
        BY <2>3
      <3>3. CASE t = cmdTask[h]
        BY <3>1, <3>2, <3>3 DEF Dead, Holds
      <3>4. CASE t # cmdTask[h]
        <4>1. data'[t] = data[t] /\ control'[t] = control[t] /\ cgroup'[t] = cgroup[t]
          BY <2>3, <3>4
        <4> QED
          BY <1>0, <3>2, <4>1 DEF Holds
      <3> QED
        BY <3>3, <3>4
    <2> QED
      BY <1>4, <2>1, <2>2, <2>3 DEF Child
  <1> QED
    BY <1>1, <1>2, <1>3, <1>4 DEF Alone

-----------------------------------------------------------------------------
(* What a lookup still says some steps later.                              *)

LEMMA LookupsKept ==
  ASSUME IInv, ResInv, NEW h \in Hosts, UNCHANGED <<registry, hostVars>>,
         \A t \in Tasks : Ages(t)
  PROVE  Lookups(h)'
  <1>1. Lookups(h)
    BY DEF ResInv
  <1>2. \A t \in Tasks : Identified(t)' <=> Identified(t)
    BY DEF Identified
  <1>3. \A t \in Tasks : Identified(t) =>
          /\ FilesGone(t) => FilesGone(t)'
          /\ NothingLeft(t) => NothingLeft(t)'
    BY IdentifiedServed, GoneForGood
  <1>4. pc[h] = "unregister" \/ pc[h] = "scanProcess" \/ pc[h] \in Ending
        \/ pc[h] = "stopVerify" => cur[h] \in Tasks
    BY AtWork, AtScan DEF Working, PCs, Scanning, Ending
  <1> QED
    BY <1>1, <1>2, <1>3, <1>4 DEF Lookups

LEMMA BeginsLookups ==
  ASSUME IInv, NEW h \in Hosts, Begins(h)
  PROVE  Lookups(h)'
  <1> USE DEF IInv, TypeOK
  <1>1. CASE BeginList(h)
    <2>1. pc'[h] = "scan" /\ mem'[h] = registry /\ registry' = registry
      BY <1>1 DEF BeginList, Begin
    <2> QED
      BY <2>1 DEF Lookups, Identified, Ending, Scanning
  <1>2. ASSUME NEW t \in Tasks, BeginDelete(h, t) PROVE Lookups(h)'
    <2>1. /\ cur'[h] = t /\ op'[h] = "delete" /\ registry' = registry
          /\ \/ pc'[h] = "stopVerify"
             \/ pc'[h] = "recoverCheck" /\ Identified(t)
      BY <1>2 DEF BeginDelete, Begin, Identified
    <2> QED
      BY <2>1 DEF Lookups, Identified, Ending, Scanning
  <1>3. ASSUME ~BeginList(h), \A t \in Tasks : ~BeginDelete(h, t)
        PROVE  Lookups(h)'
    <2>1. pc'[h] \in {"register", "edit"}
      BY <1>3 DEF Begins, BeginCreate, BeginRename, BeginSetOpen, Begin
    <2> QED
      BY <2>1 DEF Lookups, Ending, Scanning
  <1> QED
    BY <1>1, <1>2, <1>3

LEMMA CreateLookups ==
  ASSUME IInv, NEW h \in Hosts, CreateStep(h)
  PROVE  Lookups(h)'
  <1> USE DEF IInv, TypeOK
  <1>1. CASE Record(h)
    <2>1. cur[h] \in Tasks /\ mem[h][cur[h]] # NoRow /\ mem[h][cur[h]].ident
      BY <1>1, AtWork DEF Record, Working, PCs, Scanning, CurInv
    <2>2. pc'[h] = "stopVerify" /\ cur'[h] = cur[h] /\ registry' = mem[h]
      BY <1>1 DEF Record
    <2> QED
      BY <2>1, <2>2 DEF Lookups, Identified, Ending, Scanning
  <1>2. CASE SpawnFails(h) \/ ProbeSockets(h)
    <2>1. cur[h] \in Tasks /\ ~Identified(cur[h])
      BY <1>2, AtWork DEF SpawnFails, ProbeSockets, Working, PCs, Scanning,
         CurInv, Identified
    <2>2. pc'[h] = "unregister" /\ cur'[h] = cur[h] /\ registry' = registry
      BY <1>2 DEF SpawnFails, ProbeSockets
    <2> QED
      BY <2>1, <2>2 DEF Lookups, Identified, Ending, Scanning
  <1>3. CASE ~Record(h) /\ ~SpawnFails(h) /\ ~ProbeSockets(h)
    <2>1. pc'[h] \in {"idle", "spawn", "publishPid", "release", "await",
                      "hydrate", "publishRunning", "identify", "record",
                      "probeProcess", "probeSockets", "leave"}
      BY <1>3 DEF CreateStep, Register, Spawn, PublishPid, PublishPidFails,
         ReleaseStartup, Await, AwaitFails, Hydrate, HydrateFails,
         PublishRunning, PublishRunningFails, Identify, IdentifyFails,
         ProbeProcess, ProbeFails, Forget
    <2> QED
      BY <2>1 DEF Lookups, Ending, Scanning
  <1> QED
    BY <1>1, <1>2, <1>3

LEMMA DeleteLookups ==
  ASSUME IInv, ResInv, NEW h \in Hosts, DeleteStep(h)
  PROVE  Lookups(h)'
  <1> USE DEF IInv, TypeOK
  <1>0. Lookups(h)
    BY DEF ResInv
  \* The steps that end the transaction or its work.
  <1>1. CASE RecoverRefused(h) \/ RecoverFails(h) \/ Unregister(h) \/ Leave(h)
    <2>1. pc'[h] \in {"leave", "idle"}
      BY <1>1 DEF RecoverRefused, RecoverFails, Unregister, Leave, Forget
    <2> QED
      BY <2>1 DEF Lookups, Ending, Scanning
  \* The row goes: the last lookup found nothing.
  <1>2. CASE StopConfirmed(h) \/ RecoverConfirmed(h)
    <2>1. /\ pc'[h] = "unregister" /\ cur'[h] = cur[h] /\ NothingLeft(cur[h])
          /\ UNCHANGED <<brokerVars, registry>>
      BY <1>2 DEF StopConfirmed, RecoverConfirmed
    <2>2. NothingLeft(cur[h])'
      BY <2>1 DEF NothingLeft, SocketsGone, Alive
    <2> QED
      BY <2>1, <2>2 DEF Lookups, Ending, Scanning
  \* The others lead on from an identified row, or leave.
  <1>3. CASE \/ StopVerify(h) \/ StopSend(h) \/ StopAcked(h) \/ StopFails(h)
             \/ StopRejected(h) \/ RecoverStart(h)
    <2> USE DEF StopVerify, StopSend, StopAcked, StopFails, StopRejected,
                RecoverStart, AfterFailedStop
    <2>1. /\ pc[h] \in {"stopVerify", "stopSend", "stopAck", "stopPoll",
                        "recoverCheck"}
          /\ cur'[h] = cur[h] /\ registry' = registry
      BY <1>3
    <2>2. pc'[h] \in Ending \cup {"leave"}
      BY <1>3 DEF Ending
    <2>3. cur[h] \in Tasks /\ CurInv(h, cur[h])
      BY <2>1, AtWork DEF Working, PCs, Scanning
    <2>4. pc'[h] # "leave" => Identified(cur[h])
      <3>1. CASE StopVerify(h)
        BY <2>3, <3>1 DEF CurInv, Identified
      <3>2. CASE StopFails(h)
        BY <1>0, <3>2 DEF Lookups, Ending
      <3>3. CASE ~StopVerify(h) /\ ~StopFails(h)
        BY <1>0, <1>3, <3>3 DEF Lookups, Ending
      <3> QED
        BY <3>1, <3>2, <3>3
    <2> QED
      BY <2>1, <2>2, <2>4 DEF Lookups, Identified, Ending, Scanning
  <1> QED
    BY <1>1, <1>2, <1>3 DEF DeleteStep

LEMMA ListLookups ==
  ASSUME IInv, ResInv, NEW h \in Hosts, ListStep(h)
  PROVE  Lookups(h)'
  <1> USE DEF IInv, TypeOK
  <1>0. Lookups(h)
    BY DEF ResInv
  <1>1. CASE WriteList(h)
    <2>1. pc'[h] = "idle"
      BY <1>1 DEF WriteList, Forget
    <2> QED
      BY <2>1 DEF Lookups, Ending, Scanning
  <1>2. CASE ~WriteList(h)
    <2> USE DEF ListStep, ScanHydrate, ScanKeep, ScanLookup, ScanProcess, ScanDone
    <2>1. /\ pc[h] \in {"scan", "scanProcess"}
          /\ UNCHANGED <<brokerVars, registry>>
      BY <1>2
    <2>2. pc'[h] \in Scanning \cup {"leave"}
      BY <1>2 DEF Scanning
    <2>3. \A t \in Tasks : /\ Identified(t)' <=> Identified(t)
                           /\ NothingLeft(t)' <=> NothingLeft(t)
                           /\ FilesGone(t)' <=> FilesGone(t)
      BY <2>1 DEF Identified, NothingLeft, FilesGone, SocketsGone, Alive
    \* Files before the process: this much is known when the row is dropped.
    <2>4. pc'[h] = "scanProcess" =>
            cur'[h] \in Tasks /\ (Identified(cur'[h]) => FilesGone(cur'[h]))
      <3>1. CASE \E t \in Tasks : ScanLookup(h, t)
        <4>1. PICK t \in Tasks : ScanLookup(h, t)
          BY <3>1
        <4>2. cur'[h] = t /\ mem[h][t] = registry[t]
          BY <4>1, AtScan DEF TodoInv, Scanning
        <4> QED
          BY <4>1, <4>2 DEF Remnant, FilesGone, SocketsGone, Identified
      <3>2. CASE ~\E t \in Tasks : ScanLookup(h, t)
        <4>1. pc'[h] # "scanProcess"
          BY <1>2, <3>2
        <4> QED
          BY <4>1
      <3> QED
        BY <3>1, <3>2
    <2>5. ASSUME NEW t \in Tasks, Identified(t), mem'[h][t] = NoRow
          PROVE  NothingLeft(t)
      <3>1. CASE mem[h][t] = NoRow
        BY <1>0, <2>1, <2>5, <3>1 DEF Lookups, Scanning
      <3>2. CASE mem[h][t] # NoRow
        <4>1. CASE ScanProcess(h)
          <5>1. /\ t = cur[h] /\ ~(mem[h][t].pid /\ Alive(t))
            BY <2>5, <3>2, <4>1
          <5>2. mem[h][t] = registry[t] /\ registry[t].pid
            BY <2>5, <4>1, <5>1, AtScan DEF Scanning, RowInv, Identified
          <5> QED
            BY <1>0, <2>5, <4>1, <5>1, <5>2
               DEF Lookups, FilesGone, NothingLeft
        <4>2. ASSUME NEW s \in Tasks, ScanHydrate(h, s) PROVE NothingLeft(t)
          <5>1. mem[h][s] \in Row \cup {NoRow} /\ mem[h][s] # NoRow
            BY <4>2, AtScan DEF TodoInv, Scanning
          <5>2. Hydrated(mem[h][s]) # NoRow
            <6>1. Hydrated(mem[h][s]) \in Row
              BY <5>1 DEF Hydrated, Row
            <6> QED
              BY <6>1, NoRowAssumption
          <5> QED
            BY <2>5, <3>2, <4>2, <5>2
        <4>3. CASE UNCHANGED mem
          BY <2>5, <3>2, <4>3
        <4> QED
          BY <1>2, <4>1, <4>2, <4>3
      <3> QED
        BY <3>1, <3>2
    <2> QED
      BY <2>2, <2>3, <2>4, <2>5 DEF Lookups, Ending, Scanning
  <1> QED
    BY <1>1, <1>2

\* A child of the host goes on as it was, is collected, or is started for
\* the broker of an identified row that the host has just seen dead.
LEMMA ChildrenKept ==
  ASSUME IInv, ResInv, NEW h \in Hosts, NEW k \in Hosts,
         Begins(h) \/ HostStep(h) \/ Fault(h)
  PROVE  ChildOfTheDead(k)'
  <1>1. ChildOfTheDead(k) /\ Lookups(h)
    BY DEF ResInv
  <1>2. \A t \in Tasks : Dead(t) => Dead(t)'
    BY HostsAge DEF Ages, Served, Dead
  <1>3. CASE RecoverStart(h)
    <2>1. cur[h] \in Tasks /\ Identified(cur[h]) /\ ~Alive(cur[h])
      BY <1>1, <1>3, AtWork DEF RecoverStart, Lookups, Ending, Working, PCs,
         Scanning
    <2>2. Dead(cur[h])
      BY <2>1, IdentifiedServed DEF Served, Alive, Dead, PastGate, Stopping
    <2>3. \/ cmdTask'[k] = cur[h]
          \/ cmd'[k] = cmd[k] /\ cmdTask'[k] = cmdTask[k]
      BY <1>3 DEF RecoverStart, IInv, TypeOK
    <2> QED
      BY <1>1, <1>2, <2>1, <2>2, <2>3 DEF ChildOfTheDead
  <1>4. CASE ~RecoverStart(h)
    <2>1. \/ cmd'[k] = cmd[k] /\ cmdTask'[k] = cmdTask[k]
          \/ cmd'[k] \in {"none", "stop"}
      BY <1>4, HostsTouchNoFile
    <2> QED
      BY <1>1, <1>2, <2>1 DEF ChildOfTheDead, Recovering
  <1> QED
    BY <1>3, <1>4

LEMMA ChildMoves ==
  ASSUME IInv, ResInv, NEW h \in Hosts, NEW k \in Hosts, Child(h)
  PROVE  ChildOfTheDead(k)'
  <1> USE DEF IInv, TypeOK
  <1>1. ChildOfTheDead(k)
    BY DEF ResInv
  <1>2. \A t \in Tasks : Dead(t) => Dead(t)'
    BY ChildrenAge DEF Ages, Served, Dead
  <1>3. \/ cmd'[k] = cmd[k] /\ cmdTask'[k] = cmdTask[k]
        \/ cmd'[k] \in {"none", "ok", "failed"}
        \/ cmd[k] = "recover" /\ cmdTask'[k] = cmdTask[k]
    <2>1. ASSUME NEW o \in {"ok", "failed"}, ChildExits(h, o)
          PROVE  \/ cmd'[k] = cmd[k] /\ cmdTask'[k] = cmdTask[k]
                 \/ cmd'[k] \in {"none", "ok", "failed"}
      BY <2>1 DEF ChildExits, CollectChild
    <2>2. CASE RecoverSockets(h)
      BY <2>2 DEF RecoverSockets
    <2>3. CASE ~RecoverSockets(h)
      BY <2>1, <2>3 DEF Child, StopDelivered, StopUndelivered, RecoverCgroup,
         RecoverChildFails
    <2> QED
      BY <2>2, <2>3
  <1> QED
    BY <1>1, <1>2, <1>3 DEF ChildOfTheDead, Recovering

-----------------------------------------------------------------------------
(* The theorems                                                            *)

LEMMA InitRes == Init => ResInv
  BY DEF Init, BrokerInit, ResInv, Holds, ChildOfTheDead, Recovering, Lookups,
     Ending, Scanning

LEMMA NextRes == IInv /\ ResInv /\ [Next]_vars => ResInv'
  <1> SUFFICES ASSUME IInv, ResInv, [Next]_vars PROVE ResInv'
    OBVIOUS
  <1>1. ASSUME UNCHANGED vars \/ \E t \in Tasks : Alone(KeeperExits(t))
        PROVE  ResInv'
    <2>0. UNCHANGED <<phase, data, control, cgroup, registry, hostVars, cmdVars>>
      BY <1>1 DEF vars, Alone, KeeperExits
    <2>1. \A t \in Tasks : Ages(t)
      BY <2>0 DEF Ages, Served, Dead
    <2>2. \A h \in Hosts : Lookups(h)'
      BY <2>0, <2>1, LookupsKept
    <2>3. \A t \in Tasks : Holds(t)'
      BY <2>0, HoldsKept
    <2>4. \A h \in Hosts : ChildOfTheDead(h)'
      BY <2>0 DEF ResInv, ChildOfTheDead, Dead
    <2> QED
      BY <2>2, <2>3, <2>4 DEF ResInv
  <1>2. ASSUME NEW t \in Tasks, Alone(BrokerStep(t)) PROVE ResInv'
    <2>1. \A s \in Tasks : Ages(s)
      BY <1>2, BrokersAge DEF Alone
    <2>2. \A h \in Hosts : Lookups(h)'
      BY <1>2, <2>1, LookupsKept DEF Alone
    <2>3. \A s \in Tasks : Holds(s)'
      BY <1>2, HoldsKept
    <2>4. \A h \in Hosts : ChildOfTheDead(h)'
      BY <1>2, <2>1 DEF Alone, Ages, Served, ResInv, ChildOfTheDead, Dead
    <2> QED
      BY <2>2, <2>3, <2>4 DEF ResInv
  <1>3. ASSUME NEW h \in Hosts, Child(h) PROVE ResInv'
    <2>1. UNCHANGED <<registry, hostVars>>
      BY <1>3 DEF Child, StopDelivered, StopUndelivered, RecoverSockets,
         RecoverCgroup, RecoverChildFails
    <2>2. \A k \in Hosts : Lookups(k)'
      BY <1>3, <2>1, ChildrenAge, LookupsKept
    <2>3. \A t \in Tasks : Holds(t)'
      BY <1>3, HoldsKept
    <2> QED
      BY <1>3, <2>2, <2>3, ChildMoves DEF ResInv
  <1>4. ASSUME NEW h \in Hosts, Begins(h) \/ HostStep(h) \/ Fault(h) PROVE ResInv'
    <2>1. Lookups(h)'
      <3>1. CASE Begins(h)
        BY <3>1, BeginsLookups
      <3>2. CASE CreateStep(h) \/ DeleteStep(h) \/ ListStep(h)
        BY <3>2, CreateLookups, DeleteLookups, ListLookups
      <3>3. CASE WriteEdit(h) \/ Fault(h)
        <4>1. pc'[h] \in {"idle", "leave"}
          BY <3>3 DEF WriteEdit, Fault, WriteFails, ScanThrows, HostCrash,
             Forget, IInv, TypeOK
        <4> QED
          BY <4>1 DEF Lookups, Ending, Scanning
      <3> QED
        BY <1>4, <3>1, <3>2, <3>3 DEF HostStep
    <2>2. \A k \in Hosts \ {h} : Lookups(k)'
      <3>1. \A k \in Hosts \ {h} : pc'[k] = "idle"
        BY <1>4, HostsTouchNoFile
      <3> QED
        BY <3>1 DEF Lookups, Ending, Scanning
    <2>3. \A t \in Tasks : Holds(t)'
      BY <1>4, HoldsKept
    <2> QED
      BY <1>4, <2>1, <2>2, <2>3, ChildrenKept DEF ResInv
  <1> QED
    BY <1>1, <1>2, <1>3, <1>4 DEF Next

LEMMA ResourcesHeld == Spec => []ResInv
  BY InitRes, NextRes, Invariance, PTL DEF Spec

\* Neither a stop that races it nor a recover child of a crashed host takes
\* a socket or the cgroup away from a broker that still serves, whatever the
\* number of hosts and tasks.
THEOREM ServingIntact == Spec => []ServingBrokerIntact
  <1>1. ResInv => ServingBrokerIntact
    BY DEF ResInv, Holds, ServingBrokerIntact, Serving
  <1> QED
    BY <1>1, ResourcesHeld, PTL

\* A write that drops an identified row comes after lookups that found
\* nothing of its broker, and nothing of it came back since.
LEMMA CleanWrite ==
  ASSUME IInv, ResInv, NEW h \in Hosts, Writes(h), NEW t \in Tasks,
         Identified(t), registry'[t] = NoRow
  PROVE  NothingLeft(t)
  <1>0. Lookups(h)
    BY DEF ResInv
  <1>1. registry' = mem[h]
    BY DEF Writes, Register, PublishPid, PublishRunning, Record, Unregister,
       WriteList, WriteEdit
  <1>2. CASE WriteList(h)
    BY <1>0, <1>1, <1>2 DEF WriteList, Lookups, Scanning
  <1>3. CASE Unregister(h)
    <2>1. \A s \in Tasks \ {cur[h]} : mem[h][s] = registry[s]
      BY <1>3, AtWork DEF Unregister, Working, PCs, Scanning
    <2> QED
      BY <1>0, <1>1, <1>3, <2>1 DEF Unregister, Lookups, Identified
  <1>4. CASE \/ Register(h) \/ PublishPid(h) \/ PublishRunning(h) \/ Record(h)
             \/ WriteEdit(h)
    <2>1. /\ CurInv(h, cur[h])
          /\ \A s \in Tasks \ {cur[h]} : mem[h][s] = registry[s]
      BY <1>4, AtWork DEF Register, PublishPid, PublishRunning, Record, WriteEdit,
         Working, PCs, Scanning
    <2>2. mem[h][cur[h]] # NoRow
      BY <1>4, <2>1 DEF Register, PublishPid, PublishRunning, Record, WriteEdit,
         CurInv
    <2> QED
      BY <1>1, <2>1, <2>2 DEF Identified
  <1> QED
    BY <1>2, <1>3, <1>4 DEF Writes

\* delete, the rollback of create and list drop an identified row only when
\* the process, both sockets and the cgroup are gone at that very step.
THEOREM RemovalIsClean == Spec => IdentifiedRemovalIsClean
  <1>1. IInv /\ ResInv /\ [Next]_vars =>
          [\A t \in Tasks :
             /\ registry[t] # NoRow /\ registry[t].ident
             /\ registry'[t] = NoRow
             => NothingLeft(t)]_vars
    <2> SUFFICES ASSUME IInv, ResInv, [Next]_vars, NEW t \in Tasks,
                        Identified(t), registry'[t] = NoRow
                 PROVE  NothingLeft(t)
      BY DEF Identified
    <2>1. registry'[t] # registry[t]
      BY DEF Identified
    <2>2. CASE UNCHANGED vars
      BY <2>1, <2>2 DEF vars
    <2>3. ASSUME NEW h \in Hosts, Writes(h)
          PROVE  NothingLeft(t)
      BY <2>3, CleanWrite
    <2>4. ASSUME NEW h \in Hosts, ~Writes(h),
                 Begins(h) \/ HostStep(h) \/ Child(h) \/ Fault(h)
          PROVE  FALSE
      BY <2>1, <2>4, OtherHostSteps
    <2>5. ASSUME NEW s \in Tasks, Alone(BrokerStep(s)) \/ Alone(KeeperExits(s))
          PROVE  FALSE
      BY <2>1, <2>5 DEF Alone
    <2> QED
      BY <2>2, <2>3, <2>4, <2>5 DEF Next
  <1> QED
    BY <1>1, Invariance, ResourcesHeld, PTL DEF Spec, IdentifiedRemovalIsClean
=============================================================================
