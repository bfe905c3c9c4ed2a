----------------------------- MODULE TaskStore -----------------------------
(***************************************************************************)
(* The task registry and the transactions that extension hosts run over it *)
(* (src/task-store.ts), composed with the brokers they start and stop.     *)
(*                                                                         *)
(* A transaction holds the registry lock from Begin to Release; between    *)
(* the two it keeps a private copy of the file (mem), and every await is a *)
(* step boundary at which brokers, child commands and crashes interleave.  *)
(* A host is one extension-host process, or one of the concurrent calls    *)
(* inside it: the lock is an open file description, so both queue alike.   *)
(*                                                                         *)
(* Faults are unlimited: any write may fail, any probe may time out, and   *)
(* any host or broker may die between two steps.                           *)
(***************************************************************************)
EXTENDS BrokerProcess, FiniteSets

CONSTANTS
  Hosts,      \* extension hosts sharing one registry file
  Names,      \* display names
  MaxTasks,   \* sharedTerminals.maxTasks
  NoHost, NoTask, NoRow

ASSUME MaxTasksAssumption == MaxTasks \in Nat \ {0}
ASSUME NoHostAssumption == NoHost \notin Hosts
ASSUME NoTaskAssumption == NoTask \notin Tasks

\* `pid': PID and start ticks are recorded.  `ident': the device and inode of
\* both sockets and of the cgroup, and its path, are recorded.
Row == [state : {"starting", "running"}, pid : BOOLEAN, ident : BOOLEAN,
        name : Names, open : BOOLEAN]

ASSUME NoRowAssumption == NoRow \notin Row

VARIABLES
  registry,   \* the registry file: a row or NoRow per task id
  lock,       \* the holder of the registry flock
  pc,         \* where each host's transaction stands
  op,         \* create, delete: what a failed stop falls back to
  cur,        \* the task it works on
  mem,        \* its private copy of the registry
  todo,       \* list(): starting rows still to be examined
  verify,     \* stopBroker's verifyStatus argument
  cmd,        \* the stop or recover child process of each host
  cmdTask     \* the task that child works on

hostVars == <<lock, pc, op, cur, mem, todo, verify>>
cmdVars == <<cmd, cmdTask>>
vars == <<brokerVars, registry, hostVars, cmdVars>>

EmptyRegistry == [t \in Tasks |-> NoRow]

PCs == {"idle", "register", "spawn", "publishPid", "release", "await",
        "hydrate", "publishRunning", "identify", "record", "probeProcess",
        "probeSockets", "stopVerify", "stopSend", "stopAck", "stopPoll",
        "recoverCheck", "recoverWait", "unregister", "scan", "scanProcess",
        "writeList", "edit", "leave"}

Recovering == {"recover", "recoverCgroup"}
Commands == {"none", "stop", "ok", "failed"} \cup Recovering

TypeOK ==
  /\ BrokerTypeOK
  /\ registry \in [Tasks -> Row \cup {NoRow}]
  /\ lock \in Hosts \cup {NoHost}
  /\ pc \in [Hosts -> PCs]
  /\ op \in [Hosts -> {"none", "create", "delete", "list", "edit"}]
  /\ cur \in [Hosts -> Tasks \cup {NoTask}]
  /\ mem \in [Hosts -> [Tasks -> Row \cup {NoRow}]]
  /\ todo \in [Hosts -> SUBSET Tasks]
  /\ verify \in [Hosts -> BOOLEAN]
  /\ cmd \in [Hosts -> Commands]
  /\ cmdTask \in [Hosts -> Tasks \cup {NoTask}]

Init ==
  /\ BrokerInit
  /\ registry = EmptyRegistry
  /\ lock = NoHost
  /\ pc = [h \in Hosts |-> "idle"]
  /\ op = [h \in Hosts |-> "none"]
  /\ cur = [h \in Hosts |-> NoTask]
  /\ mem = [h \in Hosts |-> EmptyRegistry]
  /\ todo = [h \in Hosts |-> {}]
  /\ verify = [h \in Hosts |-> FALSE]
  /\ cmd = [h \in Hosts |-> "none"]
  /\ cmdTask = [h \in Hosts |-> NoTask]

-----------------------------------------------------------------------------
(* The registry file.                                                      *)

Present(r) == {t \in Tasks : r[t] # NoRow}

\* validateRegistryTask for one row
ValidRow(row) ==
  /\ row.state = "running" => row.ident
  /\ row.ident => row.pid

\* What readRegistry accepts.
Readable(r) ==
  /\ Cardinality(Present(r)) <= MaxTasks
  /\ \A t \in Present(r) : ValidRow(r[t])
  /\ \A s, t \in Present(r) : r[s].name = r[t].name => s = t

NameTaken(r, n, t) == \E s \in Present(r) \ {t} : r[s].name = n

-----------------------------------------------------------------------------
(* The shape of a transaction.                                             *)

Step(h, p) == pc' = [pc EXCEPT ![h] = p]
Edit(h, t, row) == mem' = [mem EXCEPT ![h][t] = row]

\* Mutant: the lock is taken without waiting for its holder.
BeginUnlocked(h, o, p, t) ==
  /\ pc[h] = "idle" /\ Readable(registry)
  /\ lock' = h
  /\ Step(h, p)
  /\ op' = [op EXCEPT ![h] = o]
  /\ cur' = [cur EXCEPT ![h] = t]

\* withLock and readRegistry.  A lock that times out and a registry that
\* cannot be read are operations that never begin.
Begin(h, o, p, t) ==
  /\ lock = NoHost /\ pc[h] = "idle"
  /\ Readable(registry)
  /\ lock' = h
  /\ Step(h, p)
  /\ op' = [op EXCEPT ![h] = o]
  /\ cur' = [cur EXCEPT ![h] = t]

\* The critical section ends and its local variables are gone.
Forget(h) ==
  /\ lock' = IF lock = h THEN NoHost ELSE lock
  /\ Step(h, "idle")
  /\ op' = [op EXCEPT ![h] = "none"]
  /\ cur' = [cur EXCEPT ![h] = NoTask]
  /\ mem' = [mem EXCEPT ![h] = EmptyRegistry]
  /\ todo' = [todo EXCEPT ![h] = {}]
  /\ verify' = [verify EXCEPT ![h] = FALSE]

\* writeRegistry: a rename publishes the whole file, or nothing changed.
Publish(h) == registry' = mem[h]

-----------------------------------------------------------------------------
(* create                                                                  *)

\* A fresh randomUUID: nothing anywhere bears this id.
Fresh(t) == registry[t] = NoRow /\ phase[t] = "none"

BeginCreate(h, t, n) ==
  /\ Fresh(t)
  /\ ~NameTaken(registry, n, t)
  /\ Cardinality(Present(registry)) < MaxTasks
  /\ Begin(h, "create", "register", t)
  /\ mem' = [mem EXCEPT ![h] = [registry EXCEPT ![t] =
       [state |-> "starting", pid |-> FALSE, ident |-> FALSE,
        name |-> n, open |-> TRUE]]]
  /\ UNCHANGED <<brokerVars, registry, todo, verify, cmdVars>>

\* The first write is outside create's try: a failure only unlocks.
Register(h) ==
  /\ pc[h] = "register"
  /\ Publish(h)
  /\ Step(h, "spawn")
  /\ UNCHANGED <<brokerVars, lock, op, cur, mem, todo, verify, cmdVars>>

\* Mutant: the child is started without a gate.
SpawnUngated(h) ==
  /\ pc[h] = "spawn"
  /\ phase' = [phase EXCEPT ![cur[h]] = "gate"]
  /\ gate' = [gate EXCEPT ![cur[h]] = "released"]
  /\ Edit(h, cur[h], [mem[h][cur[h]] EXCEPT !.pid = TRUE])
  /\ Step(h, "publishPid")
  /\ UNCHANGED <<data, control, cgroup, registry, lock, op, cur, todo,
                 verify, cmdVars>>

\* ProcessRunner.start resolves: the child waits at the gate.
Spawn(h) ==
  LET t == cur[h] IN
  /\ pc[h] = "spawn"
  /\ phase' = [phase EXCEPT ![t] = "gate"]
  /\ gate' = [gate EXCEPT ![t] = "held"]
  /\ Edit(h, t, [mem[h][t] EXCEPT !.pid = TRUE])
  /\ Step(h, "publishPid")
  /\ UNCHANGED <<data, control, cgroup, registry, lock, op, cur, todo,
                 verify, cmdVars>>

\* It rejects, and `started' stays undefined: there is no process; or it shows
\* no start ticks and is killed at its gate, which ends like a closed one; or
\* reading them throws, and the child is left there with a pipe that nobody
\* will write to or close.
SpawnFails(h) ==
  LET t == cur[h] IN
  /\ pc[h] = "spawn"
  /\ \/ UNCHANGED <<phase, gate>>
     \/ /\ phase' = [phase EXCEPT ![t] = "gate"]
        /\ \E g \in {"closed", "forgotten"} : gate' = [gate EXCEPT ![t] = g]
  /\ Edit(h, t, NoRow)
  /\ Step(h, "unregister")
  /\ UNCHANGED <<data, control, cgroup, registry, lock, op, cur, todo,
                 verify, cmdVars>>

PublishPid(h) ==
  /\ pc[h] = "publishPid"
  /\ Publish(h)
  /\ Step(h, "release")
  /\ UNCHANGED <<brokerVars, lock, op, cur, mem, todo, verify, cmdVars>>

\* The write failed: cancelStartup, then look for an identity.
PublishPidFails(h) ==
  /\ pc[h] = "publishPid"
  /\ gate' = [gate EXCEPT ![cur[h]] = "closed"]
  /\ Step(h, "identify")
  /\ UNCHANGED <<phase, data, control, cgroup, registry, lock, op, cur, mem,
                 todo, verify, cmdVars>>

ReleaseStartup(h) ==
  /\ pc[h] = "release"
  /\ gate' = [gate EXCEPT ![cur[h]] = "released"]
  /\ Step(h, "await")
  /\ UNCHANGED <<phase, data, control, cgroup, registry, lock, op, cur, mem,
                 todo, verify, cmdVars>>

\* waitForBroker: an empty P reply within 50 probes, or the start fails.
Await(h) ==
  /\ pc[h] = "await"
  /\ Serving(cur[h])
  /\ Step(h, "hydrate")
  /\ UNCHANGED <<brokerVars, registry, lock, op, cur, mem, todo, verify,
                 cmdVars>>

\* Mutant: the wait for a broker that died has no limit.
AwaitFailsWhileAlive(h) ==
  /\ pc[h] = "await" /\ Alive(cur[h])
  /\ Step(h, "identify")
  /\ UNCHANGED <<brokerVars, registry, lock, op, cur, mem, todo, verify,
                 cmdVars>>

AwaitFails(h) ==
  /\ pc[h] = "await"
  /\ Step(h, "identify")
  /\ UNCHANGED <<brokerVars, registry, lock, op, cur, mem, todo, verify,
                 cmdVars>>

\* hydrateBrokerIdentity succeeds: a status reply from the recorded process,
\* between two lookups of its sockets and its cgroup.
Hydrated(row) == [row EXCEPT !.state = "running", !.ident = TRUE]

Hydrate(h) ==
  /\ pc[h] = "hydrate"
  /\ Serving(cur[h])
  /\ Edit(h, cur[h], Hydrated(mem[h][cur[h]]))
  /\ Step(h, "publishRunning")
  /\ UNCHANGED <<brokerVars, registry, lock, op, cur, todo, verify, cmdVars>>

HydrateFails(h) ==
  /\ pc[h] = "hydrate"
  /\ Step(h, "identify")
  /\ UNCHANGED <<brokerVars, registry, lock, op, cur, mem, todo, verify,
                 cmdVars>>

\* The task is created.
PublishRunning(h) ==
  /\ pc[h] = "publishRunning"
  /\ Publish(h)
  /\ Forget(h)
  /\ UNCHANGED <<brokerVars, cmdVars>>

\* The identity is complete already: record it in a starting row.
PublishRunningFails(h) ==
  /\ pc[h] = "publishRunning"
  /\ Edit(h, cur[h], [mem[h][cur[h]] EXCEPT !.state = "starting"])
  /\ verify' = [verify EXCEPT ![h] = TRUE]
  /\ Step(h, "record")
  /\ UNCHANGED <<brokerVars, registry, lock, op, cur, todo, cmdVars>>

\* Mutant: the identity is recorded before the broker answered.
IdentifyUnasked(h) ==
  /\ pc[h] = "identify"
  /\ Edit(h, cur[h], [mem[h][cur[h]] EXCEPT !.ident = TRUE])
  /\ \E v \in BOOLEAN : verify' = [verify EXCEPT ![h] = v]
  /\ Step(h, "record")
  /\ UNCHANGED <<brokerVars, registry, lock, op, cur, todo, cmdVars>>

\* create's catch asks the broker once more: hydrateBrokerIdentity, and if
\* that fails captureStartingBrokerIdentity, whose stop skips the status.
Identify(h) ==
  /\ pc[h] = "identify"
  /\ Serving(cur[h])
  /\ Edit(h, cur[h], [mem[h][cur[h]] EXCEPT !.ident = TRUE])
  /\ \E v \in BOOLEAN : verify' = [verify EXCEPT ![h] = v]
  /\ Step(h, "record")
  /\ UNCHANGED <<brokerVars, registry, lock, op, cur, todo, cmdVars>>

IdentifyFails(h) ==
  /\ pc[h] = "identify"
  /\ Step(h, "probeProcess")
  /\ UNCHANGED <<brokerVars, registry, lock, op, cur, mem, todo, verify,
                 cmdVars>>

\* Only with the full identity on disk may the rollback stop the broker.
Record(h) ==
  /\ pc[h] = "record"
  /\ Publish(h)
  /\ Step(h, "stopVerify")
  /\ UNCHANGED <<brokerVars, lock, op, cur, mem, todo, verify, cmdVars>>

\* No identity: unregister only if the process and then both sockets are
\* gone.  No cgroup path is known at this point, and none is looked up.
ProbeProcess(h) ==
  /\ pc[h] = "probeProcess"
  /\ ~Alive(cur[h])
  /\ Step(h, "probeSockets")
  /\ UNCHANGED <<brokerVars, registry, lock, op, cur, mem, todo, verify,
                 cmdVars>>

ProbeSockets(h) ==
  /\ pc[h] = "probeSockets"
  /\ SocketsGone(cur[h])
  /\ Edit(h, cur[h], NoRow)
  /\ Step(h, "unregister")
  /\ UNCHANGED <<brokerVars, registry, lock, op, cur, todo, verify, cmdVars>>

\* A resource or the process survives, or a lookup throws.
ProbeFails(h) ==
  /\ pc[h] \in {"probeProcess", "probeSockets"}
  /\ Step(h, "leave")
  /\ UNCHANGED <<brokerVars, registry, lock, op, cur, mem, todo, verify,
                 cmdVars>>

\* The last write of a rollback or of a delete.
Unregister(h) ==
  /\ pc[h] = "unregister"
  /\ Publish(h)
  /\ Forget(h)
  /\ UNCHANGED <<brokerVars, cmdVars>>

-----------------------------------------------------------------------------
(* delete, and the stop and recover it shares with create's rollback       *)

\* Mutant: a delete always asks the broker to stop, even one that is gone.
BeginDeleteAsking(h, t) ==
  /\ registry[t] # NoRow
  /\ Begin(h, "delete", "stopVerify", t)
  /\ mem' = [mem EXCEPT ![h] = registry]
  /\ verify' = [verify EXCEPT ![h] = TRUE]
  /\ UNCHANGED <<brokerVars, registry, todo, cmdVars>>

BeginDelete(h, t) ==
  /\ registry[t] # NoRow
  /\ Begin(h, "delete", IF registry[t].ident /\ ~Alive(t)
                        THEN "recoverCheck" ELSE "stopVerify", t)
  /\ mem' = [mem EXCEPT ![h] = registry]
  /\ verify' = [verify EXCEPT ![h] = TRUE]
  /\ UNCHANGED <<brokerVars, registry, todo, cmdVars>>

\* stopBroker's identity check: everything recorded is still there.
StopVerify(h) ==
  LET t == cur[h] IN
  /\ pc[h] = "stopVerify"
  /\ mem[h][t].ident
  /\ verify[h] => Serving(t)
  /\ Alive(t) /\ data[t] /\ control[t] /\ cgroup[t]
  /\ Step(h, "stopSend")
  /\ UNCHANGED <<brokerVars, registry, lock, op, cur, mem, todo, verify,
                 cmdVars>>

\* The stop child starts.  A crashed host's child may still be running; a
\* second one of the same host is another member of Hosts.
StopSend(h) ==
  /\ pc[h] = "stopSend"
  /\ cmd[h] = "none"
  /\ cmd' = [cmd EXCEPT ![h] = "stop"]
  /\ cmdTask' = [cmdTask EXCEPT ![h] = cur[h]]
  /\ Step(h, "stopAck")
  /\ UNCHANGED <<brokerVars, registry, lock, op, cur, mem, todo, verify>>

CollectChild(h) ==
  /\ cmd' = [cmd EXCEPT ![h] = "none"]
  /\ cmdTask' = [cmdTask EXCEPT ![h] = NoTask]

StopAcked(h) ==
  /\ pc[h] = "stopAck" /\ cmd[h] = "ok"
  /\ CollectChild(h)
  /\ Step(h, "stopPoll")
  /\ UNCHANGED <<brokerVars, registry, lock, op, cur, mem, todo, verify>>

\* Mutant: the poll does not look at the sockets.
StopConfirmedEarly(h) ==
  /\ pc[h] = "stopPoll"
  /\ ~Alive(cur[h]) /\ ~cgroup[cur[h]]
  /\ Edit(h, cur[h], NoRow)
  /\ Step(h, "unregister")
  /\ UNCHANGED <<brokerVars, registry, lock, op, cur, todo, verify, cmdVars>>

\* Up to 500 polls: process, both sockets and cgroup are all gone.
StopConfirmed(h) ==
  /\ pc[h] = "stopPoll"
  /\ NothingLeft(cur[h])
  /\ Edit(h, cur[h], NoRow)
  /\ Step(h, "unregister")
  /\ UNCHANGED <<brokerVars, registry, lock, op, cur, todo, verify, cmdVars>>

\* Where stopBroker's exception takes its caller.
AfterFailedStop(h) == IF op[h] = "create" THEN "recoverCheck" ELSE "leave"

\* The identity check refuses or cannot be made, or the polls run out.
StopFails(h) ==
  /\ pc[h] \in {"stopVerify", "stopPoll"}
  /\ Step(h, AfterFailedStop(h))
  /\ UNCHANGED <<brokerVars, registry, lock, op, cur, mem, todo, verify,
                 cmdVars>>

StopRejected(h) ==
  /\ pc[h] = "stopAck" /\ cmd[h] = "failed"
  /\ CollectChild(h)
  /\ Step(h, AfterFailedStop(h))
  /\ UNCHANGED <<brokerVars, registry, lock, op, cur, mem, todo, verify>>

\* recoverBrokerRemnants starts its child only for a dead broker.
RecoverStart(h) ==
  /\ pc[h] = "recoverCheck"
  /\ ~Alive(cur[h])
  /\ cmd[h] = "none"
  /\ cmd' = [cmd EXCEPT ![h] = "recover"]
  /\ cmdTask' = [cmdTask EXCEPT ![h] = cur[h]]
  /\ Step(h, "recoverWait")
  /\ UNCHANGED <<brokerVars, registry, lock, op, cur, mem, todo, verify>>

RecoverRefused(h) ==
  /\ pc[h] = "recoverCheck"
  /\ Step(h, "leave")
  /\ UNCHANGED <<brokerVars, registry, lock, op, cur, mem, todo, verify,
                 cmdVars>>

RecoverConfirmed(h) ==
  /\ pc[h] = "recoverWait" /\ cmd[h] = "ok"
  /\ NothingLeft(cur[h])
  /\ CollectChild(h)
  /\ Edit(h, cur[h], NoRow)
  /\ Step(h, "unregister")
  /\ UNCHANGED <<brokerVars, registry, lock, op, cur, todo, verify>>

RecoverFails(h) ==
  /\ pc[h] = "recoverWait" /\ cmd[h] \in {"ok", "failed"}
  /\ CollectChild(h)
  /\ Step(h, "leave")
  /\ UNCHANGED <<brokerVars, registry, lock, op, cur, mem, todo, verify>>

\* The lock is released with no write: an exception that keeps the row, or
\* a list that changed nothing.
Leave(h) ==
  /\ pc[h] = "leave"
  /\ Forget(h)
  /\ UNCHANGED <<brokerVars, registry, cmdVars>>

-----------------------------------------------------------------------------
(* The stop and recover children: they outlive the host that started them. *)

Waiting(h) == pc[h] \in {"stopAck", "recoverWait"}

\* The child exits; only a host that still waits reads the outcome.
ChildExits(h, outcome) ==
  IF Waiting(h)
  THEN cmd' = [cmd EXCEPT ![h] = outcome] /\ UNCHANGED cmdTask
  ELSE CollectChild(h)

\* Mutant: the stop frame kills the cgroup and the loop goes on.
StopDeliveredInLoop(h) ==
  /\ cmd[h] = "stop" /\ Serving(cmdTask[h])
  /\ cgroup' = [cgroup EXCEPT ![cmdTask[h]] = FALSE]
  /\ ChildExits(h, "ok")
  /\ UNCHANGED <<phase, gate, data, control, registry, hostVars>>

\* run_stop: the broker acknowledges and leaves its loop; the
\* acknowledgement may come too late for the child's one-second timeout.
StopDelivered(h) ==
  /\ cmd[h] = "stop"
  /\ LoopEnds(cmdTask[h])
  /\ \E outcome \in {"ok", "failed"} : ChildExits(h, outcome)
  /\ UNCHANGED <<registry, hostVars>>

StopUndelivered(h) ==
  /\ cmd[h] = "stop"
  /\ ChildExits(h, "failed")
  /\ UNCHANGED <<brokerVars, registry, hostVars>>

\* run_recover under the socket namespace lock: the process entry is gone
\* (a zombie is not), then the data and the control socket are removed.
RecoverSockets(h) ==
  LET t == cmdTask[h] IN
  /\ cmd[h] = "recover"
  /\ phase[t] \in {"none", "gone"}
  /\ data' = [data EXCEPT ![t] = FALSE]
  /\ control' = [control EXCEPT ![t] = FALSE]
  /\ cmd' = [cmd EXCEPT ![h] = "recoverCgroup"]
  /\ UNCHANGED <<phase, gate, cgroup, registry, hostVars, cmdTask>>

RecoverCgroup(h) ==
  /\ cmd[h] = "recoverCgroup"
  /\ cgroup' = [cgroup EXCEPT ![cmdTask[h]] = FALSE]
  /\ ChildExits(h, "ok")
  /\ UNCHANGED <<phase, gate, data, control, registry, hostVars>>

\* It refuses, or fails after removing the first socket.
RecoverChildFails(h) ==
  LET t == cmdTask[h] IN
  /\ cmd[h] \in Recovering
  /\ \/ UNCHANGED data
     \/ /\ cmd[h] = "recover" /\ phase[t] \in {"none", "gone"}
        /\ data' = [data EXCEPT ![t] = FALSE]
  /\ ChildExits(h, "failed")
  /\ UNCHANGED <<phase, gate, control, cgroup, registry, hostVars>>

-----------------------------------------------------------------------------
(* list                                                                    *)

StartingRows(r) == {t \in Present(r) : r[t].state = "starting"}

BeginList(h) ==
  /\ Begin(h, "list", "scan", NoTask)
  /\ mem' = [mem EXCEPT ![h] = registry]
  /\ todo' = [todo EXCEPT ![h] = StartingRows(registry)]
  /\ UNCHANGED <<brokerVars, registry, verify, cmdVars>>

\* A live starting row is promoted.
ScanHydrate(h, t) ==
  /\ pc[h] = "scan" /\ t \in todo[h]
  /\ mem[h][t].pid /\ Serving(t)
  /\ Edit(h, t, Hydrated(mem[h][t]))
  /\ todo' = [todo EXCEPT ![h] = @ \ {t}]
  /\ UNCHANGED <<brokerVars, registry, lock, pc, op, cur, verify, cmdVars>>

\* Hydration failed and a resource the row leads to is there: keep the row.
\* The cgroup is looked up only if its path is recorded.
Remnant(t, row) == data[t] \/ control[t] \/ (row.ident /\ cgroup[t])

ScanKeep(h, t) ==
  /\ pc[h] = "scan" /\ t \in todo[h]
  /\ Remnant(t, mem[h][t])
  /\ todo' = [todo EXCEPT ![h] = @ \ {t}]
  /\ UNCHANGED <<brokerVars, registry, lock, pc, op, cur, mem, verify,
                 cmdVars>>

\* Nothing is there: the process is looked up after the files were.
ScanLookup(h, t) ==
  /\ pc[h] = "scan" /\ t \in todo[h]
  /\ ~Remnant(t, mem[h][t])
  /\ todo' = [todo EXCEPT ![h] = @ \ {t}]
  /\ cur' = [cur EXCEPT ![h] = t]
  /\ Step(h, "scanProcess")
  /\ UNCHANGED <<brokerVars, registry, lock, op, mem, verify, cmdVars>>

\* Mutant: the row is pruned without looking for the process ...
ScanProcessUnseen(h) ==
  /\ pc[h] = "scanProcess"
  /\ Edit(h, cur[h], NoRow)
  /\ cur' = [cur EXCEPT ![h] = NoTask]
  /\ Step(h, "scan")
  /\ UNCHANGED <<brokerVars, registry, lock, op, todo, verify, cmdVars>>

\* Mutant: ... or kept for a PID whose process exited.
ScanProcessTrusting(h) ==
  /\ pc[h] = "scanProcess"
  /\ IF mem[h][cur[h]].pid THEN UNCHANGED mem ELSE Edit(h, cur[h], NoRow)
  /\ cur' = [cur EXCEPT ![h] = NoTask]
  /\ Step(h, "scan")
  /\ UNCHANGED <<brokerVars, registry, lock, op, todo, verify, cmdVars>>

ScanProcess(h) ==
  LET t == cur[h] IN
  /\ pc[h] = "scanProcess"
  /\ IF mem[h][t].pid /\ Alive(t)
       THEN UNCHANGED mem
       ELSE Edit(h, t, NoRow)
  /\ cur' = [cur EXCEPT ![h] = NoTask]
  /\ Step(h, "scan")
  /\ UNCHANGED <<brokerVars, registry, lock, op, todo, verify, cmdVars>>

\* Every row was examined: write if anything changed.
ScanDone(h) ==
  /\ pc[h] = "scan" /\ todo[h] = {}
  /\ Step(h, IF mem[h] = registry THEN "leave" ELSE "writeList")
  /\ UNCHANGED <<brokerVars, registry, lock, op, cur, mem, todo, verify,
                 cmdVars>>

WriteList(h) ==
  /\ pc[h] = "writeList"
  /\ Publish(h)
  /\ Forget(h)
  /\ UNCHANGED <<brokerVars, cmdVars>>

-----------------------------------------------------------------------------
(* rename, setOpen, closeIfPresent                                         *)

\* Mutant: the new name is not compared with those of the other rows.
BeginRenameUnchecked(h, t, n) ==
  /\ registry[t] # NoRow
  /\ Begin(h, "edit", "edit", t)
  /\ mem' = [mem EXCEPT ![h] = [registry EXCEPT ![t].name = n]]
  /\ UNCHANGED <<brokerVars, registry, todo, verify, cmdVars>>

BeginRename(h, t, n) ==
  /\ registry[t] # NoRow
  /\ ~NameTaken(registry, n, t)
  /\ Begin(h, "edit", "edit", t)
  /\ mem' = [mem EXCEPT ![h] = [registry EXCEPT ![t].name = n]]
  /\ UNCHANGED <<brokerVars, registry, todo, verify, cmdVars>>

\* closeIfPresent is setOpen(FALSE) that skips a row that is closed.
BeginSetOpen(h, t, o) ==
  /\ registry[t] # NoRow
  /\ Begin(h, "edit", "edit", t)
  /\ mem' = [mem EXCEPT ![h] = [registry EXCEPT ![t].open = o]]
  /\ UNCHANGED <<brokerVars, registry, todo, verify, cmdVars>>

WriteEdit(h) ==
  /\ pc[h] = "edit"
  /\ Publish(h)
  /\ Forget(h)
  /\ UNCHANGED <<brokerVars, cmdVars>>

-----------------------------------------------------------------------------
(* Faults                                                                  *)

\* writeRegistry throws where the caller only passes the exception on.
\* (publishPid and publishRunning have handlers of their own.)
WriteFails(h) ==
  /\ pc[h] \in {"register", "record", "unregister", "writeList", "edit"}
  /\ Step(h, "leave")
  /\ UNCHANGED <<brokerVars, registry, lock, op, cur, mem, todo, verify,
                 cmdVars>>

\* list() rethrows when a lookup throws.
ScanThrows(h) ==
  /\ pc[h] \in {"scan", "scanProcess"}
  /\ Step(h, "leave")
  /\ UNCHANGED <<brokerVars, registry, lock, op, cur, mem, todo, verify,
                 cmdVars>>

\* Mutant: the broker inherits the writing end of its own gate.
HostCrashGateHeld(h) ==
  /\ pc[h] # "idle"
  /\ Forget(h)
  /\ IF cmd[h] \in {"ok", "failed"} THEN CollectChild(h)
                                    ELSE UNCHANGED cmdVars
  /\ UNCHANGED <<brokerVars, registry>>

\* The extension host dies: its lock descriptor and its gate pipes close.
\* An unwritten gate reads EOF; a written one keeps its byte.
HostCrash(h) ==
  /\ pc[h] # "idle"
  /\ Forget(h)
  /\ gate' = [t \in Tasks |->
       IF cur[h] = t /\ gate[t] = "held" THEN "closed" ELSE gate[t]]
  /\ IF cmd[h] \in {"ok", "failed"} THEN CollectChild(h)
                                    ELSE UNCHANGED cmdVars
  /\ UNCHANGED <<phase, data, control, cgroup, registry>>

\* The host that forgot a gate exits, in a transaction or between two.  (What
\* else its exit does is the HostCrash of each of its transactions.)
KeeperExits(t) ==
  /\ phase[t] = "gate" /\ gate[t] = "forgotten"
  /\ gate' = [gate EXCEPT ![t] = "closed"]
  /\ UNCHANGED <<phase, data, control, cgroup>>

-----------------------------------------------------------------------------
Begins(h) ==
  \/ BeginList(h)
  \/ \E t \in Tasks :
       \/ BeginDelete(h, t)
       \/ \E n \in Names : BeginCreate(h, t, n) \/ BeginRename(h, t, n)
       \/ \E o \in BOOLEAN : BeginSetOpen(h, t, o)

CreateStep(h) ==
  \/ Register(h) \/ Spawn(h) \/ SpawnFails(h)
  \/ PublishPid(h) \/ PublishPidFails(h) \/ ReleaseStartup(h)
  \/ Await(h) \/ AwaitFails(h) \/ Hydrate(h) \/ HydrateFails(h)
  \/ PublishRunning(h) \/ PublishRunningFails(h)
  \/ Identify(h) \/ IdentifyFails(h) \/ Record(h)
  \/ ProbeProcess(h) \/ ProbeSockets(h) \/ ProbeFails(h)

DeleteStep(h) ==
  \/ StopVerify(h) \/ StopSend(h) \/ StopAcked(h) \/ StopConfirmed(h)
  \/ StopFails(h) \/ StopRejected(h)
  \/ RecoverStart(h) \/ RecoverRefused(h) \/ RecoverConfirmed(h)
  \/ RecoverFails(h) \/ Unregister(h) \/ Leave(h)

ListStep(h) ==
  \/ \E t \in Tasks : ScanHydrate(h, t) \/ ScanKeep(h, t) \/ ScanLookup(h, t)
  \/ ScanProcess(h) \/ ScanDone(h) \/ WriteList(h)

\* A transaction in progress goes on.
HostStep(h) == CreateStep(h) \/ DeleteStep(h) \/ ListStep(h) \/ WriteEdit(h)

Child(h) ==
  \/ StopDelivered(h) \/ StopUndelivered(h)
  \/ RecoverSockets(h) \/ RecoverCgroup(h) \/ RecoverChildFails(h)

Fault(h) == WriteFails(h) \/ ScanThrows(h) \/ HostCrash(h)

Alone(A) == A /\ UNCHANGED <<registry, hostVars, cmdVars>>

Next ==
  \/ \E h \in Hosts : Begins(h) \/ HostStep(h) \/ Child(h) \/ Fault(h)
  \/ \E t \in Tasks : Alone(BrokerStep(t)) \/ Alone(KeeperExits(t))

Spec == Init /\ [][Next]_vars

-----------------------------------------------------------------------------
(* Fairness.                                                               *)

\* Every process that is not killed goes on: brokers, child commands, and
\* the promises of a transaction, each of which has a timeout.
Running ==
  /\ \A t \in Tasks : WF_vars(Alone(BrokerProgress(t)))
  /\ \A h \in Hosts : WF_vars(HostStep(h)) /\ WF_vars(Child(h))

\* The view polls list() every three seconds (extension.ts:459-463), and
\* each poll tries for the lock for ten: one of them gets it.
Polling == \A h \in Hosts : SF_vars(BeginList(h))

\* The user repeats a delete that failed.
Deleting == \A h \in Hosts, t \in Tasks : SF_vars(BeginDelete(h, t))

\* A disturbance of a host or of a command that could have succeeded.  (A
\* fault that changes no more than an ordinary last step is none.)
Disturbed(h) ==
  \/ Fault(h) /\ ~Leave(h) /\ ~WriteEdit(h) /\ ~ScanDone(h)
  \/ PublishPidFails(h)
  \/ PublishRunningFails(h)
  \/ StopFails(h) /\ pc[h] = "stopVerify" /\ mem[h][cur[h]].ident
                  /\ Serving(cur[h])
  \/ StopUndelivered(h) /\ Serving(cmdTask[h])
  \/ RecoverRefused(h) /\ ~Alive(cur[h])
  \/ RecoverFails(h) /\ cmd[h] = "ok"
  \/ RecoverChildFails(h) /\ phase[cmdTask[h]] = "gone"

Calm == <>[][\A h \in Hosts : ~Disturbed(h)]_vars

RunningSpec == Spec /\ Running
-----------------------------------------------------------------------------
(* What a registry transaction promises.                                   *)

\* The abstract life of a task: what the file says, and whether a broker was
\* let through its gate and still runs.
Lifecycle ==
  INSTANCE TaskLifecycle WITH
    row <- [t \in Tasks |->
      IF registry[t] = NoRow THEN "absent" ELSE registry[t].state],
    broker <- [t \in Tasks |->
      IF phase[t] \in {"none", "gate"} THEN "none"
      ELSE IF phase[t] \in PastGate THEN "live" ELSE "dead"]

\* Every transaction, fault and broker step is a step of that life or changes
\* nothing in it: ids are reserved once, rows are promoted only for a broker
\* that was let through, and dropped only when it does not run.
ImplementsLifecycle == Lifecycle!LifecycleSpec

\* A broker that was let through its startup gate is registered with its
\* process identity for as long as it lives: no crash, failed write or
\* concurrent prune leaves a running broker nobody can find (create writes
\* the PID before it opens the gate; list, delete and the rollback remove a
\* row only after they saw its process gone).
BrokerHasRow ==
  \A t \in Tasks : phase[t] \in PastGate =>
                      registry[t] # NoRow /\ registry[t].pid

\* No sequence of creates and renames, by any number of hosts, writes a file
\* that readRegistry would reject on the next read (too many rows, a name
\* twice, a running row without an identity).
RegistryReadable == Readable(registry)

\* A row is promoted to running, or given an identity, only for a broker
\* that reached its event loop; a transaction that fails before that point
\* never publishes one.
IdentityWasServed ==
  \A t \in Present(registry) : registry[t].ident =>
    phase[t] \in {"serving", "zombie", "gone"} \cup Stopping

\* Neither a stop that races it nor a recover child that outlived its host
\* takes a socket or the cgroup away from a broker that still serves.
ServingBrokerIntact ==
  \A t \in Tasks : Serving(t) => data[t] /\ control[t] /\ cgroup[t]

\* A row whose identity is recorded leaves the registry only when the
\* process, both sockets and the cgroup are all gone (delete, rollback and
\* list alike).
IdentifiedRemovalIsClean ==
  [][\A t \in Tasks :
       /\ registry[t] # NoRow /\ registry[t].ident
       /\ registry'[t] = NoRow
       => NothingLeft(t)]_vars

\* No lost update: a transaction changes the row it is about and no other,
\* and list changes only rows that are still starting.
OnlyOwnRowChanges ==
  [][\A t \in Tasks : registry'[t] # registry[t] =>
       \E h \in Hosts :
         /\ lock = h
         /\ \/ cur[h] = t
            \/ pc[h] = "writeList" /\ registry[t] # NoRow
                                   /\ registry[t].state = "starting"]_vars

\* A broker that start() handed to its transaction does not wait at its gate
\* forever, whatever fails and whoever dies: the byte is written or the pipe is
\* closed.  One whose start() was rejected after the spawn is not answered:
\* it waits until its host exits (task-store.ts:352-354).
GateAnswered ==
  \A t \in Tasks :
    phase[t] = "gate" /\ gate[t] # "forgotten" ~> phase[t] # "gate"

\* No transaction keeps the registry lock: every wait in it is bounded.
LockReleased == \A h \in Hosts : lock = h ~> lock # h

\* Once things are calm, polling does not leave a broker that died and left
\* nothing behind in a starting row: the row goes, unless the transaction
\* that had authenticated the broker promotes it after its death (the row of
\* a dead task, which DeleteSucceeds is about).
DeadStartingRowSettles ==
  Polling /\ Calm => \A t \in Tasks :
    /\ registry[t] # NoRow /\ phase[t] \in {"zombie", "gone"}
    /\ registry[t].state = "starting" /\ NothingLeft(t)
    ~> registry[t] = NoRow \/ registry[t].state = "running"

\* Once things are calm, repeating the delete of a task whose identity is
\* recorded succeeds, whatever an earlier attempt, an orphaned child or a
\* killed broker left behind.
DeleteSucceeds ==
  Deleting /\ Calm => \A t \in Tasks :
    registry[t] # NoRow /\ registry[t].ident ~> registry[t] = NoRow

\* docs/runbook.md:65 of a starting row: "any surviving or drifted resource
\* retains its row".  It does not hold for the cgroup, whose path is only
\* recorded with the rest of the identity, so that neither list nor the rollback
\* looks for the cgroup of a row without one; nor for the sockets, which list
\* looks up before the process: the broker may bind them and die in between.
SurvivingResourceRetainsRow ==
  \A t \in Tasks : cgroup[t] \/ data[t] \/ control[t] => registry[t] # NoRow

-----------------------------------------------------------------------------
(* The inductive invariant behind BrokerHasRow (proved in TaskStoreProofs) *)

\* No broker of this task will ever pass its gate, or none is running.
NotRunning(t) ==
  \/ phase[t] \in {"none", "zombie", "gone"}
  \/ phase[t] = "gate" /\ gate[t] \in {"closed", "forgotten"}

\* The broker reached its event loop.
Served(t) == phase[t] \in {"serving", "zombie", "gone"} \cup Stopping

LockInv == \A h \in Hosts : pc[h] # "idle" <=> lock = h

\* The PID is durable before the gate opens; a gate is held only by the
\* transaction that will open or close it, and a forgotten one belongs to a
\* broker whose PID nobody knows.
GateInv ==
  \A t \in Tasks :
    /\ phase[t] \in PastGate \/ (phase[t] = "gate" /\ gate[t] = "released")
         => registry[t] # NoRow /\ registry[t].pid
    /\ phase[t] = "gate" /\ gate[t] = "held"
         => \E h \in Hosts : pc[h] \in {"publishPid", "release"} /\ cur[h] = t
    /\ phase[t] = "gate" => gate[t] # "none"
    /\ phase[t] = "gate" /\ gate[t] = "forgotten"
         => registry[t] = NoRow \/ ~registry[t].pid

RowInv ==
  \A t \in Tasks : registry[t] # NoRow =>
    /\ registry[t].state = "running" => registry[t].ident
    /\ registry[t].ident => registry[t].pid /\ Served(t)

\* What a transaction knows of the row it works on, at each of its steps.
CurInv(h, t) ==
  LET r == registry[t]  m == mem[h][t] IN
  /\ pc[h] = "register" =>
       /\ r = NoRow /\ m # NoRow /\ phase[t] = "none"
       /\ m.state = "starting" /\ ~m.ident /\ ~m.pid
  /\ pc[h] = "spawn" => phase[t] = "none" /\ ~r.pid
  /\ pc[h] \in {"publishPid", "release"} => phase[t] # "none" /\ gate[t] = "held"
  /\ pc[h] \in {"spawn", "release", "await", "hydrate", "stopVerify",
                "stopSend", "stopAck", "stopPoll", "recoverCheck",
                "recoverWait"} => m = r /\ r # NoRow
  /\ pc[h] \in {"publishPid", "publishRunning", "identify", "record",
                "probeProcess", "probeSockets", "edit"} =>
       r # NoRow /\ m # NoRow
  /\ pc[h] \in {"spawn", "publishPid", "release", "await", "hydrate",
                "publishRunning", "identify", "record", "probeProcess",
                "probeSockets"} =>
       r.state = "starting" /\ ~r.ident
  /\ pc[h] \in {"publishPid", "release", "await", "hydrate",
                "publishRunning", "identify", "record", "probeProcess",
                "probeSockets"} => m.pid
  /\ pc[h] \in {"publishRunning", "record"} => m.ident /\ Served(t)
  /\ pc[h] = "record" => m.state = "starting"
  /\ pc[h] \in {"publishPid", "identify", "probeProcess", "probeSockets"} =>
       ~m.ident /\ m.state = "starting"
  /\ pc[h] = "edit" => m.state = r.state /\ m.pid = r.pid /\ m.ident = r.ident
  /\ pc[h] = "probeSockets" => NotRunning(t)
  /\ pc[h] = "unregister" => r # NoRow /\ m = NoRow /\ NotRunning(t)

Scanning == {"scan", "scanProcess", "writeList"}

\* What list may have made of a row before it writes the file.
ScanInv(h, t) ==
  LET r == registry[t]  m == mem[h][t] IN
  \/ m = r
  \/ /\ r # NoRow /\ r.state = "starting"
     /\ \/ m = NoRow /\ NotRunning(t)
        \/ m = Hydrated(r) /\ r.pid /\ Served(t)

\* Rows list has not looked at yet are as it read them.
TodoInv(h) ==
  \A t \in todo[h] : mem[h][t] = registry[t] /\ registry[t] # NoRow
                    /\ registry[t].state = "starting"

\* What a host knows between two steps of its transaction.
HostInv(h) ==
  /\ pc[h] \in Scanning => \A t \in Tasks : ScanInv(h, t)
  /\ pc[h] \in {"scan", "scanProcess"} => TodoInv(h)
  /\ pc[h] = "scanProcess" =>
       /\ cur[h] \in Tasks \ todo[h]
       /\ mem[h][cur[h]] = registry[cur[h]]
       /\ registry[cur[h]] # NoRow /\ registry[cur[h]].state = "starting"
  /\ pc[h] \notin Scanning \cup {"idle", "leave"} =>
       /\ cur[h] \in Tasks
       /\ CurInv(h, cur[h])
       /\ \A t \in Tasks \ {cur[h]} : mem[h][t] = registry[t]

MemInv == \A h \in Hosts : HostInv(h)

IInv == TypeOK /\ LockInv /\ GateInv /\ RowInv /\ MemInv
=============================================================================
