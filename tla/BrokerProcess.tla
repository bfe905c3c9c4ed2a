--------------------------- MODULE BrokerProcess ---------------------------
(***************************************************************************)
(* The life of one PTY broker process (scripts/pty_broker.py) per task and *)
(* of the three kernel resources it owns: its control socket, its data     *)
(* socket and its cgroup directory.  Only what another process can observe *)
(* through the file system, through /proc or over the control socket is    *)
(* kept; the event loop inside `serving' is a component of its own.        *)
(*                                                                         *)
(* Paths are random and never reused (task-store.ts:543-551), so a socket  *)
(* or a cgroup is a Boolean: it is this task's inode or it is absent.      *)
(***************************************************************************)
EXTENDS Naturals

CONSTANT Tasks        \* task ids (randomUUID), each used for one broker

VARIABLES
  phase,     \* where Broker.run stands, or how its process ended
  gate,      \* the startup gate pipe, as the broker will read it; forgotten:
             \* open in a host that will neither write to it nor close it
  data,      \* the data socket exists at its path
  control,   \* the control socket exists at its path
  cgroup     \* the task cgroup directory exists

brokerVars == <<phase, gate, data, control, cgroup>>

Starting == {"begin", "contained", "shell", "control"}
Stopping == {"closing", "unlinkData", "unlinkControl"}
PastGate == Starting \cup {"serving"} \cup Stopping
Phases   == {"none", "gate", "zombie", "gone"} \cup PastGate

BrokerTypeOK ==
  /\ phase \in [Tasks -> Phases]
  /\ gate \in [Tasks -> {"none", "held", "released", "closed", "forgotten"}]
  /\ data \in [Tasks -> BOOLEAN]
  /\ control \in [Tasks -> BOOLEAN]
  /\ cgroup \in [Tasks -> BOOLEAN]

BrokerInit ==
  /\ phase = [t \in Tasks |-> "none"]
  /\ gate = [t \in Tasks |-> "none"]
  /\ data = [t \in Tasks |-> FALSE]
  /\ control = [t \in Tasks |-> FALSE]
  /\ cgroup = [t \in Tasks |-> FALSE]

-----------------------------------------------------------------------------
(* What the extension host can observe.                                    *)

\* processStartTicks(pid) === startTicks: a zombie counts as exited.
Alive(t) == phase[t] \in PastGate \cup {"gate"}

\* The control plane answers P, S and K frames only from the event loop.
Serving(t) == phase[t] = "serving"

SocketsGone(t) == ~data[t] /\ ~control[t]
NothingLeft(t) == ~Alive(t) /\ SocketsGone(t) /\ ~cgroup[t]

-----------------------------------------------------------------------------
Goto(t, p) == phase' = [phase EXCEPT ![t] = p]

\* The gate byte was written: startup continues.
PassGate(t) ==
  /\ phase[t] = "gate" /\ gate[t] = "released"
  /\ Goto(t, "begin")
  /\ UNCHANGED <<gate, data, control, cgroup>>

\* EOF on the gate: RuntimeError before anything is allocated.
GateRefused(t) ==
  /\ phase[t] = "gate" /\ gate[t] = "closed"
  /\ Goto(t, "zombie")
  /\ UNCHANGED <<gate, data, control, cgroup>>

PrepareCgroup(t) ==
  /\ phase[t] = "begin"
  /\ Goto(t, "contained")
  /\ cgroup' = [cgroup EXCEPT ![t] = TRUE]
  /\ UNCHANGED <<gate, data, control>>

\* fork, move the shell into the cgroup, release its own start pipe
StartShell(t) ==
  /\ phase[t] = "contained"
  /\ Goto(t, "shell")
  /\ UNCHANGED <<gate, data, control, cgroup>>

\* The control socket is bound first ...
BindControl(t) ==
  /\ phase[t] = "shell"
  /\ Goto(t, "control")
  /\ control' = [control EXCEPT ![t] = TRUE]
  /\ UNCHANGED <<gate, data, cgroup>>

\* ... then the data socket, and the event loop begins.
BindData(t) ==
  /\ phase[t] = "control"
  /\ Goto(t, "serving")
  /\ data' = [data EXCEPT ![t] = TRUE]
  /\ UNCHANGED <<gate, control, cgroup>>

\* Any exception during startup runs _cleanup.
StartupFails(t) ==
  /\ phase[t] \in Starting
  /\ Goto(t, "closing")
  /\ UNCHANGED <<gate, data, control, cgroup>>

\* The loop ends: the shell exited, a signal arrived, or a stop frame was
\* acknowledged (StopDelivered of TaskStore takes the same step).
LoopEnds(t) ==
  /\ phase[t] = "serving"
  /\ Goto(t, "closing")
  /\ UNCHANGED <<gate, data, control, cgroup>>

\* cgroup.kill, populated 0, rmdir
TerminateCgroup(t) ==
  /\ phase[t] = "closing"
  /\ Goto(t, "unlinkData")
  /\ cgroup' = [cgroup EXCEPT ![t] = FALSE]
  /\ UNCHANGED <<gate, data, control>>

\* cleanup_ok = False: the broker exits 1 and leaves both sockets behind;
\* the directory is gone only when its control files had vanished.
TerminateFails(t) ==
  /\ phase[t] = "closing"
  /\ Goto(t, "zombie")
  /\ \E left \in {cgroup[t], FALSE} : cgroup' = [cgroup EXCEPT ![t] = left]
  /\ UNCHANGED <<gate, data, control>>

\* _unlink_owned_socket_locked for the data path; an OSError leaves it and
\* goes on to the control path.
UnlinkData(t) ==
  /\ phase[t] = "unlinkData"
  /\ Goto(t, "unlinkControl")
  /\ data' = [data EXCEPT ![t] = FALSE]
  /\ UNCHANGED <<gate, control, cgroup>>

UnlinkDataFails(t) ==
  /\ phase[t] = "unlinkData"
  /\ Goto(t, "unlinkControl")
  /\ UNCHANGED <<gate, data, control, cgroup>>

UnlinkControl(t) ==
  /\ phase[t] = "unlinkControl"
  /\ Goto(t, "zombie")
  /\ control' = [control EXCEPT ![t] = FALSE]
  /\ UNCHANGED <<gate, data, cgroup>>

\* SIGKILL, SIGTERM before the handlers are installed, or an unlink that
\* failed last: the process ends and leaves what it holds.
Killed(t) ==
  /\ Alive(t)
  /\ Goto(t, "zombie")
  /\ UNCHANGED <<gate, data, control, cgroup>>

Reaped(t) ==
  /\ phase[t] = "zombie"
  /\ Goto(t, "gone")
  /\ UNCHANGED <<gate, data, control, cgroup>>

\* Steps of a broker nothing goes wrong for ...
BrokerProgress(t) ==
  \/ PassGate(t) \/ GateRefused(t) \/ PrepareCgroup(t) \/ StartShell(t)
  \/ BindControl(t) \/ BindData(t)
  \/ TerminateCgroup(t) \/ UnlinkData(t) \/ UnlinkControl(t) \/ Reaped(t)

\* ... and the failures it meets.
BrokerFault(t) ==
  \/ StartupFails(t) \/ TerminateFails(t) \/ UnlinkDataFails(t) \/ Killed(t)

BrokerStep(t) == BrokerProgress(t) \/ LoopEnds(t) \/ BrokerFault(t)
=============================================================================
