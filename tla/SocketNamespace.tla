-------------------------- MODULE SocketNamespace --------------------------
(* The two socket paths of one task in the private socket directory, and    *)
(* the processes that create and remove what stands there: the broker when  *)
(* it starts and when it cleans up, and the recover children that remove    *)
(* what a dead broker left (two of them when the host that started the      *)
(* first one died).  They serialise on an flock of a file in the directory. *)
(* An outsider, any other program of the user, takes no lock and may        *)
(* replace or remove what stands at a path between any two system calls.    *)
(*                                                                          *)
(* A socket is known by its device and inode.  An object here stands for    *)
(* one inode; that the kernel does not give the number of a removed inode   *)
(* to a new one is assumed.  Removal never unlinks a path by name alone: it *)
(* renames what stands there to a random name (RENAME_NOREPLACE), looks at  *)
(* what it got, and unlinks that or renames it back.  An object at such a   *)
(* random name is in `aside'; nobody else knows the name.                   *)
EXTENDS Sequences, FiniteSets

CONSTANTS
  Recoverers,  \* the recover children
  Foreign,     \* the objects an outsider may put at a path
  None

VARIABLES
  at,        \* at[p]: the object at path p, or None
  aside,     \* the objects at a random `.remove-*' name
  flock,     \* who holds the lock of the directory, or None
  pc,        \* pc[a]: where process a is
  todo,      \* todo[a]: the paths it still has to bind or remove, in order
  held,      \* held[a]: the object it has moved aside and not judged, or None
  recorded,  \* recorded[p]: socket_identities of the broker, or None
  identity,  \* identity[p]: the inode of path p in the registry row, or None
  cleanupOk, \* the broker's cleanup_ok
  raised,    \* an exception is on its way out of the broker's run()
  cgroup,    \* "full" | "empty" | "gone": the cgroup of the task
  seen,      \* seen[r]: recover child r found the cgroup
  put,       \* the foreign objects that outsiders have put at a path
  taken,     \* the objects that outsiders have removed
  faulty     \* some system call failed that nobody else made fail

vars == <<at, aside, flock, pc, todo, held, recorded, identity, cleanupOk,
          raised, cgroup, seen, put, taken, faulty>>

Paths == {"control", "data"}
Broker == "broker"
Processes == Recoverers \cup {Broker}
Sock(p) == <<"socket", p>>        \* the inode the broker's bind creates at p
Objects == {Sock(p) : p \in Paths} \cup Foreign
Removal == <<"data", "control">>  \* both removers go in this order

\* The broker is none of the recover children, nobody and nothing is None, and
\* what an outsider puts at a path is not the inode of the broker's bind.
ASSUME NamesAssumption ==
  /\ Broker \notin Recoverers /\ None \notin Processes \cup Objects
  /\ \A p \in Paths : Sock(p) \notin Foreign

Labels == {"idle", "bind", "record", "listen", "serving", "stopping", "wait",
           "look", "rename", "settle", "kill", "poll", "done", "failed",
           "overtaken", "dead"}
Todos == {<<>>, <<"control">>, <<"data">>, Removal, <<"control", "data">>}

TypeOK ==
  /\ at \in [Paths -> Objects \cup {None}]
  /\ aside \subseteq Objects
  /\ flock \in Processes \cup {None}
  /\ pc \in [Processes -> Labels]
  /\ todo \in [Processes -> Todos]
  /\ held \in [Processes -> Objects \cup {None}]
  /\ recorded \in [Paths -> Objects \cup {None}]
  /\ identity \in [Paths -> Objects \cup {None}]
  /\ cleanupOk \in BOOLEAN /\ raised \in BOOLEAN
  /\ cgroup \in {"full", "empty", "gone"}
  /\ seen \in [Recoverers -> BOOLEAN]
  /\ put \subseteq Foreign
  /\ taken \subseteq Objects
  /\ faulty \in BOOLEAN

Init ==
  /\ at = [p \in Paths |-> None]
  /\ aside = {}
  /\ flock = None
  /\ pc = [a \in Processes |-> "idle"]
  /\ todo = [a \in Processes |-> <<>>]
  /\ held = [a \in Processes |-> None]
  /\ recorded = [p \in Paths |-> None]
  /\ identity = [p \in Paths |-> None]
  /\ cleanupOk = TRUE /\ raised = FALSE
  /\ cgroup = "full"
  /\ seen = [r \in Recoverers |-> FALSE]
  /\ put = {} /\ taken = {}
  /\ faulty = FALSE

----------------------------------------------------------------------------
(* Small steps that the handlers share.                                     *)

Path(a) == Head(todo[a])
GoTo(a, label) == pc' = [pc EXCEPT ![a] = label]
SetTodo(a, paths) == todo' = [todo EXCEPT ![a] = paths]

\* _socket_namespace_locks: blocks in flock until the holder is gone.
Lock(a) == flock = None /\ flock' = a
\* Mutant: an exception leaves the lock with the process that raised it.
UnlockForgotten(a) == flock' = flock

\* Leaving the `with' block, normally or by an exception; the end of a
\* process closes its descriptor too.
Unlock(a) == flock' = IF flock = a THEN None ELSE flock

outside == <<put, taken>>
kernel == <<cgroup, seen>>
verdict == <<cleanupOk, raised>>
known == <<recorded, identity>>

----------------------------------------------------------------------------
(* The broker creates its sockets.                                          *)

\* _start_listeners takes the lock and refuses a path where something stands.
Prepare ==
  /\ pc[Broker] = "idle"
  /\ Lock(Broker)
  /\ \A p \in Paths : at[p] = None
  /\ GoTo(Broker, "bind")
  /\ SetTodo(Broker, <<"control", "data">>)
  /\ UNCHANGED <<at, aside, held, known, verdict, kernel, outside, faulty>>

PrepareRefuses ==
  /\ pc[Broker] = "idle"
  /\ flock = None
  /\ \E p \in Paths : at[p] # None
  /\ GoTo(Broker, "stopping")
  /\ raised' = TRUE
  /\ UNCHANGED <<at, aside, flock, todo, held, known, cleanupOk, kernel,
                 outside, faulty>>

Bind ==
  /\ pc[Broker] = "bind"
  /\ at[Path(Broker)] = None
  /\ at' = [at EXCEPT ![Path(Broker)] = Sock(Path(Broker))]
  /\ GoTo(Broker, "record")
  /\ UNCHANGED <<aside, flock, todo, held, known, verdict, kernel,
                 outside, faulty>>

\* EADDRINUSE: someone put an object at the path after Prepare looked.  There
\* is no identity to unlink by; the lock is released as the exception leaves.
BindFails ==
  /\ pc[Broker] = "bind"
  /\ at[Path(Broker)] # None
  /\ GoTo(Broker, "stopping")
  /\ Unlock(Broker)
  /\ raised' = TRUE
  /\ UNCHANGED <<at, aside, todo, held, known, cleanupOk, kernel, outside,
                 faulty>>

\* _record_bound_socket_identity looks at the path, not at the listener:
\* what stands there by now is taken for the socket that was bound.
Record ==
  /\ pc[Broker] = "record"
  /\ at[Path(Broker)] # None
  /\ recorded' = [recorded EXCEPT ![Path(Broker)] = at[Path(Broker)]]
  /\ GoTo(Broker, "listen")
  /\ UNCHANGED <<at, aside, flock, todo, held, identity, verdict, kernel,
                 outside, faulty>>

RecordFails ==
  /\ pc[Broker] = "record"
  /\ \/ at[Path(Broker)] = None /\ UNCHANGED faulty
     \/ at[Path(Broker)] # Sock(Path(Broker)) /\ UNCHANGED faulty  \* not a socket
     \/ faulty' = TRUE
  /\ GoTo(Broker, "stopping")
  /\ Unlock(Broker)
  /\ raised' = TRUE
  /\ UNCHANGED <<at, aside, todo, held, known, cleanupOk, kernel, outside>>

\* chmod, listen and register; the last path releases the lock.
Listen ==
  /\ pc[Broker] = "listen"
  /\ at[Path(Broker)] # None
  /\ SetTodo(Broker, Tail(todo[Broker]))
  /\ IF Len(todo[Broker]) = 1
       THEN GoTo(Broker, "serving") /\ Unlock(Broker)
       ELSE GoTo(Broker, "bind") /\ UNCHANGED flock
  /\ UNCHANGED <<at, aside, held, known, verdict, kernel, outside, faulty>>

\* chmod or listen fails: the except branch of _bind_listener removes this
\* path under the lock that _start_listeners still holds.
ListenFails ==
  /\ pc[Broker] = "listen"
  /\ \/ at[Path(Broker)] = None /\ UNCHANGED faulty
     \/ faulty' = TRUE
  /\ GoTo(Broker, "look")
  /\ SetTodo(Broker, <<Path(Broker)>>)
  /\ raised' = TRUE
  /\ UNCHANGED <<at, aside, flock, held, known, cleanupOk, kernel, outside>>

\* The host that started the broker writes both inodes into the registry row.
\* The broker's status tells it the control inode only.
Identify ==
  /\ pc[Broker] = "serving"
  /\ identity["control"] = None
  /\ at["control"] = recorded["control"] /\ at["data"] # None
  /\ identity' = at
  /\ UNCHANGED <<at, aside, flock, pc, todo, held, recorded, verdict, kernel,
                 outside, faulty>>

----------------------------------------------------------------------------
(* Removal of a path, by the broker and by a recover child.                 *)

Expected(a) == IF a = Broker THEN recorded ELSE identity

\* How run() of the broker ends: with the exception, or with its exit code.
Exit == IF raised THEN "failed" ELSE "done"

\* The caller of the removal goes on after its last path.  The broker is in
\* _cleanup once its cgroup is gone, and otherwise in a failed _bind_listener
\* whose exception leads to _cleanup.
Leave(a) ==
  /\ Unlock(a)
  /\ GoTo(a, IF a = Broker THEN (IF cgroup = "gone" THEN Exit ELSE "stopping")
             ELSE IF seen[a] THEN "kill" ELSE "done")

\* Done with this path.
NextPath(a, label) ==
  /\ SetTodo(a, Tail(todo[a]))
  /\ IF Len(todo[a]) = 1 THEN Leave(a) ELSE GoTo(a, label) /\ UNCHANGED flock

\* Mutant: the broker forgets an error when it goes on.
PathFailsSilently(a) ==
  IF a = Broker
    THEN NextPath(a, "look") /\ UNCHANGED cleanupOk
    ELSE Unlock(a) /\ GoTo(a, "failed") /\ UNCHANGED <<todo, cleanupOk>>

\* An error on this path: the broker notes it and goes on, a recover raises.
PathFails(a) ==
  IF a = Broker
    THEN NextPath(a, "look") /\ cleanupOk' = FALSE
    ELSE Unlock(a) /\ GoTo(a, "failed") /\ UNCHANGED <<todo, cleanupOk>>

\* The broker looks twice in a row; one look stands for both.  It leaves a
\* path alone that it never recorded or where something else stands.
Look ==
  /\ pc[Broker] = "look"
  /\ IF recorded[Path(Broker)] # None /\ at[Path(Broker)] = recorded[Path(Broker)]
       THEN GoTo(Broker, "rename") /\ UNCHANGED <<todo, flock>>
       ELSE NextPath(Broker, "look")
  /\ UNCHANGED <<at, aside, held, known, verdict, kernel, outside, faulty>>

\* The last step before the rename looked at the object; by now something
\* else may stand at the path.
MoveAside(a) ==
  /\ pc[a] = "rename"
  /\ at[Path(a)] # None
  /\ aside' = aside \cup {at[Path(a)]}
  /\ held' = [held EXCEPT ![a] = at[Path(a)]]
  /\ at' = [at EXCEPT ![Path(a)] = None]
  /\ GoTo(a, "settle")
  /\ UNCHANGED <<flock, todo, known, verdict, kernel, outside, faulty>>

\* Nothing stands there any more: the broker is content, a recover raises.
NothingToMove(a) ==
  /\ pc[a] = "rename"
  /\ at[Path(a)] = None
  /\ IF a = Broker THEN NextPath(a, "look") /\ UNCHANGED cleanupOk
                   ELSE PathFails(a)
  /\ UNCHANGED <<at, aside, held, known, kernel, raised, outside, faulty>>

\* renameat2 fails for another reason (not available, I/O error).
MoveFails(a) ==
  /\ pc[a] = "rename"
  /\ PathFails(a)
  /\ faulty' = TRUE
  /\ UNCHANGED <<at, aside, held, known, raised, kernel, outside>>

\* Mutant: what was moved aside is not looked at again.
UnlinkUnseen(a) ==
  /\ pc[a] = "settle"
  /\ aside' = aside \ {held[a]}
  /\ held' = [held EXCEPT ![a] = None]
  /\ NextPath(a, IF a = Broker THEN "look" ELSE "rename")
  /\ UNCHANGED <<at, known, verdict, kernel, outside, faulty>>

\* It is the expected socket: unlink it.
Unlink(a) ==
  /\ pc[a] = "settle"
  /\ held[a] = Expected(a)[Path(a)]
  /\ aside' = aside \ {held[a]}
  /\ held' = [held EXCEPT ![a] = None]
  /\ NextPath(a, IF a = Broker THEN "look" ELSE "rename")
  /\ UNCHANGED <<at, known, verdict, kernel, outside, faulty>>

\* Mutant: an object that cannot be put back is nobody's failure.
PutBackSilently(a) ==
  /\ pc[a] = "settle"
  /\ held[a] # Expected(a)[Path(a)]
  /\ IF at[Path(a)] = None
       THEN /\ at' = [at EXCEPT ![Path(a)] = held[a]]
            /\ aside' = aside \ {held[a]}
       ELSE UNCHANGED <<at, aside>>
  /\ held' = [held EXCEPT ![a] = None]
  /\ NextPath(a, IF a = Broker THEN "look" ELSE "rename")
  /\ UNCHANGED <<known, verdict, kernel, outside, faulty>>

\* It is not: rename it back, or leave it aside when the path is taken again.
PutBack(a) ==
  /\ pc[a] = "settle"
  /\ held[a] # Expected(a)[Path(a)]
  /\ IF at[Path(a)] = None
       THEN /\ at' = [at EXCEPT ![Path(a)] = held[a]]
            /\ aside' = aside \ {held[a]}
       ELSE UNCHANGED <<at, aside>>
  /\ held' = [held EXCEPT ![a] = None]
  /\ PathFails(a)
  /\ UNCHANGED <<known, raised, kernel, outside, faulty>>

\* The look at what was moved aside, or its unlink, fails: it stays there.
SettleFails(a) ==
  /\ pc[a] = "settle"
  /\ held' = [held EXCEPT ![a] = None]
  /\ PathFails(a)
  /\ faulty' = TRUE
  /\ UNCHANGED <<at, aside, known, raised, kernel, outside>>

----------------------------------------------------------------------------
(* _cleanup of the broker: its processes are terminated, then the sockets.  *)
(* Their termination decides cleanup_ok anew.                               *)

StartCleanup ==
  /\ pc[Broker] \in {"serving", "stopping"}
  /\ Lock(Broker)
  /\ GoTo(Broker, "look")
  /\ SetTodo(Broker, Removal)
  /\ cgroup' = "gone"
  /\ cleanupOk' = TRUE
  /\ UNCHANGED <<at, aside, held, known, raised, seen, outside, faulty>>

\* The processes cannot be terminated, or the lock file cannot be opened: the
\* sockets stay, and the exit code says so.
CleanupFails ==
  /\ pc[Broker] \in {"serving", "stopping"}
  /\ GoTo(Broker, Exit)
  /\ cgroup' \in {cgroup, "gone"}
  /\ cleanupOk' = FALSE
  /\ faulty' = TRUE
  /\ UNCHANGED <<at, aside, flock, todo, held, known, raised, seen, outside>>

----------------------------------------------------------------------------
(* run_recover, with the identities of a registry row.                      *)

\* It refuses while the registered broker is alive.
StartRecover(r) ==
  /\ pc[r] = "idle"
  /\ identity["control"] # None
  /\ pc[Broker] \in {"done", "failed", "dead"}
  /\ GoTo(r, "wait")
  /\ UNCHANGED <<at, aside, flock, todo, held, known, verdict, kernel,
                 outside, faulty>>

Present ==
  IF at["control"] = None
    THEN IF at["data"] = None THEN <<>> ELSE <<"data">>
    ELSE IF at["data"] = None THEN <<"control">> ELSE Removal

\* Mutant: a recover child does not take the lock.
CheckUnlocked(r) ==
  /\ pc[r] = "wait"
  /\ \A p \in Paths : at[p] \in {None, identity[p]}
  /\ seen' = [seen EXCEPT ![r] = (cgroup # "gone")]
  /\ SetTodo(r, Present)
  /\ GoTo(r, IF Present # <<>> THEN "rename"
             ELSE IF seen'[r] THEN "kill" ELSE "done")
  /\ UNCHANGED <<at, aside, flock, held, known, verdict, cgroup, outside, faulty>>

\* Under the lock it looks at both paths and at the cgroup before it touches
\* anything, and refuses when a path holds something else.
Check(r) ==
  /\ pc[r] = "wait"
  /\ flock = None
  /\ \A p \in Paths : at[p] \in {None, identity[p]}
  /\ seen' = [seen EXCEPT ![r] = (cgroup # "gone")]
  /\ SetTodo(r, Present)
  /\ IF Present # <<>>
       THEN flock' = r /\ GoTo(r, "rename")
       ELSE UNCHANGED flock /\ GoTo(r, IF seen'[r] THEN "kill" ELSE "done")
  /\ UNCHANGED <<at, aside, held, known, verdict, cgroup, outside, faulty>>

CheckRefuses(r) ==
  /\ pc[r] = "wait"
  /\ flock = None
  /\ \/ (\E p \in Paths : at[p] \notin {None, identity[p]}) /\ UNCHANGED faulty
     \/ faulty' = TRUE  \* the lock file or the cgroup path is not trusted
  /\ GoTo(r, "failed")
  /\ UNCHANGED <<at, aside, flock, todo, held, known, verdict, kernel, outside>>

\* After the lock is released: cgroup.kill, then wait for `populated 0', then
\* rmdir.  The other recover child may have removed the directory meanwhile.
Kill(r) ==
  /\ pc[r] = "kill"
  /\ cgroup # "gone"
  /\ cgroup' = "empty"
  /\ GoTo(r, "poll")
  /\ UNCHANGED <<at, aside, flock, todo, held, known, verdict, seen, outside,
                 faulty>>

RemoveCgroup(r) ==
  /\ pc[r] = "poll"
  /\ cgroup = "empty"
  /\ cgroup' = "gone"
  /\ GoTo(r, "done")
  /\ UNCHANGED <<at, aside, flock, todo, held, known, verdict, seen, outside,
                 faulty>>

Overtaken(r) ==
  /\ pc[r] \in {"kill", "poll"}
  /\ cgroup = "gone"
  /\ GoTo(r, "overtaken")
  /\ UNCHANGED <<at, aside, flock, todo, held, known, verdict, kernel,
                 outside, faulty>>

\* The cgroup stays populated for two seconds, or the kernel refuses.
CgroupFails(r) ==
  /\ pc[r] \in {"kill", "poll"}
  /\ GoTo(r, "failed")
  /\ faulty' = TRUE
  /\ UNCHANGED <<at, aside, flock, todo, held, known, verdict, kernel, outside>>

----------------------------------------------------------------------------
(* Crashes, and the outsider.                                               *)

\* A SIGKILL at any step.  The kernel drops the lock; what was moved aside
\* stays there.
Crash(a) ==
  /\ pc[a] \notin {"idle", "done", "failed", "overtaken", "dead"}
  /\ GoTo(a, "dead")
  /\ Unlock(a)
  /\ held' = [held EXCEPT ![a] = None]
  /\ SetTodo(a, <<>>)
  /\ UNCHANGED <<at, aside, known, verdict, kernel, outside, faulty>>

\* Another program unlinks what stands at p, and may put its own object there.
Take(p) ==
  /\ at[p] # None
  /\ taken' = taken \cup {at[p]}
  /\ at' = [at EXCEPT ![p] = None]
  /\ UNCHANGED <<aside, flock, pc, todo, held, known, verdict, kernel, put,
                 faulty>>

Put(p, x) ==
  /\ x \notin put
  /\ put' = put \cup {x}
  /\ taken' = taken \cup ({at[p]} \ {None})
  /\ at' = [at EXCEPT ![p] = x]
  /\ UNCHANGED <<aside, flock, pc, todo, held, known, verdict, kernel, faulty>>

Steps(a) ==
  \/ MoveAside(a) \/ NothingToMove(a) \/ MoveFails(a) \/ Unlink(a) \/ PutBack(a)
  \/ SettleFails(a)
BrokerSteps ==
  \/ Prepare \/ PrepareRefuses \/ Bind \/ BindFails \/ Record \/ RecordFails
  \/ Listen \/ ListenFails \/ Look \/ StartCleanup \/ CleanupFails
  \/ Steps(Broker)
RecoverSteps(r) ==
  \/ StartRecover(r) \/ Check(r) \/ CheckRefuses(r) \/ Kill(r)
  \/ RemoveCgroup(r) \/ Overtaken(r) \/ CgroupFails(r) \/ Steps(r)

Next ==
  \/ BrokerSteps
  \/ Identify
  \/ \E r \in Recoverers : RecoverSteps(r)
  \/ \E a \in Processes : Crash(a)
  \/ \E p \in Paths : Take(p) \/ \E x \in Foreign : Put(p, x)

\* A process that is not killed goes on, and a blocked flock is granted.
Spec ==
  /\ Init /\ [][Next]_vars
  /\ WF_vars(BrokerSteps)
  /\ \A r \in Recoverers : WF_vars(RecoverSteps(r))

----------------------------------------------------------------------------
(* Properties.                                                              *)

Busy == {"bind", "record", "listen", "look", "rename", "settle"}
Removing == {"look", "rename", "settle"}

\* The broker on its way up: what it has recorded so far.
Rising ==
  /\ pc[Broker] = "idle" => \A p \in Paths : recorded[p] = None
  /\ pc[Broker] \in {"bind", "record", "listen"} =>
       /\ todo[Broker] \in {<<"control", "data">>, <<"data">>}
       /\ pc[Broker] # "listen" => recorded[Path(Broker)] = None
       /\ pc[Broker] = "listen" => recorded[Path(Broker)] # None
       /\ IF todo[Broker] = <<"data">> THEN recorded["control"] # None
                                      ELSE recorded["data"] = None
  /\ pc[Broker] = "serving" => recorded["control"] # None
  /\ identity["control"] = None => identity["data"] = None

\* The broker on its way down: what its exit will say.
Falling ==
  /\ pc[Broker] \in {"idle", "bind", "record", "listen", "serving"} => cleanupOk
  /\ pc[Broker] = "stopping" => raised
  /\ pc[Broker] \in Removing => raised \/ cgroup = "gone"

\* Whoever works on the paths holds the lock, so at most one process does
\* (_socket_namespace_locks around every handler); it has a path to work on;
\* what it has moved aside is there, and nobody else has judged it.
Exclusion ==
  /\ \A a \in Processes :
       /\ pc[a] \in Busy => flock = a /\ todo[a] # <<>>
       /\ flock = a => pc[a] \in Busy
       /\ held[a] # None <=> pc[a] = "settle"
       /\ held[a] # None => held[a] \in aside
  /\ \A r \in Recoverers :
       pc[r] \notin {"bind", "record", "listen", "serving", "stopping", "look"}

\* The inductive invariant: the lock excludes, no path is recorded twice, and
\* the exit of the broker will not hide a failure.
IInv == TypeOK /\ Exclusion /\ Rising /\ Falling

\* What another program put into the directory is never destroyed.  The one
\* exception is an object that stood at a path in the moment its inode was
\* taken for the socket's own: by the broker right after its bind, or by the
\* host that wrote the data inode into the row (_record_bound_socket_identity,
\* hydrateBrokerIdentity).
ForeignObjectsSurvive ==
  \A x \in put \ taken :
    \/ x \in aside
    \/ \E p \in Paths : x \in {at[p], recorded[p], identity[p]}

\* What is left under a random name has an explanation an operator can act
\* on: a process is at work on it, died with it, or reports that it failed.
ArtifactsAreReported ==
  \/ \A x \in aside : \E a \in Processes : held[a] = x
  \/ \E a \in Processes : pc[a] \in {"dead", "failed"}
  \/ raised \/ ~cleanupOk

\* Success means what it says: a broker that exits with 0 has left none of the
\* sockets it recorded at its path, and a recover child that succeeds has left
\* neither a socket of the row nor the cgroup.
SuccessMeansGone ==
  /\ pc[Broker] = "done" /\ cleanupOk =>
       \A p \in Paths : recorded[p] # None => at[p] # recorded[p]
  /\ \A r \in Recoverers : pc[r] = "done" =>
       cgroup = "gone" /\ \A p \in Paths : at[p] # identity[p]

\* While nobody else interferes and no system call fails by itself, the broker
\* and the recover children never make each other fail over the sockets.  (Over
\* the cgroup they do: its removal is outside of the lock, `overtaken'.)
NoSelfInterference ==
  put = {} /\ taken = {} /\ ~faulty =>
    cleanupOk /\ \A a \in Processes : pc[a] # "failed"

\* Whoever waits for the lock, or works under it, comes to an end: every error
\* path and every death releases the lock of the directory.
RemovalEnds ==
  \A a \in Processes :
    pc[a] \in {"wait", "stopping", "look", "rename", "settle", "bind"}
      ~> pc[a] \in {"serving", "done", "failed", "overtaken", "dead"}
=============================================================================
