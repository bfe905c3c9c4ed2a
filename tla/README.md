# Verification of the shared terminals extension

The repository is a code-server extension that keeps terminals alive
independently of the browser.  Every terminal ("task") is a PTY broker process
of its own; any number of extension hosts (one per window or browser) share a
registry file that says which tasks exist.  This directory holds TLA+ models of
that system, TLC instances that check them, and TLAPS proofs about them.

- [The system](#the-system): components, state, operations, interactions
- [What is hard, and what should hold](#what-is-hard-and-what-should-hold)
- [The modules](#the-modules): how state and actions correspond to the code
- [The runs](#the-runs): what is checked, with which bounds and fairness
- [The proofs](#the-proofs)
- [Disagreements found](#disagreements-found)
- [What is not modelled](#what-is-not-modelled)
- [The plan](#the-plan)

Paths below are relative to the repository root.

## The system

| Component | Source | State | Operations |
|---|---|---|---|
| Task registry | `src/task-store.ts` | `tasks.json` (rows: id, name, `open`, `brokerState`, PID and start ticks, identity of sockets and cgroup), `tasks.json.lock` | `create`, `createAutomatic`, `list`, `listWithStatus`, `rename`, `setOpen`, `closeIfPresent`, `delete`, `isAlive` |
| Process runner, atomic write | `src/task-store.ts` | child processes, temporary file | spawn behind the startup gate, run a command with a timeout, write and rename |
| Broker process | `scripts/pty_broker.py` | process, control socket, data socket, cgroup | startup, event loop, cleanup |
| Broker event loop | `scripts/pty_broker.py` | clients with queues, controller, replay, PTY input queue, pending clients | accept, read, frames, broadcast, write, expire, reap |
| `stop` and `recover` commands | `scripts/pty_broker.py` | none, or what the broker left | identity-bound stop; removal of what a dead broker left |
| Registry lock helper | `src/task-store.ts`, `scripts/pty_broker.py` | flock on an inherited descriptor | acquire with a timeout, release by closing |
| Terminal tabs | `src/extension.ts`, `src/lifecycle.ts` | terminals per task, suppressed and early close events, published profiles, generation | open, rename, delete, synchronize, close events, dispose |
| Attach client | `scripts/pty_broker.py` | output queue, TTY mode | relay stdin, stdout, window size |
| Chunk queue, replay buffer | `scripts/pty_broker.py` | byte chunks with a size and an offset | append, consume, clear, snapshot |
| Socket paths of a task | `scripts/pty_broker.py` | two paths, random names beside them, lock file of the directory | bind, record, quarantine rename, unlink, restore |
| Resource budget | `src/runtime-config.ts`, `src/extension.ts`, `main()` | none | range and budget checks |

How they interact:

* Extension hosts meet only in the registry file.  Each transaction takes the
  lock, reads the whole file, awaits any number of child processes and probes,
  and replaces the whole file.
* A host starts a broker behind a *startup gate*: a pipe whose byte is written
  after the PID is durable in the registry; end of file makes the broker exit.
* A host learns a broker's identity from a `status` request on its control
  socket and stops it with a `stop` child process, which waits for an
  acknowledgement and goes on if its host dies.
* What a dead broker leaves is removed by a `recover` child process.
* Terminals attach to the data socket with an `attach` child each.  The broker
  multiplexes them in one thread.
* A broker and any number of `recover` children bind and remove the two socket
  paths of a task under an flock of their directory.  Other programs of the user
  do not take that lock.
* The window of a host follows the registry by polling: `synchronize` reads the
  list, then opens and disposes tabs.  The user's commands and VS Code's open and
  close events come in between.

## What is hard, and what should hold

`PROJECT.json` lists every hazard at its line.  In groups:

* **Crashes between two durable steps.**  The host may die after the spawn, after
  the PID was written, after the gate was opened, between the status answer and
  the write of the running row, or while a stop child works.  The broker may be
  killed anywhere.  What must hold: a broker let through its gate has a row with
  its PID as long as it lives; a broker whose `start()` succeeded does not wait at
  its gate forever, and one whose `start()` did not never passes it; an
  identified row goes only when nothing is left; a repeated delete succeeds.
* **Knowledge that is stale when used.**  `list` looks at sockets, then at the
  process, then writes; the rollback of `create` looks again; a broker moves on
  in between.
* **Whole-file rewrites.**  One lost update removes the row of another task.
* **Event order in the broker.**  Events are selected once per turn; handling one
  may close the client of another.  Complete frames beyond the budget raise no
  further event.  A slow client must neither stall nor get output with a gap.
  The window size belongs to the client in control, whoever leaves.
* **Bytes cut anywhere.**  Every read and write may be short; an overflow must
  cost the middle of the output and say so, never a piece without a notice and
  never the end.
* **Foreign objects.**  A path can change between any look at it and the call
  that acts on it.  Whatever somebody else put there must survive.
* **Tabs and events.**  A tab may close before its open event was tracked, be
  disposed while an operation still holds it, or be reported closed after the
  task is gone.  A close is told to everybody once, if the user did it, and the
  window ends up showing the registry.
* **Limits.**  `maxTasks` rows, attached and pending data clients, control
  clients, queues; the memory budget multiplies them.
* **Progress.**  Locks given back, gates answered, dead rows settled, deletes
  that succeed, idle connections dropped, stop requests not lost.

## The modules

| Module | What it is |
|---|---|
| `BrokerProcess` | one broker per task and its three kernel resources, as other processes see them |
| `TaskStore` | the registry and its transactions, composed with the brokers (EXTENDS `BrokerProcess`) |
| `TaskLifecycle` | the abstract life of a task; `TaskStore` implements it |
| `TaskStoreProofs` | theorems about `TaskStore`: the inductive invariant and what follows, names and limits in the registry file, sockets and cgroups |
| `MCTaskStore` | instances of `TaskStore` |
| `BrokerLoop` | the event loop of one broker: what its `serving` phase does |
| `SharedTerminal` | what that loop is to those who look at the terminal; `BrokerLoop` implements it |
| `BrokerLoopProofs` | theorems about `BrokerLoop` |
| `MCBrokerLoop` | instances of `BrokerLoop` |
| `ByteBuffers` | `ChunkQueue` and `ReplayBuffer` as operators |
| `ByteBuffersProofs` | what each of these operators does, for every input |
| `AttachClient` | one byte stream from the PTY through broker, socket and attach client to a tab |
| `AttachClientProofs` | theorems about `AttachClient` |
| `MCAttachClient` | instance of `AttachClient` |
| `TerminalTabs` | one extension host, its tabs and its window |
| `TerminalTabsProofs` | theorems about `TerminalTabs` |
| `MCTerminalTabs` | instances of `TerminalTabs` |
| `SocketNamespace` | the two socket paths of one task, every system call on them |
| `SocketNamespaceProofs` | theorems about `SocketNamespace` |
| `MCSocketNamespace` | instance of `SocketNamespace` |
| `RegistryLock` | the lock of a transaction: call, helper process, flock; with its theorems |
| `ResourceBudget` | the limits of extension, broker and attach client; with its theorems |

Composition: `TaskStore` contains the brokers of `BrokerProcess`.  The other
modules each open one box of it: `RegistryLock` its lock, `SocketNamespace` the
sockets, `BrokerLoop` the phase `serving`, `AttachClient` one client of that loop,
`TerminalTabs` one host that calls the transactions.

### `BrokerProcess`

`phase[t]` is where `Broker.run` stands: `gate` (waiting for the byte), `begin`,
`contained` (cgroup made), `shell`, `control` (control socket bound), `serving`
(data socket bound, loop entered), then `closing`, `unlinkData`,
`unlinkControl`, and `zombie`, `gone` for the process.  `data`, `control` and
`cgroup` say whether the inode or directory is there.  Sockets and cgroup paths
are random and never reused (`task-store.ts:543-551`), so a Boolean is enough: a
path holds this broker's object or nothing.  Replacement objects (identity
drift) come from outside the system and are the subject of `SocketNamespace`.
Every way to fail is an action: startup exceptions, a cgroup that cannot
be terminated, an unlink that fails, a kill.

### `TaskStore`

A member of `Hosts` is one call of one extension host.  Concurrent calls in one
host are several members: the lock is an open file description, so they queue
like separate processes.  `pc[h]` is the await at which the call stands, `mem[h]`
its private copy of the file, `cmd[h]` its stop or recover child, which survives
`HostCrash`.

| Code | Actions |
|---|---|
| `create` 519-656 | `BeginCreate`, `Register`, `Spawn`, `PublishPid`, `ReleaseStartup`, `Await`, `Hydrate`, `PublishRunning`; rollback: `Identify`, `Record`, `AfterFailedStop`, `ProbeProcess`, `ProbeSockets`, `Unregister` |
| `list` 443-517 | `BeginList`, `ScanHydrate`, `ScanKeep`, `ScanLookup`, `ScanProcess`, `ScanDone`, `WriteList` |
| `rename`, `setOpen`, `closeIfPresent` | `BeginRename`, `BeginSetOpen`, `WriteEdit` |
| `delete`, `stopBroker` | `BeginDelete`, `StopVerify`, `StopSend`, `StopAcked`, `StopConfirmed`, `Unregister` |
| `recoverBrokerRemnants` | `RecoverStart`, `RecoverRefused`, `RecoverConfirmed` |
| `run_stop`, `run_recover` | `StopDelivered`, `StopUndelivered`, `RecoverSockets`, `RecoverCgroup`, `RecoverChildFails` |
| `ProcessRunner.start` rejecting 314-357 | `SpawnFails`, `KeeperExits` |
| timeouts, errors, crashes | the `...Fails` actions, `WriteFails`, `ScanThrows`, `HostCrash` |

Abstractions and why they are sound:

* *One step per await.*  Between two awaits the code is one turn of a
  single-threaded host.  An answer to a status request is one step: what the host
  knows is what was true when the broker answered.
* *Lookups of both sockets and the cgroup are one step.*  During startup these
  resources only appear (control before data) and during cleanup only disappear
  (data before control); the difference between the two lookups is covered by
  looking earlier or later.  The lookup of the *process* is a step of its own,
  because what lies between matters (see the `remnants` run).
* *A start that is rejected* leaves no process, a child that is killed at its gate
  (no start ticks), or, when reading the start ticks throws
  (`task-store.ts:352-354`), a child at a gate that nobody will answer:
  `gate[t] = "forgotten"`.  `create` drops the row in all three cases.  The pipe of
  the last one closes when its host exits (`KeeperExits`, which has no fairness).
* *Task ids* are fresh UUIDs.  An id without any trace stands for a fresh one.
* *`createAutomatic`* is `list` followed by `create`.  `listWithStatus`, `get` and
  `isAlive` change nothing.
* *The lock* is atomic here; `BeginX` is disabled while it is held.  A lock that
  times out is an operation that does not begin.  `RegistryLock` shows that the
  real one acts like this.
* *The cgroup is always required*, as the extension requires it.
* An unreadable registry makes every operation fail before it begins
  (`Begin` has `Readable`), which is why `RegistryReadable` matters.

### `BrokerLoop`

One turn of `Broker.run` is `SelectEvents`, the events in the order of
`_event_priority` (`Due`), `EventsDone`, a `Resume` for every client with
complete frames left, an `Expire` for every client whose time is over, and
`EndTurn` (reaping).  Within an event, each
frame and each receiver of a broadcast is a step.

| Code | Actions |
|---|---|
| `_accept` | `AcceptControl` (one per turn, evicts), `AcceptData`, `NoMoreData` |
| `_read_client`, `_process_client_frames` | `ReadClient`, `FrameHandled` in each frame action, `FramesDone` |
| `_handle_frame` | `Attach`, `AttachRefused`, `Resize`, `Input`, `InputRefused`, `BadFrame` |
| `_handle_control_frame` | `Ask`, `Stop`, `BadFrame` |
| `_read_pty`, `_queue` | `ReadPty`, `Broadcast` |
| `_write_client`, `_write_pty` | `WriteClient`, `WriteBroken`, `WriteSkipped`, `WritePty` |
| `_close_client` | `Close` with `HandOver`, inside every action that closes |
| `_expire_unattached_clients`, `_reap_children`, `_cleanup` | `Expire`, `EndTurn`, `Cleanup` |

Peers (`Connect`, `Send`, `Disconnect`), the shell (`ShellWrites`, `ShellExits`) and
signals (`RequestStop`) act between any two steps.  Data peers send an `A` frame
once per connection, as `run_attach` does, and otherwise any frame at any time,
unknown ones included.

Abstractions: frames are atomic (an incomplete frame is one that was not sent
yet); output is a sequence of numbered chunks, and queue limits count chunks and
frames instead of bytes; whether a socket has room is a choice of each turn; one
reply on a control connection always finds room (64 KiB at most);
`MAX_EVENT_BATCH` (128) and `MAX_ACCEPT_BATCH` (64) exceed what the limits on
clients allow to be ready at once; the successor of the controller is any
attached client, because `clients` is a set.  `Probe`, `Status` and a stop with a
foreign identity are answered and change nothing; they are one action, `Ask`.

`SharedTerminal` is the loop without sockets, frames, queues and events: output
is printed, readers join with the history that is kept, read one chunk after
the other, resize, type and leave, and one of them controls the size.  The
mapping takes `client[p].seen` for the place of a reader and `Attached` for the
readers; attaching maps to `Join`, a chunk that leaves a queue to `Read`, an `I`
frame to `Take`, every way to close a client to `Leave`, `Cleanup` to `End`, and all
else to stuttering.

`BrokerLoop` refines what `BrokerProcess` calls `serving`: `turn = "done"` is the
step `LoopEnds`.

### `ByteBuffers` and `AttachClient`

`ByteBuffers` translates `ChunkQueue` and `ReplayBuffer`: chunks, the offset into the
first one, the size that is kept beside them, the trim of the replay.
`AttachClient` uses them on both sides of one connection.  The shell prints the
bytes 1, 2, 3, ...; `replay` and `queue` belong to the broker, `wire` is the
socket, `incoming` and `output` belong to the client, `shown` is what the tab took.

| Code | Actions |
|---|---|
| `_read_pty`, `_queue`, `_handle_frame` (attach), `_write_client`, `_close_client` | `ReadPty`, `Attach`, `WriteClient`, `CloseClient` |
| `run_attach`: connect, handlers, raw mode | `Connect`, `Setup`, `Drained` |
| its loop | `Receive`, `EndOfConnection`, `Parse`, `Parsed`, `WriteStdout`, `SendFails`, `Leave` |
| SIGWINCH | `Resize` at any time, then `NoticeResize`, `ReadSize`, `SendSize` at the top of the loop |

A frame header is one symbol that holds the length and the truncation notice is
two, so that a short write can tear it; payloads keep every byte.  What the user
types is left out except that sending it may fail.  Of a window size only its age
counts: `new` is the size the window has now, and each resize makes it `old`, so
the user may resize without end.  Clearing the flag, looking at the window and
sending the size are three steps, and a resize may come between any two of them.
One that comes after the size was read for the attach frame and before the handler
is set is not noticed; `unheard` marks it and `SizeFollows` excludes it.
`ArrivedIsShown` leaves out the end by a failed send, after which the code loses
what it has not written yet.

### `TerminalTabs`

The registry is one value per task and a transaction on it is one step, which may
fail (`TaskStore` is about what happens inside).  A `create` that fails may leave a
row.  A broker lives as long as its row, and the reads of the poller succeed; the
reads of a command and of `trackTerminal` may fail.  `step[th]` is the await at which an operation stands: `synchronize`,
the user's command, `provideProfile`; `list` is what `synchronize` read.  VS Code is
external: a created terminal is in the window at once, its open event comes
later, and a disposed one stays there until its close event.

| Code | Actions |
|---|---|
| `synchronize` | `ReadList`, `Reconcile`, `OpenNext` |
| `open` | `PublishOpen`, `ReadStatus`, `NothingToShow`, `Adopt`, `CreateTerminal` |
| `create`, `rename`, `delete`, `disposeLocal` | `Create`, `Rename`, `Delete`, `Open`, `Commit`, `DisposeLocal`, `OpenCreated` |
| `provideProfile`, `ProfilePublicationGate` | `ProvideProfile`, `Commit`, `HandOutProfile`, `OpenPromised`, `PromiseBroken`, `DeadlinePasses` |
| `trackTerminal`, `handleClose`, `publishTerminalClose`; VS Code | `TrackRead`, `Track`, `CloseEvent`, `Closes`, `Exits`, `CommitClose` |
| `dispose`, generation checks | `DisposeController`, `Abandon` |

`CoalescingExecutor` is one synchronization at a time.  `openAll` is a sequence
of opens.  A terminal object that nobody refers to is used again, always the
lowest-numbered free one, which is sound because tabs are interchangeable.  After
the host is disposed only its unfinished operations are followed.  The deletion of
a task whose creation ended too late (`resolveOrCompensate`) may fail like any
other, and nothing repeats it: the task then stays, and no property promises that
it goes.

### `SocketNamespace`

An object stands for one inode; that the kernel does not reuse the number of a
removed inode while somebody still compares with it is an assumption of the code
and of the model.  `at[p]` is what stands at a path, `aside` what was moved to a
random name.  The broker binds (`Prepare`, `Bind`, `Record`, `Listen`), is
identified by its host (`Identify`) and cleans up (`StartCleanup`, `Look`,
`MoveAside`, `Unlink`, `PutBack`); recover children check and remove with the same
steps, and kill and poll the cgroup.  Every call may fail (`faulty`), every process
may be killed between any two calls, and an outsider may replace or remove what
stands at a path at any time.

### `RegistryLock`

A call opens the lock file, spawns the helper and gives it the descriptor; the
helper takes the flock, answers and exits, and the flock stays with the open file
description until the last process that has it open closes it or dies.  Every
failure of open and spawn, the timeout with its kill, an exit without an answer
and the death of a host between any two steps are actions, and so is the removal
of the lock file by somebody else, which starts a new inode at the path.

### `ResourceBudget`

The ranges of the settings, `validateRuntimeResourceBudget` and the checks of
`main()`, with the real numbers.  It has no behaviour; its theorems say all.

## The runs

Runs of `MCTaskStore`.  Faults are unlimited in all of them.

| Run | Instance | Properties |
|---|---|---|
| `one` | 1 task, 3 hosts, 2 names | `BrokerHasRow`, `IdentityWasServed`, `ServingBrokerIntact`, `IInv`, `IdentifiedRemovalIsClean`, `ImplementsLifecycle` |
| `two` | 2 tasks, 2 hosts, 2 names, `RowsStayOpen`, `OneBrokerMoves` | `RegistryReadable`, `OnlyOwnRowChanges` |
| `progress` | 1 task, 2 hosts, `RunningSpec` | `GateAnswered`, `LockReleased`, `DeadStartingRowSettles`, `DeleteSucceeds` |
| `remnants` | 1 task, 2 hosts | violated, see below |

`one` asks what faults and interleavings may do to the row and the resources of
one task; `two` what transactions about different tasks do to each other in the
file; `progress` what must happen in the end.

Runs of `MCBrokerLoop`.

| Run | Instance | Properties |
|---|---|---|
| `clients` | 3 data peers, 2 sizes, 2 attached + 1 pending place | `TypeOK`, `ControllerDecidesSize` |
| `control` | 2 data peers, 2 control peers, 1 place for each kind | `WithinBudget`, `StopLostOnlyByEviction` |
| `turns` | 1 data peer, up to 3 frames in its socket, 2 output chunks, queue and replay of 1, `FairSpec` | `QueueIsUnsentOutput`, `NoStaleEvent`, `ImplementsTerminal`, `FramesResumed`, `IdlePlaceFreed`, `OutputNeverStalls` |
| `evict` | 2 control peers, 1 place, `FairSpec` | violated, see below |

Runs of the other modules.

| Run | Instance | Properties |
|---|---|---|
| `output` | `MCAttachClient`: 6 bytes in chunks of up to 2, replay of 2, queues of 4, a socket of 2 | `BuffersExact`, `NoSilentGap`, `LatestIsKept`, `ArrivedIsShown`, `LatestIsShown`, `SizeFollows` |
| `namespace` | `MCSocketNamespace`: the broker, 2 recover children, 2 foreign objects | `IInv`, `ForeignObjectsSurvive`, `ArtifactsAreReported`, `SuccessMeansGone`, `NoSelfInterference`, `RemovalEnds` |
| `tabs` | `MCTerminalTabs`: 1 task, 2 terminal objects, 2 moves of the user, 1 of other hosts | `TypeOK`, `NoDeadTabMapped`, `OnlyUserClosesArePublished`, `UserCloseIsPublished`, `WindowFollowsRegistry` |
| `profile` | `MCTerminalTabs`: 1 task, 3 terminal objects, 1 move of the user | violated, see below |

`output` asks whether what the shell prints reaches the eyes of the user, however
reads and writes are cut, and whether the last size of the window reaches the
broker; `namespace` what happens to the sockets and to other
programs' objects when processes race, fail and die; `tabs` whether the window
agrees with the registry in the end, and whether closing a tab is told to the
other windows exactly when it should be.

`clients` asks who decides the window size when clients come, go and are refused;
`control` what connections can cost and what may happen to a stop request;
`turns` whether output reaches a client from the promised history on and without
a gap (`ImplementsTerminal`), and whether every turn makes the progress it should.

Some limits are shown by a theorem for every size and not exercised by a run: no
output is printed in `clients` and `control`, so that a controller dropped for an
overflow and the limits of the output queues are the matter of the theorems of
`BrokerLoopProofs` alone.  `turns` has one data client: the timeout of an answered
control connection and a slow client beside a quick one are in the model but not
in that run.

**Bounds.**  The only lock holder, one host that left a stop or recover child
behind, and a third that begins next are all the roles a host can have in
`TaskStore`, so three hosts are enough for one task.  Rows of different tasks
interact only through the file (lost updates, names), which two tasks and two
hosts show.  In the two-task run tabs stay open (`RowsStayOpen`; the one-task run
closes them) and at most one broker starts or stops at a time (`OneBrokerMoves`;
the processes and sockets of two brokers have nothing in common).  Its limit of
two rows is never in the way of a third: that the limit holds is the theorem
`RegistryStaysReadable`, not a result of this run.

In `BrokerLoop`, `MaxSent` bounds the frames waiting in one socket and `MaxOutput`
the chunks the shell ever writes; every other constant is a limit of the code,
set to the smallest value at which it bites.  `MaxOutput` = 2 with queues of one
chunk overflows them; `MaxSent` = 3 with a budget of one frame leaves frames over
in a turn.  The passing runs let the world move between turns only
(`WorldBetweenTurns`): the broker sees the world only when it selects, receives,
sends and accepts, so what happens during a turn is either seen in that turn, as
if it had happened before it, or not, as if it happened after it.  `evict` runs
without this constraint.  In `control` the shell stays alive (`ShellLives`), since
its exit only ends the loop early.  Deadlock is not checked in `BrokerLoop`, which
really stops (`turn = "done"`), nor in the runs of the other modules, where
processes end and commands run out.  `TaskStore` is checked for deadlock.

In `AttachClient` six bytes are enough to overflow the broker's queue (which
drops the client) and the client's queue (which clears it and leaves the notice)
and to print more afterwards; the limits respect what `main()` enforces.  In
`SocketNamespace` the two recover children are the one of a host that died and the
one of the host that tries again (the theorems hold for any number), and two
foreign objects let a path change again after something was moved aside.  In
`TerminalTabs` a task has its own row, map entry and events, and what one task
does to another is the order of `OpenNext` only; two terminal objects are a tab
and its successor, or two tabs of one task that an earlier host left (`Init`
has up to two).  `MaxUser` bounds commands and closed tabs together: two suffice
to close and reopen, to delete while a tab opens, and to create while another
operation runs.

**Fairness.**  `Running`: processes that are not killed go on, child commands
end, and each await of a transaction has a timeout in the code.  `RunningSpec`
assumes no more than that, and `GateAnswered` and `LockReleased` need no more.
`GateAnswered` is about brokers whose `start()` succeeded; one that was forgotten
waits until its host exits, and no fairness says when.
`DeadStartingRowSettles` and `DeleteSucceeds` name what else they rest on in their
antecedents.  `Polling` and `Deleting` are strong fairness of beginning a
transaction: flock is not FIFO, so a waiting host may lose any one race, but the
view polls every three seconds with ten seconds of patience
(`extension.ts:459-463`), and a user repeats a delete that failed.  `Calm` says
that from some time on no fault hits a transaction that could have succeeded; the
two properties say what happens *afterwards*, from whatever state the faults
left.  In `BrokerLoop`, the loop is weakly fair, and a client that could expire at
the end of infinitely many turns does (strong fairness of each `Expire(p)`): the
timeout is half a second or two, and turns are at most 50 ms apart.  Nothing is
assumed of peers: they may never read, send or leave.

In `AttachClient` broker and client are fair; receiving, writing to the terminal
and noticing a resize are strongly fair, because `select` returns every ready
descriptor in each round and the tab reads again in the end.  `SizeFollows` adds
that the user stops resizing at some time.  In
`SocketNamespace` processes that are not killed go on.  In `TerminalTabs` one
condition says that the poller starts a synchronization again and again and its
awaits end (`WF` of `Sync`), the other that whatever else is due happens (`WF` of
`Command \/ Profile \/ Delivery`): none of those steps repeats forever, so none
needs a condition of its own.  The user and the other hosts are not fair.

Every property of a passing run has a mutant in `PROJECT.json`: a plausible bug
in a mapped definition, written as an operator marked "Mutant" just before the
definition it changes, under which TLC finds the property violated.

## The proofs

Eight modules hold theorems.

### The registry

`TaskStoreProofs` proves, for any sets of hosts, tasks and names and any `MaxTasks`:

| Theorem | Statement |
|---|---|
| `Invariance` | `Spec => []IInv` |
| `TypeCorrect` | `Spec => []TypeOK` |
| `LiveBrokerRegistered` | `Spec => []BrokerHasRow` |
| `IdentityServed` | `Spec => []IdentityWasServed` |
| `NoLostUpdate` | `Spec => OnlyOwnRowChanges` |
| `Refinement` | `Spec => ImplementsLifecycle` |
| `RegistryStaysReadable` | `Spec => []RegistryReadable` |
| `ServingIntact` | `Spec => []ServingBrokerIntact` |
| `RemovalIsClean` | `Spec => IdentifiedRemovalIsClean` |

The assumptions are those of the modules: `MaxTasks` is positive and `NoHost`,
`NoTask`, `NoRow` are none of the things they stand beside.

`BrokerHasRow` is not inductive: whether deleting a row is safe depends on what
the transaction learned several awaits ago.  `IInv` adds exactly that knowledge:

* `LockInv`: a transaction in progress holds the lock, so the file changes under
  nobody.
* `GateInv`: a broker at or past an open gate has a durable PID; a gate that is
  held belongs to the transaction that will answer it; a gate that was forgotten
  belongs to a broker whose PID no row has.
* `RowInv`: an identity implies a PID and a broker that served.
* `CurInv`: at each step, what the transaction's copy and the file say of its own
  task; in particular, before a row is removed, the broker is known not to run
  (`NotRunning`), and this is stable, because a dead broker stays dead and a
  closed or forgotten gate never opens.
* `HostInv`: other rows in the copy are those in the file; for `list`, each row of
  the copy is unchanged, hydrated, or removed for a broker that does not run.

The proof takes the actions in groups (create, delete, list, begin, edit, faults,
brokers, children), one lemma each, and `NextInv` combines them.  `Refinement`
shows that every write of the file is a legal `WriteRegistry` of `TaskLifecycle`
(`LegalWrite`, `WritesAreLegal`) and every broker step maps to `GoLive`, `Die` or
stuttering; it rests on `IInv`.  `NoLostUpdate` rests on the frame part of
`HostInv`.

`RegistryStaysReadable` needs more than `IInv`, which says nothing of names and
numbers: `NamesInv` adds that the file is within the limits, that a copy with a
new row or a new name was checked against the file when it was made, and that
later edits of a row keep its name.  Since the file changes under nobody
(`LockInv`), the copy still fits when it is written.

`ServingIntact` and `RemovalIsClean` need what `IInv` does not say of the kernel.
`ResInv` adds three things: what a broker holds at each phase (`Holds`); that a
recover child, even one whose host died, works on a broker that has died
(`ChildOfTheDead`); and what a lookup that a transaction made some awaits ago
still says (`Lookups`): a socket or cgroup found gone stays gone, since the broker
makes each once.  `Ages` is the step lemma behind it: resources of a broker that
served only go.

### The socket paths

`SocketNamespaceProofs` proves, for any set of recover children and of foreign
objects (assuming `NamesAssumption`: the broker is no recover child, nothing is
named `None`, and the broker's own sockets are not foreign):

| Theorem | Statement |
|---|---|
| `Invariance` | `Spec => []IInv` |
| `ForeignSurvival` | `Spec => []ForeignObjectsSurvive` |
| `ArtifactReport` | `Spec => []ArtifactsAreReported` |
| `SuccessfulRemoval` | `Spec => []SuccessMeansGone` |
| `RemoversAgree` | `Spec => []NoSelfInterference` |

None of the properties is inductive.  `IInv` adds `Exclusion` (whoever works on the
paths holds the lock, and holds aside exactly the object it moved), `Rising` (what
the broker has recorded at each step of its start: no path twice, so no recorded
object loses its explanation) and `Falling` (an exception, or a failed cleanup, is
not forgotten before the exit).  `ForeignStep` treats the actions that move
objects, all others leave them where they are; `ReportStays` shows that a
failure once reported stays reported, and `ArtifactStep` that an object is left
aside only with one.

`SuccessfulRemoval` rests on `GoneInv`: `Placed` says where a recorded socket can be,
`InTurn` which paths a process still has to visit, and `BrokerCleared` and `Freed`
what the paths already visited no longer hold.  `RemoversAgree` rests on
`PeaceInv`, which holds as long as no foreign object was put, none was taken away
and no call failed by itself: then every check finds what it expects, because
whoever looked before held the same lock.  `SequenceTheorems` of the library is used for the lists of
paths.

### The event loop

`BrokerLoopProofs` proves, for any peers, sizes, limits and any amount of output:

| Theorem | Statement |
|---|---|
| `Invariance`, `TypeCorrect` | `Spec => []IInv`, `Spec => []TypeOK` |
| `StaysWithinBudget` | `Spec => []WithinBudget` |
| `SizeControlled` | `Spec => []ControllerDecidesSize` |
| `EventsFresh` | `Spec => []NoStaleEvent` |
| `QueueExact` | `Spec => []QueueIsUnsentOutput` |
| `StopKept` | `Spec => StopLostOnlyByEviction` |
| `ImplementsSharedTerminal` | `Spec => ImplementsTerminal` |

They hold with the world moving at any step; the constraint of the runs
(`WorldBetweenTurns`) is not assumed.  What is assumed are the limits that `main()`
enforces (positive, and a replay that fits into an output queue) and that peers
and listeners are different things.

Most of this depends on where the turn is: a client may be closed only when its read event is
over, and that is so because of the order of the events and because control
clients are read before the listener evicts one.  `IInv` says it in parts:
`Records` (what the record of a connection may be; an answered control client has
its reply queued and is not read), `AttachesOnce` (at most one `A` on its way, so
the replay is queued once), `TurnInv` (which of the turn's variables are in use
when), `Places` (`accepted` lists the open control connections, and the counts) and
`Output` (the replay buffer and each queue are consecutive chunks up to the last
one read, less the one whose broadcast is in progress).  `ControllerDecidesSize`
is a part of `IInv`; `NoStaleEvent` follows from `Records`, `WithinBudget` from
`Places`, `Records` and `Output`, and `QueueIsUnsentOutput` from `Output`.

All ways to close a client, eight of them, are one case of the proof (`Drops`,
`AllDrops`, `DropKeeps`); steps about one client are another (`Edits`, `EditKeeps`),
and steps that no client notices a third (`Quiet`).  The refinement adds
`ReplayFull`: the replay holds all the history it may, which is what `Join`
promises; each kind of step then has a lemma (`DropIsLeaving`,
`AttachIsJoining`, ...), and `TerminalStep` combines them.

### The output of one tab

`ByteBuffersProofs` proves what the operators of `ByteBuffers` do to what the buffers
hold, for any chunks, data and limits:

| Theorem | Statement |
|---|---|
| `TrimEffect` | the trimming loop drops exactly the overflow from the front, wherever the chunk boundaries are |
| `RememberEffect` | an append leaves exactly the latest bytes up to the limit, and `size` is their number |
| `EnqueueEffect`, `ConsumeEffect` (lemmas) | what fits goes behind what is there; what was written goes from the front; the queue stays well formed |

What a list of chunks holds (`FlattenSeq`) is defined by recursion over the list.
The induction theorems of the library take an operator and are of no use here, but
the laws can be had without them: a set of numbers that holds 0 and every successor
is `Nat`, because a least number outside would have a predecessor inside (`NatInd`,
from the well-foundedness of `<`), and that suffices for `FlattenConcat`.  For the
same reason `Trim` says which chunks go (the longest beginning that fits into the
overflow) instead of folding over the list.

`AttachClientProofs` builds on it and proves, for any limits that `main()` accepts,
any sizes of chunks, reads and writes, and any amount of output:

| Theorem | Statement |
|---|---|
| `Invariance` | `Spec => []IInv` |
| `BuffersAreExact` | `Spec => []BuffersExact` |
| `NoGapIsSilent` | `Spec => []NoSilentGap` |
| `LatestStays` | `Spec => []LatestIsKept` |

The only assumption is `LimitsAssumption`: a frame of the replay fits into a client
queue, and the largest frame and the notice fit into the queue in front of stdout.

`NoSilentGap` is not inductive.  It says nothing of frame headers, but a parser that
took a byte of the shell for a header would break everything after it; and it says
nothing of where the stream ends, but that is where the next frame must carry on.
The proof sees the way of a byte as two sequences: `Written`, what the client took
out of its frames, and `Coming`, the frames that still come.  Short writes, reads and
receives move the boundaries between the buffers and change neither.  `Flow` says
of the two: what is written is in order, with the whole notice at each gap
(`Ordered`); what comes is a sequence of frames, of which only the last may be torn
(`Framed`); the bytes in them follow each other without a gap (`Consecutive`) and
carry on where the written ones end (`Joined`); and while the broker holds on to the
client, nothing is missing at the end (`UpTo`).  Only four steps touch these
sequences: a frame is queued (`FrameQueued`), the client is dropped (`QueueCleared`,
which may tear the last frame, after which none follows), and a frame is parsed,
with or without an overflow (`ParseInv`: `RunAppended`, `ToldAppended`,
`FrameBehind`, `FrameJoins`).  After an overflow the notice stands behind what
stdout has taken, wherever the short write stopped; here `OutputQueued` needs the
lower bound that `main()` puts on the limit.

### The tabs

`TerminalTabsProofs` proves, for any tasks, any number of tabs, of the user's
moves and of moves of other hosts (`TabsAssumption`: those are natural numbers, and
`None` is neither a task nor a tab):

| Theorem | Statement |
|---|---|
| `TypeCorrect` | `Spec => []TypeOK` |
| `MappedTabsLive` | `Spec => []NoDeadTabMapped` |
| `NothingElsePublished` | `Spec => []OnlyUserClosesArePublished` |
| `UserClosePublished` | `Spec => []UserCloseIsPublished` |

`IInv` follows each terminal object through its life: `Life` says what each stage
means for the reason of its close, the tombstone and the number of
publications; `Followed` says that `trackTerminal`, when it is over, left its
tab mapped or suppressed, so that the close event does not leave the close to
somebody who is gone.  Most steps touch no tab (`StepCases`); the dozen that do
have a case each.

### The registry lock

`RegistryLock` proves, for any set of calls, with no assumption:

| Theorem | Statement |
|---|---|
| `LockExcludes` | no two transactions are in progress on one lock file |
| `LockComesBack` | a held flock belongs to a call in progress or to a helper that will exit |
| `ImplementsLock` | calls and helpers together act as the one lock of `TaskStore` |

The invariant says that flocks of one inode exclude each other, that a call inside
its transaction holds its flock, and that a helper has its call's descriptor.
Exclusion holds per inode, which is as much as the code promises: whoever removes
the lock file while it is held lets a second transaction in.  `ImplementsLock`
therefore assumes that nobody does.

### The budget

`ResourceBudget` proves, for every setting in range: what the extension accepts the
broker and the attach client accept (`AcceptedStarts`), also the defaults
(`DefaultsAccepted`); the attach queue has room for a whole frame behind the
notice (`RoomBehindNotice`); all tasks together stay within the user's budget
(`UserWithinBudget`); and JavaScript computes the products exactly
(`ArithmeticIsExact`).

### Model-checked only

The liveness properties, which are beyond the prover: `GateAnswered`,
`LockReleased`, `DeadStartingRowSettles`, `DeleteSucceeds`, `FramesResumed`,
`IdlePlaceFreed`, `OutputNeverStalls`, `RemovalEnds`, `ArrivedIsShown`,
`LatestIsShown`, `SizeFollows` and `WindowFollowsRegistry`.
Every safety property and every refinement that a run checks is also proved.

## Disagreements found

* `remnants`: `docs/runbook.md:65` says that "any surviving or drifted resource
  retains its row" when starting rows are pruned.  A starting row without identity
  has no cgroup path, so neither `list` nor the rollback looks for the cgroup: a
  broker killed after it made its cgroup and before it served loses its row while
  cgroup and shell survive.  The sockets are exposed too: `list` looks them up
  before the process, and a broker that binds them and is killed in between loses
  its row while a socket is there.
* `evict`: `docs/architecture.md:49` says that a slowloris batch cannot evict "a
  complete stop request".  A stop frame is accepted before the listener event of
  the same turn, and its acknowledgement is written in the next turn; if all
  control places are taken and its sender is the oldest, the new connection
  evicts it, no acknowledgement is sent, and the broker goes on.  The sender sees
  a closed connection and a delete that failed; repeating it works.
* `profile`: `test/lifecycle.test.ts:95` says that the publication gate "suppresses
  watcher auto-open across the registry publication race".  The gate forgets a
  publication when the task is not in the list it is given, and `synchronize` may
  have read that list before the task was created; the next synchronization
  opens a second tab while VS Code still creates the first.

## What is not modelled

* Legacy tmux rows: one command, no identity, no recovery.
* `terminal-spec.ts` and path resolution: pure construction of arguments.
* Tree view, menus and messages; soak and benchmark scripts.
* What the user types on its way through the attach client, terminal modes
  (`setRawTerminal` and its restoration), signals other than SIGWINCH.
* The content of status answers; bytes of an incomplete frame in `BrokerLoop`
  (`AttachClient` cuts frames from the broker anywhere, not those to it).
* A status request that fails in `lstat` of a cgroup removed from outside, and
  hosts configured with different `maxTasks`: a host with a lower limit finds the
  registry unreadable.
* A kernel that gives the number of a removed inode to a new object at once.
* The views of a disposed window.

## The plan

1. Done: `BrokerProcess`, `TaskStore`, `TaskLifecycle` with proofs
   (`TaskStoreProofs`); `BrokerLoop`.
2. Done: `RegistryLock` and `ResourceBudget`, with proofs; `SocketNamespace` with
   proofs; `ByteBuffers` and `AttachClient`; `TerminalTabs`.
3. Done: proofs about the resources of `TaskStore` (`TaskStoreProofs`, part 3), about
   `BrokerLoop` with its refinement of `SharedTerminal`, about `TerminalTabs`, and
   the rest of the safety of `SocketNamespace`.
4. Done: proofs about the byte buffers (`ByteBuffersProofs`) and about the output of
   one tab (`AttachClientProofs`).
5. Open: hosts with different `maxTasks` in `TaskStore`; the other direction of
   `AttachClient` (input, raw mode).
