---------------------------- MODULE TerminalTabs ----------------------------
(* One extension host and the terminal tabs of its window                   *)
(* (SharedTerminalController in extension.ts, TerminalRegistry and          *)
(* ProfilePublicationGate in lifecycle.ts).  The registry says which task   *)
(* is open; the host polls it and creates and disposes tabs, while the user *)
(* opens, renames, deletes and creates tasks and closes tabs, and other     *)
(* hosts do the same to the registry.  Every `await' is a step boundary:    *)
(* what was read before it is old when it is used.                          *)
(*                                                                          *)
(* A registry transaction is one step here and any of them may fail         *)
(* (TaskStore is about what happens inside); the reads of the poller        *)
(* succeed, and a broker lives as long as its row.                          *)
(* VS Code is external: a created terminal is in window.terminals at once   *)
(* and its open event comes later; a disposed or closed one stays there     *)
(* until its close event.  After the host is disposed only its unfinished   *)
(* operations are followed.                                                 *)
EXTENDS Naturals, FiniteSets

CONSTANTS
  Tasks,
  NumTabs,    \* terminal objects; a forgotten one is used again
  MaxUser,    \* commands of the user, closed tabs and tabs that exit
  MaxRemote,  \* what the other hosts do to the registry
  None

ASSUME TabsAssumption ==
  /\ NumTabs \in Nat /\ MaxUser \in Nat /\ MaxRemote \in Nat
  /\ None \notin Tasks \cup 1..NumTabs

VARIABLES
  row,        \* row[t]: "new" (not created yet) | "open" | "closed" | "deleted"
  tab,        \* tab[x]: "free" | "promised" | "live" | "dying" | "gone"
  of,         \* of[x]: the task in the environment of tab x
  why,        \* why[x]: "" | "user" | "other", the exit reason
  tracking,   \* tracking[x]: "" | "asked" | "found" | "done", its trackTerminal
  mapped,     \* mapped[t]: terminals of TerminalRegistry, or None
  suppressed, \* suppressedCloseEvents
  tomb,       \* tomb[x]: "" | "ours" | "claimed" | "unclaimed", closedTerminals
  told,       \* told[x]: how often the close of x was published
  closing,    \* the tasks with a closeIfPresent on its way
  pending,    \* pendingProfileTasks and the pending of ProfilePublicationGate
  late,       \* the pending tasks whose deadline of five seconds is over
  step,       \* step[th]: where the asynchronous operation of th is
  task,       \* task[th]: the task it is about
  list,       \* the registry as synchronize read it, until it has used it
  todo,       \* the tasks synchronize still has to open
  disposed,   \* the controller is disposed
  user, remote  \* what is left of MaxUser and MaxRemote

vscode == <<tab, of, why>>
ext == <<tracking, mapped, suppressed, tomb, told, closing>>
gate == <<pending, late>>
threads == <<step, task, list, todo>>
bounds == <<user, remote>>
vars == <<row, vscode, ext, gate, threads, disposed, bounds>>

\* synchronize (one at a time, CoalescingExecutor), the command of the user,
\* provideProfile.
Threads == {"sync", "command", "profile"}

Tabs == 1..NumTabs
NoTabs == [x \in Tabs |-> ""]
Old == [t \in Tasks |-> "old"]  \* a list that nobody will use

Exists(t) == t # None /\ row[t] \in {"open", "closed"}
InWindow(x) == tab[x] \in {"live", "dying"}
IsClosed(x) == tomb[x] # "" \/ x \in suppressed
Reusable(x) == tab[x] \in {"free", "gone"} /\ tracking[x] \in {"", "done"}
InFlight == step["profile"] # "idle"

\* A host starts, perhaps with tabs that an earlier extension host left.
Init ==
  /\ row \in [Tasks -> {"new", "open"}]
  /\ \E n \in 0..2 :
       tab = [x \in Tabs |-> IF x <= n THEN "live" ELSE "free"]
  /\ of \in [Tabs -> Tasks \cup {None}]
  /\ \A x \in Tabs : IF tab[x] = "live" THEN of[x] # None /\ Exists(of[x])
                                        ELSE of[x] = None
  /\ why = NoTabs /\ tracking = NoTabs /\ tomb = NoTabs
  /\ mapped = [t \in Tasks |-> None]
  /\ suppressed = {} /\ closing = {} /\ pending = {} /\ late = {} /\ todo = {}
  /\ told = [x \in Tabs |-> 0]
  /\ step = [th \in Threads |-> "idle"]
  /\ task = [th \in Threads |-> None]
  /\ list = Old
  /\ disposed = FALSE
  /\ user = MaxUser /\ remote = MaxRemote

----------------------------------------------------------------------------
(* Shared parts of the handlers.                                            *)

GoTo(th, label) == step' = [step EXCEPT ![th] = label]
End(th) == GoTo(th, "idle") /\ task' = [task EXCEPT ![th] = None]
Begin(th, t, label) ==
  /\ step[th] = "idle" /\ ~disposed /\ user > 0
  /\ GoTo(th, label) /\ task' = [task EXCEPT ![th] = t]
  /\ user' = user - 1
  /\ UNCHANGED <<row, vscode, ext, gate, list, todo, disposed, remote>>

\* Terminal object x, which nobody refers to, becomes a new tab of task t.
NewTabs == {x \in Tabs : Reusable(x) /\ \A y \in 1..(x - 1) : ~Reusable(y)}
NewTab(x, t, state) ==
  /\ tab' = [tab EXCEPT ![x] = state]
  /\ of' = [of EXCEPT ![x] = t]
  /\ why' = [why EXCEPT ![x] = ""]
  /\ tomb' = [tomb EXCEPT ![x] = ""]
  /\ told' = [told EXCEPT ![x] = 0]
  /\ suppressed' = suppressed \ {x}

\* terminal.dispose() of the tabs in xs; it is too late for a dying one.
Dispose(xs) ==
  /\ tab' = [x \in Tabs |-> IF x \in xs /\ tab[x] = "live" THEN "dying" ELSE tab[x]]
  /\ why' = [x \in Tabs |-> IF x \in xs /\ tab[x] = "live" THEN "other" ELSE why[x]]
  /\ UNCHANGED of

\* publishTerminalClose for the tabs in xs: only a close by the user.
PublishClose(xs) ==
  LET byUser == {x \in xs : why[x] = "user"}
  IN  /\ closing' = closing \cup {of[x] : x \in byUser}
      /\ told' = [x \in Tabs |-> IF x \in byUser THEN told[x] + 1 ELSE told[x]]

----------------------------------------------------------------------------
(* synchronize                                                              *)

\* The poll or a finished command asks for it.
ReadList ==
  /\ step["sync"] = "idle" /\ ~disposed
  /\ list' = row
  /\ GoTo("sync", "reconcile")
  /\ UNCHANGED <<row, vscode, ext, gate, task, todo, disposed, bounds>>

\* What stands in the window for task t and may be mapped.
Candidates(t) == {x \in Tabs : InWindow(x) /\ of[x] = t /\ ~IsClosed(x)}
Listed(t) == list[t] \in {"open", "closed"}

\* Mutant: tabs that are not mapped are left alone.
DuplicatesOverlooked(t, keep) == {}

\* The tabs of a listed task that registerAfterLookup disposes when it keeps
\* tab `keep' for it.
Duplicates(t, keep) == Candidates(t) \ {keep}

\* With keep[t] as the mapped tab of task t: the tasks whose tab has to go,
\* and all tabs that have to.
Missing(keep) == {t \in Tasks : keep[t] # None /\ list[t] # "open"}
Gone(keep) ==
  (UNION {Duplicates(t, keep[t]) : t \in {u \in Tasks : Listed(u)}})
    \cup {keep[t] : t \in Missing(keep)}

\* The publications that are neither late, nor forgotten, nor over.
Kept ==
  {t \in pending \ late : Listed(t)} \ {of[x] : x \in {y \in Tabs : InWindow(y)}}

\* After the list arrived: map the tabs of the window to the listed tasks and
\* dispose duplicates, dispose mapped tabs of tasks that the list does not
\* show open, forget profile publications that are late or not in the list,
\* and find the tasks to open.
Reconcile ==
  /\ step["sync"] = "reconcile" /\ ~disposed
  /\ \E keep \in [Tasks -> Tabs \cup {None}] :
       /\ \A t \in Tasks :
            IF mapped[t] # None \/ ~Listed(t) \/ Candidates(t) = {}
              THEN keep[t] = mapped[t]
              ELSE keep[t] \in Candidates(t)
       /\ mapped' = [t \in Tasks |-> IF t \in Missing(keep) THEN None ELSE keep[t]]
       /\ suppressed' = suppressed \cup Gone(keep)
       /\ Dispose(Gone(keep))
  /\ pending' = Kept /\ late' = late \cap Kept
  /\ todo' = IF InFlight THEN {} ELSE {t \in Tasks : list[t] = "open"} \ Kept
  /\ list' = Old
  /\ GoTo("sync", "next")
  /\ UNCHANGED <<row, tracking, tomb, told, closing, task, disposed, bounds>>

OpenNext ==
  /\ step["sync"] = "next"
  /\ IF todo = {} \/ disposed
       THEN End("sync") /\ todo' = {}
       ELSE \E t \in todo :
              /\ GoTo("sync", "status")
              /\ task' = [task EXCEPT !["sync"] = t]
              /\ todo' = todo \ {t}
  /\ UNCHANGED <<row, vscode, ext, gate, list, disposed, bounds>>

----------------------------------------------------------------------------
(* open, for synchronize and for a command                                  *)

\* setOpen(true): it throws when the row is gone or the transaction fails.
PublishOpen ==
  LET t == task["command"]
  IN
  /\ step["command"] = "publish"
  /\ \/ /\ Exists(t)
        /\ row' = [row EXCEPT ![t] = "open"]
        /\ GoTo("command", "status") /\ UNCHANGED task
     \/ UNCHANGED row /\ End("command")
  /\ UNCHANGED <<vscode, ext, gate, list, todo, disposed, bounds>>

Shown(th) ==
  IF th = "sync" THEN GoTo(th, "next") /\ UNCHANGED task ELSE End(th)

\* listWithStatus: a task that is gone is not shown, and a command may fail.
ReadStatus(th) ==
  /\ step[th] = "status"
  /\ \/ Exists(task[th]) /\ GoTo(th, "show") /\ UNCHANGED task
     \/ (~Exists(task[th]) \/ th = "command") /\ Shown(th)
  /\ UNCHANGED <<row, vscode, ext, gate, list, todo, disposed, bounds>>

\* The tab is there, or the host is disposed.
NothingToShow(th) ==
  /\ step[th] = "show"
  /\ disposed \/ mapped[task[th]] # None
  /\ Shown(th)
  /\ UNCHANGED <<row, vscode, ext, gate, list, todo, disposed, bounds>>

\* Mutant: a tab that is being disposed is adopted.
AdoptAny(th) ==
  LET t == task[th]
  IN
  /\ step[th] = "show" /\ ~disposed /\ mapped[t] = None
  /\ \E x \in {y \in Tabs : InWindow(y) /\ of[y] = t} :
       mapped' = [mapped EXCEPT ![t] = x]
  /\ Shown(th)
  /\ UNCHANGED <<row, vscode, tracking, suppressed, tomb, told, closing, gate,
                 list, todo, disposed, bounds>>

Adopt(th) ==
  LET t == task[th]
  IN
  /\ step[th] = "show" /\ ~disposed /\ mapped[t] = None
  /\ \E x \in Candidates(t) : mapped' = [mapped EXCEPT ![t] = x]
  /\ Shown(th)
  /\ UNCHANGED <<row, vscode, tracking, suppressed, tomb, told, closing, gate,
                 list, todo, disposed, bounds>>

CreateTerminal(th) ==
  LET t == task[th]
  IN
  /\ step[th] = "show" /\ ~disposed /\ mapped[t] = None
  /\ Candidates(t) = {}
  /\ \E x \in NewTabs :
       /\ NewTab(x, t, "live")
       /\ mapped' = [mapped EXCEPT ![t] = x]
       /\ tracking' = [tracking EXCEPT ![x] = "asked"]
  /\ Shown(th)
  /\ UNCHANGED <<row, closing, gate, list, todo, disposed, bounds>>

----------------------------------------------------------------------------
(* Commands and the profile provider.                                       *)

\* The tree may show a task that is deleted by now.
Open(t) == row[t] # "new" /\ Begin("command", t, "publish")
Rename(t) == row[t] # "new" /\ Begin("command", t, "rename")
Delete(t) == row[t] # "new" /\ Begin("command", t, "delete")
Create(t) == row[t] = "new" /\ Begin("command", t, "create")
ProvideProfile(t) == row[t] = "new" /\ Begin("profile", t, "create")

\* The transaction of rename, delete, create or createAutomatic.
Commit(th) ==
  LET t == task[th]
  IN
  /\ \/ /\ step[th] = "rename" /\ Exists(t)
        /\ GoTo(th, "renamed") /\ UNCHANGED <<row, task>>
     \/ /\ step[th] = "delete"
        /\ row' = [row EXCEPT ![t] = "deleted"]
        /\ GoTo(th, "deleted") /\ UNCHANGED task
     \/ /\ step[th] = "create" /\ row[t] = "new"
        /\ row' = [row EXCEPT ![t] = "open"]
        /\ GoTo(th, "created") /\ UNCHANGED task
     \/ /\ step[th] \in {"rename", "delete", "create"}  \* it fails
        /\ End(th) /\ UNCHANGED row
     \/ /\ step[th] = "create" /\ row[t] = "new"  \* and leaves a starting row
        /\ row' = [row EXCEPT ![t] = "open"] /\ End(th)
  /\ UNCHANGED <<vscode, ext, gate, list, todo, disposed, bounds>>

\* disposeLocal, after a rename or a delete.
DisposeLocal ==
  LET t == task["command"]
      x == mapped[t]
  IN
  /\ step["command"] \in {"renamed", "deleted"} /\ ~disposed
  /\ suppressed' = suppressed \cup ({x} \ {None})
  /\ mapped' = [mapped EXCEPT ![t] = None]
  /\ Dispose({x})
  /\ IF step["command"] = "renamed" THEN GoTo("command", "publish") /\ UNCHANGED task
                                   ELSE End("command")
  /\ UNCHANGED <<row, tracking, tomb, told, closing, gate, list, todo, disposed,
                 bounds>>

OpenCreated ==
  /\ step["command"] = "created" /\ ~disposed
  /\ GoTo("command", "publish")
  /\ UNCHANGED <<row, vscode, ext, gate, task, list, todo, disposed, bounds>>

\* The profile is handed to VS Code, which will create the tab.
HandOutProfile ==
  LET t == task["profile"]
  IN
  /\ step["profile"] = "created" /\ ~disposed
  /\ pending' = pending \cup {t}
  /\ \E x \in NewTabs : NewTab(x, t, "promised")
  /\ End("profile")
  /\ UNCHANGED <<row, tracking, mapped, closing, late, list, todo, disposed,
                 bounds>>

\* After an await the host is disposed: the operation ends, and a task that
\* was created for it is deleted again (resolveOrCompensate).  That delete may
\* fail, and then nobody repeats it: the task stays.
Abandon(th) ==
  /\ disposed
  /\ step[th] \in {"created", "renamed", "deleted", "reconcile"}
  /\ \/ UNCHANGED row
     \/ step[th] = "created" /\ row' = [row EXCEPT ![task[th]] = "deleted"]
  /\ End(th) /\ list' = Old
  /\ UNCHANGED <<vscode, ext, gate, todo, disposed, bounds>>

\* Awaits that end later find the host disposed, and nobody looks at the
\* window for it any more.
DisposeController ==
  /\ ~disposed
  /\ disposed' = TRUE
  /\ mapped' = [t \in Tasks |-> None]
  /\ pending' = {} /\ late' = {} /\ suppressed' = {}
  /\ tab' = [x \in Tabs |-> "free"] /\ of' = [x \in Tabs |-> None]
  /\ tracking' = NoTabs /\ why' = NoTabs /\ tomb' = NoTabs
  /\ told' = [x \in Tabs |-> 0]
  /\ user' = 0 /\ remote' = 0
  /\ UNCHANGED <<row, closing, threads>>

----------------------------------------------------------------------------
(* Events of the window.                                                    *)

OpenPromised(x) ==
  /\ tab[x] = "promised"
  /\ tab' = [tab EXCEPT ![x] = "live"]
  /\ tracking' = [tracking EXCEPT ![x] = "asked"]
  /\ UNCHANGED <<row, of, why, mapped, suppressed, tomb, told, closing, gate,
                 threads, disposed, bounds>>

PromiseBroken(x) ==
  /\ tab[x] = "promised" /\ user > 0
  /\ tab' = [tab EXCEPT ![x] = "gone"]
  /\ user' = user - 1
  /\ UNCHANGED <<row, of, why, ext, gate, threads, disposed, remote>>

DeadlinePasses(t) ==
  /\ t \in pending \ late
  /\ \A x \in Tabs : of[x] = t => tab[x] # "promised"  \* VS Code is quick enough
  /\ late' = late \cup {t}
  /\ UNCHANGED <<row, vscode, ext, pending, threads, disposed, bounds>>

\* trackTerminal: the list is read first, and it may fail, ...
TrackRead(x) ==
  /\ tracking[x] = "asked"
  /\ \/ Exists(of[x]) /\ tracking' = [tracking EXCEPT ![x] = "found"]
     \/ tracking' = [tracking EXCEPT ![x] = ""]
  /\ UNCHANGED <<row, vscode, mapped, suppressed, tomb, told, closing, gate,
                 threads, disposed, bounds>>

\* Mutant: the deadline stays.
ConsumeOne(t) == pending' = pending \ {t} /\ UNCHANGED late

\* The tab of a profile is there: its publication is over.
Consume(t) == pending' = pending \ {t} /\ late' = late \ {t}

\* ... and then registerAfterLookup finds the tab as it is by now.
Track(x) ==
  LET t == of[x]
      free == ~IsClosed(x) /\ mapped[t] = None
      extra == {x} \ {mapped[t]}
  IN
  /\ tracking[x] = "found"
  /\ tracking' = [tracking EXCEPT ![x] = "done"]
  /\ Consume(t)
  /\ mapped' = IF free THEN [mapped EXCEPT ![t] = x] ELSE mapped
  /\ IF tomb[x] = "unclaimed"
       THEN tomb' = [tomb EXCEPT ![x] = "claimed"] /\ PublishClose({x})
       ELSE UNCHANGED <<tomb, told, closing>>
  /\ IF IsClosed(x) \/ free
       THEN UNCHANGED <<vscode, suppressed>>
       ELSE suppressed' = suppressed \cup extra /\ Dispose(extra)
  /\ UNCHANGED <<row, threads, disposed, bounds>>

\* The user closes the tab, or the attach client in it ends.
Closes(x, reason) ==
  /\ tab[x] = "live"
  /\ tab' = [tab EXCEPT ![x] = "dying"]
  /\ why' = [why EXCEPT ![x] = reason]
  /\ user > 0 /\ user' = user - 1
  /\ UNCHANGED <<row, of, ext, gate, threads, disposed, remote>>

\* The broker of a deleted task is gone, and so is its attach client.
Exits(x) ==
  /\ tab[x] = "live" /\ ~Exists(of[x])
  /\ Dispose({x})
  /\ UNCHANGED <<row, ext, gate, threads, disposed, bounds>>

\* Mutant: nobody may publish the close of a tab that is not mapped yet.
TombstoneClaimed(x, tracked) == IF x \in suppressed THEN "ours" ELSE "claimed"

\* What closedTerminals says of x from now on; only an unclaimed close is left
\* for its trackTerminal to publish.
Tombstone(x, tracked) ==
  IF x \in suppressed THEN "ours" ELSE IF tracked THEN "claimed" ELSE "unclaimed"

\* Mutant: a close by the extension itself is published like any other.
CloseEventUnsuppressed(x) ==
  /\ tab[x] = "dying"
  /\ tab' = [tab EXCEPT ![x] = "gone"]
  /\ tomb' = [tomb EXCEPT ![x] = "unclaimed"]
  /\ mapped' = [t \in Tasks |-> IF mapped[t] = x THEN None ELSE mapped[t]]
  /\ suppressed' = suppressed \ {x}
  /\ PublishClose(IF \E t \in Tasks : mapped[t] = x THEN {x} ELSE {})
  /\ UNCHANGED <<row, of, why, tracking, gate, threads, disposed, bounds>>

\* onDidCloseTerminal, handleClose: suppressed, tracked, or pending.
CloseEvent(x) ==
  LET tracked == x \notin suppressed /\ \E t \in Tasks : mapped[t] = x
  IN
  /\ tab[x] = "dying"
  /\ tab' = [tab EXCEPT ![x] = "gone"]
  /\ tomb' = [tomb EXCEPT ![x] = Tombstone(x, tracked)]
  /\ mapped' = [t \in Tasks |-> IF tracked /\ mapped[t] = x THEN None ELSE mapped[t]]
  /\ suppressed' = suppressed \ {x}
  /\ PublishClose(IF tracked THEN {x} ELSE {})
  /\ UNCHANGED <<row, of, why, tracking, gate, threads, disposed, bounds>>

\* closeIfPresent.  A failure is only reported, and the row stays open.
CommitClose(t) ==
  /\ t \in closing
  /\ closing' = closing \ {t}
  /\ \/ UNCHANGED row
     \/ row[t] = "open" /\ row' = [row EXCEPT ![t] = "closed"]
  /\ UNCHANGED <<vscode, tracking, mapped, suppressed, tomb, told, gate, threads,
                 disposed, bounds>>

\* Another host opens, closes, creates or deletes a task.
OtherHost(t) ==
  /\ remote > 0 /\ remote' = remote - 1 /\ ~disposed
  /\ row[t] # "deleted"
  /\ \E new \in {"open", "closed", "deleted"} \ {row[t]} :
       /\ row[t] = "new" => new = "open" /\ \A th \in Threads : task[th] # t
       /\ row' = [row EXCEPT ![t] = new]
  /\ UNCHANGED <<vscode, ext, gate, threads, disposed, user>>

Sync == ReadList \/ Reconcile \/ OpenNext
Opening(th) == ReadStatus(th) \/ NothingToShow(th) \/ Adopt(th) \/ CreateTerminal(th)
Command ==
  \/ PublishOpen \/ Opening("command") \/ Commit("command") \/ DisposeLocal
  \/ OpenCreated \/ Abandon("command")
Profile == Commit("profile") \/ HandOutProfile \/ Abandon("profile")
Window(x) ==
  \/ OpenPromised(x) \/ TrackRead(x) \/ Track(x) \/ CloseEvent(x)
  \/ Exits(x)

Delivery ==
  \/ \E x \in Tabs : Window(x)
  \/ \E t \in Tasks : CommitClose(t) \/ DeadlinePasses(t)

Next ==
  \/ Sync \/ Opening("sync") \/ Abandon("sync") \/ Command \/ Profile
  \/ Delivery
  \/ DisposeController
  \/ \E t \in Tasks :
       \/ Open(t) \/ Rename(t) \/ Delete(t) \/ Create(t) \/ ProvideProfile(t)
       \/ OtherHost(t)
  \/ \E x \in Tabs :
       \/ PromiseBroken(x) \/ Closes(x, "user") \/ Closes(x, "other")

\* The poller starts a synchronization every three seconds and its awaits end;
\* so do those of everything else, VS Code delivers its events and time passes.
\* Nothing but synchronize goes on forever, so what else is due is not
\* overtaken forever and needs no fairness of its own.
Spec ==
  /\ Init /\ [][Next]_vars
  /\ WF_vars(Sync \/ Opening("sync") \/ Abandon("sync"))
  /\ WF_vars(Command \/ Profile \/ Delivery)

----------------------------------------------------------------------------
(* Properties.                                                              *)

TypeOK ==
  /\ row \in [Tasks -> {"new", "open", "closed", "deleted"}]
  /\ tab \in [Tabs -> {"free", "promised", "live", "dying", "gone"}]
  /\ of \in [Tabs -> Tasks \cup {None}]
  /\ mapped \in [Tasks -> Tabs \cup {None}]
  /\ suppressed \subseteq Tabs
  /\ {closing, pending, late, todo} \subseteq SUBSET Tasks
  /\ late \subseteq pending

\* When nobody does anything any more, the window shows what the registry
\* says: exactly one tab, the mapped one, for every open task and no tab for
\* any other, whatever order commands, polls, events and old lists came in.
Settled ==
  \A t \in Tasks :
    LET tabs == {x \in Tabs : tab[x] = "live" /\ of[x] = t}
    IN  IF row[t] = "open" THEN mapped[t] # None /\ tabs = {mapped[t]} ELSE tabs = {}
WindowFollowsRegistry == <>[](Settled \/ disposed)

\* A tab that the extension disposed, or whose close it has handled, is never
\* mapped again by an operation that found it before (the tombstones).
NoDeadTabMapped ==
  \A t \in Tasks : mapped[t] # None =>
    /\ InWindow(mapped[t]) /\ ~IsClosed(mapped[t])
    /\ of[mapped[t]] = t

\* Closing a shared tab is told to everybody at most once, and only when the
\* user did it: never for a reload, an exit, or a tab the extension disposed.
OnlyUserClosesArePublished ==
  \A x \in Tabs : told[x] <= (IF why[x] = "user" THEN 1 ELSE 0)

\* And it is told: when the tracking of a tab that found its task has ended
\* and the tab is closed, the close was published, in whatever order the close
\* event and the tracking came and whoever mapped the tab, unless the extension
\* wanted to dispose the tab itself.
UserCloseIsPublished ==
  \A x \in Tabs :
    tab[x] = "gone" /\ why[x] = "user" /\ tracking[x] = "done" =>
      told[x] = 1 \/ tomb[x] = "ours"

\* test/lifecycle.test.ts:95-105: from the publication of a profile's task
\* until VS Code opens its tab, the poller opens no other tab for it.
ProfileTabComesFirst ==
  [][CreateTerminal("sync") =>
       \A x \in Tabs : tab[x] = "promised" => of[x] # task["sync"]]_vars
=============================================================================
