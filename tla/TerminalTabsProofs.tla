------------------------- MODULE TerminalTabsProofs -------------------------
(***************************************************************************)
(* Proofs about the tabs of one extension host, for any tasks, any number  *)
(* of tabs and any number of commands: no closed tab is mapped again, and  *)
(* the close of a tab is published exactly when the user did it.           *)
(*                                                                         *)
(* IInv adds two things: what each stage in the life of a terminal object  *)
(* says about its close (Life), and that the end of its trackTerminal      *)
(* leaves it mapped, suppressed or claimed (Followed).  Most steps touch   *)
(* no tab (Quiet), so only the dozen that do have cases of their own.      *)
(***************************************************************************)
EXTENDS TerminalTabs, TLAPS

Labels == {"idle", "reconcile", "next", "status", "show", "publish", "rename",
           "renamed", "delete", "deleted", "create", "created"}

\* TypeOK, with the variables that it leaves out.
WindowTypes ==
  /\ tab \in [Tabs -> {"free", "promised", "live", "dying", "gone"}]
  /\ of \in [Tabs -> Tasks \cup {None}]
  /\ why \in [Tabs -> {"", "user", "other"}]
  /\ tracking \in [Tabs -> {"", "asked", "found", "done"}]
  /\ mapped \in [Tasks -> Tabs \cup {None}]
  /\ suppressed \in SUBSET Tabs
  /\ tomb \in [Tabs -> {"", "ours", "claimed", "unclaimed"}]
  /\ told \in [Tabs -> Nat]

RegistryTypes ==
  /\ row \in [Tasks -> {"new", "open", "closed", "deleted"}]
  /\ list \in [Tasks -> {"new", "open", "closed", "deleted", "old"}]
  /\ closing \in SUBSET Tasks /\ todo \in SUBSET Tasks
  /\ pending \in SUBSET Tasks /\ late \in SUBSET pending
  /\ user \in Nat /\ remote \in Nat /\ disposed \in BOOLEAN

\* An operation that is past its start knows its task.
Busy(th) == step[th] \in Labels \ {"idle", "reconcile", "next"}
ThreadTypes ==
  /\ step \in [Threads -> Labels]
  /\ task \in [Threads -> Tasks \cup {None}]
  /\ \A th \in Threads : Busy(th) => task[th] \in Tasks

\* What the life of a terminal object says about its close: nothing before
\* it is closed, and afterwards told counts the publications that the
\* tombstone and the reason stand for.
Life(x) ==
  /\ tab[x] \in {"promised", "live", "dying"} => of[x] \in Tasks
  /\ tab[x] # "gone" => tomb[x] = "" /\ told[x] = 0
  /\ tab[x] \in {"free", "promised", "live"} => why[x] = ""
  /\ tab[x] = "dying" => why[x] # ""
  /\ x \in suppressed => tab[x] = "dying"
  /\ tab[x] = "gone" =>
       told[x] = (IF tomb[x] = "claimed" /\ why[x] = "user" THEN 1 ELSE 0)
  /\ tab[x] = "gone" => (tomb[x] = "" <=> why[x] = "")

\* trackTerminal of x: it is about a tab that was opened; once it is done, the
\* tab is mapped or the extension disposed it, so that the close event does
\* not leave the close to a trackTerminal that is over.
Followed(x) ==
  /\ tracking[x] # "" => of[x] \in Tasks
  /\ tracking[x] \in {"asked", "found"} => InWindow(x) \/ tomb[x] # ""
  /\ tracking[x] = "done" /\ InWindow(x) => x \in suppressed \/ mapped[of[x]] = x
  /\ tracking[x] = "done" => tomb[x] # "unclaimed"

TabInv == \A x \in Tabs : Life(x) /\ Followed(x)

IInv ==
  /\ WindowTypes /\ RegistryTypes /\ ThreadTypes
  /\ TabInv /\ NoDeadTabMapped

USE DEF vscode, ext, gate, threads, bounds

----------------------------------------------------------------------------
(* What the shared parts of the handlers do to one tab.                     *)

LEMMA Names == None \notin Tabs /\ None \notin Tasks
BY TabsAssumption DEF Tabs

\* A step that touches no tab.
Quiet == UNCHANGED <<tab, of, why, tracking, mapped, suppressed, tomb, told>>

\* The steps that do.
Touches ==
  \/ Reconcile \/ DisposeLocal \/ HandOutProfile \/ DisposeController
  \/ \E th \in Threads : Adopt(th) \/ CreateTerminal(th)
  \/ \E x \in Tabs :
       \/ OpenPromised(x) \/ PromiseBroken(x) \/ TrackRead(x) \/ Track(x)
       \/ \E reason \in {"user", "other"} : Closes(x, reason)
       \/ Exits(x) \/ CloseEvent(x)

\* Every step either touches no tab or is one of those that do.
LEMMA StepCases ==
  ASSUME [Next]_vars
  PROVE  Quiet \/ Touches
<1> SUFFICES ASSUME Next PROVE Quiet \/ Touches
  BY DEF Quiet, vars
<1> "sync" \in Threads /\ "command" \in Threads /\ "profile" \in Threads
  BY DEF Threads
<1>1. ASSUME NEW th \in Threads, Opening(th) PROVE Quiet \/ Touches
  <2>1. CASE ReadStatus(th)
    BY <2>1 DEF ReadStatus, Quiet
  <2>2. CASE NothingToShow(th)
    BY <2>2 DEF NothingToShow, Quiet
  <2> QED
    BY <1>1, <2>1, <2>2 DEF Opening, Touches
<1>2. ASSUME NEW th \in Threads, Abandon(th) PROVE Quiet
  BY <1>2 DEF Abandon, Quiet
<1>3. ASSUME NEW th \in Threads, Commit(th) PROVE Quiet
  BY <1>3 DEF Commit, Quiet
<1>4. CASE Sync
  BY <1>4 DEF Sync, ReadList, OpenNext, Quiet, Touches
<1>5. CASE Command
  <2>1. CASE PublishOpen
    BY <2>1 DEF PublishOpen, Quiet
  <2>2. CASE OpenCreated
    BY <2>2 DEF OpenCreated, Quiet
  <2> QED
    BY <1>1, <1>2, <1>3, <1>5, <2>1, <2>2 DEF Command, Touches
<1>6. CASE Profile
  BY <1>2, <1>3, <1>6 DEF Profile, Touches
<1>7. CASE Delivery
  <2>1. ASSUME NEW t \in Tasks, CommitClose(t) \/ DeadlinePasses(t) PROVE Quiet
    BY <2>1 DEF CommitClose, DeadlinePasses, Quiet
  <2> QED
    BY <1>7, <2>1 DEF Delivery, Window, Touches
<1>8. ASSUME NEW t \in Tasks,
             \/ Open(t) \/ Rename(t) \/ Delete(t) \/ Create(t) \/ ProvideProfile(t)
             \/ OtherHost(t)
      PROVE  Quiet
  BY <1>8 DEF Open, Rename, Delete, Create, ProvideProfile, Begin, OtherHost, Quiet
<1>9. CASE \E x \in Tabs : PromiseBroken(x) \/ Closes(x, "user") \/ Closes(x, "other")
  BY <1>9 DEF Touches
<1> QED
  BY <1>1, <1>2, <1>4, <1>5, <1>6, <1>7, <1>8, <1>9 DEF Next, Touches

\* A tab that is made is a fresh one, and none that was mapped.
LEMMA NewTabIsFresh ==
  ASSUME IInv, NEW x \in NewTabs
  PROVE  /\ x \in Tabs /\ Reusable(x) /\ x \notin suppressed
         /\ \A t \in Tasks : mapped[t] # x
<1>1. x \in Tabs /\ Reusable(x)
  BY DEF NewTabs
<1>2. Life(x)
  BY <1>1 DEF IInv, TabInv
<1>3. x \notin suppressed
  BY <1>1, <1>2 DEF Life, Reusable
<1>4. ASSUME NEW t \in Tasks, mapped[t] = x PROVE FALSE
  <2>1. mapped[t] # None
    BY <1>1, <1>4, Names
  <2>2. InWindow(x)
    BY <1>4, <2>1 DEF IInv, NoDeadTabMapped
  <2> QED
    BY <1>1, <2>2 DEF Reusable, InWindow
<1> QED
  BY <1>1, <1>3, <1>4

\* What Reconcile disposes are tabs: the duplicates of a task, which are not
\* the tab it keeps for it, and tabs that it does not keep mapped.
LEMMA GoneAreTabs ==
  ASSUME NEW keep \in [Tasks -> Tabs \cup {None}]
  PROVE  /\ Gone(keep) \subseteq Tabs
         /\ \A x \in Gone(keep) :
              \/ \E t \in Tasks : x \in Candidates(t) \ {keep[t]}
              \/ \E t \in Missing(keep) : x = keep[t]
<1>1. ASSUME NEW x \in Gone(keep)
      PROVE  \/ \E t \in Tasks : x \in Candidates(t) \ {keep[t]}
             \/ \E t \in Missing(keep) : x = keep[t]
  <2>1. CASE x \in UNION {Duplicates(t, keep[t]) : t \in {u \in Tasks : Listed(u)}}
    <3>1. PICK t \in Tasks : x \in Duplicates(t, keep[t])
      BY <2>1
    <3> QED
      BY <3>1 DEF Duplicates
  <2>2. CASE x \in {keep[t] : t \in Missing(keep)}
    BY <2>2
  <2> QED
    BY <2>1, <2>2 DEF Gone
<1>2. \A t \in Tasks : Candidates(t) \subseteq Tabs
  BY DEF Candidates
<1>3. \A t \in Missing(keep) : keep[t] \in Tabs
  BY DEF Missing
<1> QED
  BY <1>1, <1>2, <1>3

----------------------------------------------------------------------------
(* Types.                                                                   *)

LEMMA WindowTypesKept ==
  ASSUME IInv, [Next]_vars
  PROVE  WindowTypes'
<1> USE DEF WindowTypes
<1> WindowTypes
  BY DEF IInv
<1>1. CASE Quiet
  BY <1>1 DEF Quiet
<1>2. ASSUME NEW xs, Dispose(xs)
      PROVE  /\ tab' \in [Tabs -> {"free", "promised", "live", "dying", "gone"}]
             /\ of' \in [Tabs -> Tasks \cup {None}]
             /\ why' \in [Tabs -> {"", "user", "other"}]
  BY <1>2 DEF Dispose
<1>3. ASSUME NEW x \in NewTabs, NEW t \in Tasks, NEW state \in {"promised", "live"},
             NewTab(x, t, state)
      PROVE  /\ tab' \in [Tabs -> {"free", "promised", "live", "dying", "gone"}]
             /\ of' \in [Tabs -> Tasks \cup {None}]
             /\ why' \in [Tabs -> {"", "user", "other"}]
             /\ tomb' \in [Tabs -> {"", "ours", "claimed", "unclaimed"}]
             /\ told' \in [Tabs -> Nat]
             /\ suppressed' \in SUBSET Tabs
  BY <1>3 DEF NewTab, NewTabs
<1>4. ASSUME NEW xs, PublishClose(xs)
      PROVE  told' \in [Tabs -> Nat]
  <2>1. told' = [x \in Tabs |-> IF x \in {y \in xs : why[y] = "user"}
                                  THEN told[x] + 1 ELSE told[x]]
    BY <1>4 DEF PublishClose
  <2>2. ASSUME NEW x \in Tabs PROVE told[x] + 1 \in Nat /\ told[x] \in Nat
    <3>1. told[x] \in Nat
      OBVIOUS
    <3> QED
      BY ONLY <3>1
  <2> QED
    BY <2>1, <2>2
<1>5. CASE Reconcile
  <2>1. PICK keep \in [Tasks -> Tabs \cup {None}] :
          /\ mapped' = [t \in Tasks |-> IF t \in Missing(keep) THEN None ELSE keep[t]]
          /\ suppressed' = suppressed \cup Gone(keep)
          /\ Dispose(Gone(keep))
    BY <1>5 DEF Reconcile
  <2>2. UNCHANGED <<tracking, tomb, told>>
    BY <1>5 DEF Reconcile
  <2>3. Gone(keep) \subseteq Tabs
    BY GoneAreTabs
  <2> QED
    BY <1>2, <2>1, <2>2, <2>3
<1>6. CASE DisposeLocal
  <2>1. task["command"] \in Tasks
    BY <1>6 DEF DisposeLocal, IInv, ThreadTypes, Threads, Busy, Labels
  <2> QED
    BY <1>2, <1>6, <2>1 DEF DisposeLocal
<1>7. CASE HandOutProfile
  <2>1. task["profile"] \in Tasks
    BY <1>7 DEF HandOutProfile, IInv, ThreadTypes, Threads, Busy, Labels
  <2> QED
    BY <1>3, <1>7, <2>1 DEF HandOutProfile
<1>8. CASE DisposeController
  BY <1>8 DEF DisposeController, NoTabs
<1>9. ASSUME NEW th \in Threads, step[th] = "show" PROVE task[th] \in Tasks
  BY <1>9 DEF IInv, ThreadTypes, Busy, Labels
<1>10. ASSUME NEW th \in Threads, Adopt(th) PROVE WindowTypes'
  BY <1>9, <1>10 DEF Adopt, Candidates
<1>11. ASSUME NEW th \in Threads, CreateTerminal(th) PROVE WindowTypes'
  <2>1. task[th] \in Tasks
    BY <1>9, <1>11 DEF CreateTerminal
  <2>2. PICK x \in NewTabs :
          /\ NewTab(x, task[th], "live")
          /\ mapped' = [mapped EXCEPT ![task[th]] = x]
          /\ tracking' = [tracking EXCEPT ![x] = "asked"]
    BY <1>11 DEF CreateTerminal
  <2>3. x \in Tabs
    BY DEF NewTabs
  <2> QED
    BY <1>3, <2>1, <2>2, <2>3
<1>12. ASSUME NEW x \in Tabs, Track(x) PROVE WindowTypes'
  <2>1. of[x] \in Tasks
    BY <1>12 DEF IInv, TabInv, Followed, Track
  <2>2. told' \in [Tabs -> Nat] /\ tomb' \in [Tabs -> {"", "ours", "claimed", "unclaimed"}]
    BY <1>4, <1>12 DEF Track
  <2>3. \/ UNCHANGED <<vscode, suppressed>>
        \/ /\ suppressed' = suppressed \cup ({x} \ {mapped[of[x]]})
           /\ Dispose({x} \ {mapped[of[x]]})
    BY <1>12 DEF Track
  <2>4. /\ tab' \in [Tabs -> {"free", "promised", "live", "dying", "gone"}]
        /\ of' \in [Tabs -> Tasks \cup {None}]
        /\ why' \in [Tabs -> {"", "user", "other"}]
        /\ suppressed' \in SUBSET Tabs
    BY <1>2, <2>3
  <2>5. mapped' \in [Tasks -> Tabs \cup {None}] /\ tracking' \in [Tabs -> {"", "asked", "found", "done"}]
    BY <1>12, <2>1 DEF Track
  <2> QED
    BY <2>2, <2>4, <2>5
<1>13. ASSUME NEW x \in Tabs, CloseEvent(x) PROVE WindowTypes'
  <2>1. told' \in [Tabs -> Nat]
    BY <1>4, <1>13 DEF CloseEvent
  <2> QED
    BY <1>13, <2>1 DEF CloseEvent, Tombstone
<1>14. ASSUME NEW x \in Tabs, Exits(x) PROVE WindowTypes'
  BY <1>2, <1>14 DEF Exits
<1>15. ASSUME NEW x \in Tabs,
              OpenPromised(x) \/ PromiseBroken(x) \/ TrackRead(x)
       PROVE  WindowTypes'
  BY <1>15 DEF OpenPromised, PromiseBroken, TrackRead
<1>16. ASSUME NEW x \in Tabs, NEW reason \in {"user", "other"}, Closes(x, reason)
       PROVE  WindowTypes'
  BY <1>16 DEF Closes
<1> QED
  BY <1>1, <1>5, <1>6, <1>7, <1>8, <1>10, <1>11, <1>12, <1>13, <1>14, <1>15,
     <1>16, StepCases DEF Touches

LEMMA RegistryTypesKept ==
  ASSUME IInv, [Next]_vars
  PROVE  RegistryTypes' /\ ThreadTypes'
<1> USE DEF RegistryTypes, ThreadTypes, Labels, Busy, GoTo, End
<1> RegistryTypes /\ ThreadTypes
  BY DEF IInv
<1> "sync" \in Threads /\ "command" \in Threads /\ "profile" \in Threads
  BY DEF Threads
<1>1. CASE UNCHANGED vars
  BY <1>1 DEF vars
<1>2. ASSUME NEW th \in Threads, Opening(th)
      PROVE  RegistryTypes' /\ ThreadTypes'
  <2>1. CASE ReadStatus(th)
    BY <2>1 DEF ReadStatus, Shown
  <2>2. CASE NothingToShow(th)
    BY <2>2 DEF NothingToShow, Shown
  <2>3. CASE Adopt(th)
    BY <2>3 DEF Adopt, Shown
  <2>4. CASE CreateTerminal(th)
    BY <2>4 DEF CreateTerminal, Shown
  <2> QED
    BY <1>2, <2>1, <2>2, <2>3, <2>4 DEF Opening
<1>3. ASSUME NEW th \in Threads, Abandon(th)
      PROVE  RegistryTypes' /\ ThreadTypes'
  BY <1>3 DEF Abandon, Old
<1>4. ASSUME NEW th \in Threads, Commit(th)
      PROVE  RegistryTypes' /\ ThreadTypes'
  BY <1>4 DEF Commit
<1>5. CASE Sync
  <2>1. CASE ReadList
    BY <2>1 DEF ReadList
  <2>2. CASE Reconcile
    BY <2>2 DEF Reconcile, Kept, Old
  <2>3. CASE OpenNext
    BY <2>3 DEF OpenNext
  <2> QED
    BY <1>5, <2>1, <2>2, <2>3 DEF Sync
<1>6. CASE Command
  <2>1. CASE PublishOpen
    BY <2>1 DEF PublishOpen
  <2>2. CASE DisposeLocal
    BY <2>2 DEF DisposeLocal
  <2>3. CASE OpenCreated
    BY <2>3 DEF OpenCreated
  <2> QED
    BY <1>2, <1>3, <1>4, <1>6, <2>1, <2>2, <2>3 DEF Command
<1>7. CASE Profile
  <2>1. CASE HandOutProfile
    BY <2>1 DEF HandOutProfile
  <2> QED
    BY <1>3, <1>4, <1>7, <2>1 DEF Profile
<1>8. ASSUME NEW t \in Tasks,
             \/ Open(t) \/ Rename(t) \/ Delete(t) \/ Create(t) \/ ProvideProfile(t)
             \/ OtherHost(t)
      PROVE  RegistryTypes' /\ ThreadTypes'
  <2>1. ASSUME NEW th \in Threads, NEW label \in Labels, Begin(th, t, label)
        PROVE  RegistryTypes' /\ ThreadTypes'
    BY <2>1 DEF Begin
  <2>2. CASE OtherHost(t)
    BY <2>2 DEF OtherHost
  <2> QED
    BY <1>8, <2>1, <2>2 DEF Open, Rename, Delete, Create, ProvideProfile
<1>9. CASE DisposeController
  BY <1>9 DEF DisposeController
<1>10. ASSUME NEW x \in Tabs, Window(x)
       PROVE  RegistryTypes' /\ ThreadTypes'
  <2>1. CASE OpenPromised(x)
    BY <2>1 DEF OpenPromised
  <2>2. CASE TrackRead(x)
    BY <2>2 DEF TrackRead
  <2>3. CASE Track(x)
    <3>1. of[x] \in Tasks
      BY <2>3 DEF Track, IInv, TabInv, Followed
    <3>2. closing' \in SUBSET Tasks
      <4>1. CASE tomb[x] = "unclaimed"
        <5>1. closing' = closing \cup {of[y] : y \in {z \in {x} : why[z] = "user"}}
          BY <2>3, <4>1 DEF Track, PublishClose
        <5> QED
          BY <3>1, <5>1
      <4>2. CASE tomb[x] # "unclaimed"
        BY <2>3, <4>2 DEF Track
      <4> QED
        BY <4>1, <4>2
    <3>3. UNCHANGED <<row, list, todo, user, remote, disposed, step, task>>
      BY <2>3 DEF Track
    <3>4. pending' \in SUBSET Tasks /\ late' \in SUBSET pending'
      BY <2>3 DEF Track, Consume
    <3> QED
      BY <3>2, <3>3, <3>4
  <2>4. CASE CloseEvent(x)
    <3>1. of[x] \in Tasks
      BY <2>4 DEF CloseEvent, IInv, TabInv, Life
    <3>2. \E xs : /\ xs \subseteq {x}
                  /\ closing' = closing \cup {of[y] : y \in {z \in xs : why[z] = "user"}}
      BY <2>4 DEF CloseEvent, PublishClose
    <3> QED
      BY <2>4, <3>1, <3>2 DEF CloseEvent
  <2>5. CASE Exits(x)
    BY <2>5 DEF Exits
  <2> QED
    BY <1>10, <2>1, <2>2, <2>3, <2>4, <2>5 DEF Window
<1>11. CASE Delivery
  <2>1. ASSUME NEW t \in Tasks, CommitClose(t) \/ DeadlinePasses(t)
        PROVE  RegistryTypes' /\ ThreadTypes'
    BY <2>1 DEF CommitClose, DeadlinePasses
  <2> QED
    BY <1>10, <1>11, <2>1 DEF Delivery
<1>12. ASSUME NEW x \in Tabs,
              PromiseBroken(x) \/ Closes(x, "user") \/ Closes(x, "other")
       PROVE  RegistryTypes' /\ ThreadTypes'
  BY <1>12 DEF PromiseBroken, Closes
<1> QED
  BY <1>1, <1>2, <1>3, <1>5, <1>6, <1>7, <1>8, <1>9, <1>11, <1>12 DEF Next

----------------------------------------------------------------------------
(* The life of the tabs.                                                    *)

Alive == TabInv /\ NoDeadTabMapped

\* The extension disposes the tabs xs and unmaps them; a task without a tab
\* may get a candidate, and the end of a trackTerminal is one of the ways to
\* be disposed.
LEMMA Disposing ==
  ASSUME IInv, WindowTypes',
         NEW xs \in SUBSET Tabs, \A x \in xs : InWindow(x),
         Dispose(xs), suppressed' = suppressed \cup xs, UNCHANGED <<tomb, told>>,
         \A t \in Tasks : mapped'[t] # None =>
           /\ mapped'[t] \in Candidates(t) \cup {mapped[t]}
           /\ mapped'[t] \notin xs,
         \A t \in Tasks : mapped[t] # None /\ mapped[t] \notin xs =>
           mapped'[t] = mapped[t],
         \A x \in Tabs :
           \/ tracking'[x] = tracking[x]
           \/ /\ tracking[x] = "found" /\ tracking'[x] = "done" /\ ~IsClosed(x)
              /\ \/ x \in suppressed'
                 \/ mapped'[of[x]] = x
  PROVE  Alive'
<1>0. mapped' \in [Tasks -> Tabs \cup {None}]
  BY DEF WindowTypes
<1>1. ASSUME NEW x \in Tabs PROVE Life(x)'
  <2>1. Life(x)
    BY DEF IInv, TabInv
  <2>2. /\ tab'[x] = IF x \in xs /\ tab[x] = "live" THEN "dying" ELSE tab[x]
        /\ why'[x] = IF x \in xs /\ tab[x] = "live" THEN "other" ELSE why[x]
        /\ of'[x] = of[x] /\ tomb'[x] = tomb[x] /\ told'[x] = told[x]
    BY DEF Dispose
  <2>3. x \in suppressed' => x \in suppressed \/ x \in xs
    OBVIOUS
  <2>4. x \in xs => tab[x] \in {"live", "dying"}
    BY DEF InWindow
  <2> QED
    BY <2>1, <2>2, <2>3, <2>4 DEF Life
<1>2. ASSUME NEW x \in Tabs PROVE Followed(x)'
  <2>1. Followed(x) /\ Life(x)
    BY DEF IInv, TabInv
  <2>2. of'[x] = of[x] /\ tomb'[x] = tomb[x] /\ (InWindow(x)' <=> InWindow(x))
    BY DEF Dispose, InWindow
  <2>3. x \in suppressed => x \in suppressed'
    OBVIOUS
  <2>4. CASE tracking'[x] = tracking[x]
    <3>1. ASSUME mapped[of[x]] = x, of[x] \in Tasks
          PROVE  x \in suppressed' \/ mapped'[of[x]] = x
      <4>1. mapped[of[x]] # None
        BY <3>1, Names
      <4>2. x \notin xs => mapped'[of[x]] = mapped[of[x]]
        BY <3>1, <4>1
      <4> QED
        BY <3>1, <4>2
    <3> QED
      BY <2>1, <2>2, <2>3, <2>4, <3>1 DEF Followed
  <2>5. CASE /\ tracking[x] = "found" /\ tracking'[x] = "done" /\ ~IsClosed(x)
             /\ \/ x \in suppressed'
                \/ mapped'[of[x]] = x
    BY <2>1, <2>2, <2>5 DEF Followed, IsClosed
  <2> QED
    BY <2>4, <2>5
<1>3. ASSUME NEW t \in Tasks, mapped'[t] # None
      PROVE  /\ tab'[mapped'[t]] \in {"live", "dying"}
             /\ mapped'[t] \in Tabs /\ mapped'[t] \notin suppressed' /\ tomb'[mapped'[t]] = ""
             /\ of'[mapped'[t]] = t
  <2>1. mapped'[t] \in Tabs
    BY <1>0, <1>3
  <2>2. InWindow(mapped'[t]) /\ ~IsClosed(mapped'[t]) /\ of[mapped'[t]] = t
    BY <1>3 DEF IInv, NoDeadTabMapped, Candidates
  <2>3. mapped'[t] \notin xs
    BY <1>3
  <2> QED
    BY <2>1, <2>2, <2>3 DEF Dispose, InWindow, IsClosed
<1>4. NoDeadTabMapped'
  BY <1>3 DEF NoDeadTabMapped, IsClosed, InWindow
<1> QED
  BY <1>1, <1>2, <1>4 DEF Alive, TabInv

\* A step that changes only tab x, which is not mapped before or after.
LEMMA OneTab ==
  ASSUME IInv, WindowTypes', NEW x \in Tabs,
         \A y \in Tabs \ {x} :
           /\ tab'[y] = tab[y] /\ of'[y] = of[y] /\ why'[y] = why[y]
           /\ tracking'[y] = tracking[y] /\ tomb'[y] = tomb[y] /\ told'[y] = told[y]
           /\ (y \in suppressed' <=> y \in suppressed),
         \A t \in Tasks :
           \/ mapped'[t] = mapped[t]
           \/ /\ mapped[t] = x
              /\ mapped'[t] = None
           \/ /\ mapped[t] = None
              /\ mapped'[t] = x,
         \A t \in Tasks : mapped'[t] = x =>
           tab'[x] \in {"live", "dying"} /\ of'[x] = t /\ x \notin suppressed' /\ tomb'[x] = "",
         Life(x)', Followed(x)'
  PROVE  Alive'
<1>0. mapped' \in [Tasks -> Tabs \cup {None}]
  BY DEF WindowTypes
<1>1. ASSUME NEW y \in Tabs PROVE Life(y)' /\ Followed(y)'
  <2>1. CASE y = x
    BY <2>1
  <2>2. CASE y # x
    <3>1. Life(y) /\ Followed(y)
      BY DEF IInv, TabInv
    <3>2. /\ tab'[y] = tab[y] /\ of'[y] = of[y] /\ why'[y] = why[y]
          /\ tracking'[y] = tracking[y] /\ tomb'[y] = tomb[y] /\ told'[y] = told[y]
          /\ (y \in suppressed' <=> y \in suppressed)
      BY <2>2
    <3>5. Life(y)'
      BY <3>1, <3>2 DEF Life
    <3>3. ASSUME of[y] \in Tasks, mapped[of[y]] = y PROVE mapped'[of[y]] = y
      <4>1. mapped[of[y]] # None /\ mapped[of[y]] # x
        BY ONLY <2>2, <3>3, Names, y \in Tabs
      <4> QED
        BY <3>3, <4>1
    <3>4. Followed(y)'
      BY <3>1, <3>2, <3>3 DEF Followed, InWindow
    <3> QED
      BY <3>4, <3>5
  <2> QED
    BY <2>1, <2>2
<1>2. ASSUME NEW t \in Tasks, mapped'[t] # None
      PROVE  /\ tab'[mapped'[t]] \in {"live", "dying"}
             /\ mapped'[t] \notin suppressed' /\ tomb'[mapped'[t]] = ""
             /\ of'[mapped'[t]] = t
  <2>1. CASE mapped'[t] = x
    BY <2>1
  <2>2. CASE mapped'[t] # x
    <3>1. mapped'[t] = mapped[t]
      BY <1>2, <2>2
    <3>3. mapped'[t] \in Tabs \ {x}
      BY ONLY <1>0, <1>2, <2>2, t \in Tasks
    <3>2. InWindow(mapped[t]) /\ ~IsClosed(mapped[t]) /\ of[mapped[t]] = t
      BY <1>2, <3>1 DEF IInv, NoDeadTabMapped
    <3> QED
      BY <3>1, <3>2, <3>3 DEF InWindow, IsClosed
  <2> QED
    BY <2>1, <2>2
<1>3. NoDeadTabMapped'
  BY <1>2 DEF NoDeadTabMapped, IsClosed, InWindow
<1> QED
  BY <1>1, <1>3 DEF Alive, TabInv

LEMMA ReconcileAlive ==
  ASSUME IInv, WindowTypes', Reconcile
  PROVE  Alive'
<1>1. PICK keep \in [Tasks -> Tabs \cup {None}] :
        /\ \A t \in Tasks :
             IF mapped[t] # None \/ ~Listed(t) \/ Candidates(t) = {}
               THEN keep[t] = mapped[t]
               ELSE keep[t] \in Candidates(t)
        /\ mapped' = [t \in Tasks |-> IF t \in Missing(keep) THEN None ELSE keep[t]]
        /\ suppressed' = suppressed \cup Gone(keep)
        /\ Dispose(Gone(keep))
  BY DEF Reconcile
<1>2. \A t \in Tasks : keep[t] \in Candidates(t) \cup {mapped[t]}
  BY <1>1
<1>3. \A t \in Tasks : mapped[t] # None => keep[t] = mapped[t]
  BY <1>1
<1>4. \A t \in Tasks : keep[t] # None =>
        InWindow(keep[t]) /\ ~IsClosed(keep[t]) /\ of[keep[t]] = t
  BY <1>2 DEF IInv, NoDeadTabMapped, Candidates
<1>5. ASSUME NEW x \in Gone(keep) PROVE InWindow(x)
  <2>1. CASE \E t \in Tasks : x \in Candidates(t) \ {keep[t]}
    BY <2>1 DEF Candidates
  <2>2. CASE \E t \in Missing(keep) : x = keep[t]
    BY <1>4, <2>2 DEF Missing
  <2> QED
    BY <1>5, <2>1, <2>2, GoneAreTabs
<1>6. ASSUME NEW t \in Tasks, keep[t] # None, t \notin Missing(keep)
      PROVE  keep[t] \notin Gone(keep)
  <2>1. \A u \in Tasks : keep[t] \notin Candidates(u) \ {keep[u]}
    BY <1>4, <1>6 DEF Candidates
  <2>2. \A u \in Missing(keep) : keep[t] # keep[u]
    BY <1>4, <1>6 DEF Missing
  <2> QED
    BY <2>1, <2>2, GoneAreTabs
<1>7. \A t \in Tasks : mapped'[t] # None =>
        /\ mapped'[t] \in Candidates(t) \cup {mapped[t]}
        /\ mapped'[t] \notin Gone(keep)
  BY <1>1, <1>2, <1>6
<1>8. ASSUME NEW t \in Tasks, mapped[t] # None, mapped[t] \notin Gone(keep)
      PROVE  mapped'[t] = mapped[t]
  <2>1. keep[t] = mapped[t]
    BY <1>3, <1>8
  <2>2. t \notin Missing(keep)
    BY <1>8, <2>1 DEF Gone
  <2> QED
    BY <1>1, <2>1, <2>2
<1>9. UNCHANGED <<tracking, tomb, told>>
  BY DEF Reconcile
<1>10. Gone(keep) \in SUBSET Tabs
  BY GoneAreTabs
<1> QED
  BY <1>1, <1>5, <1>7, <1>8, <1>9, <1>10, Disposing

LEMMA DisposeLocalAlive ==
  ASSUME IInv, WindowTypes', DisposeLocal
  PROVE  Alive'
<1> DEFINE t == task["command"]
           xs == {mapped[t]} \ {None}
<1>1. t \in Tasks
  BY DEF DisposeLocal, IInv, ThreadTypes, Threads, Busy, Labels
<1>2. mapped \in [Tasks -> Tabs \cup {None}]
  BY DEF IInv, WindowTypes
<1>3. /\ suppressed' = suppressed \cup xs
      /\ mapped' = [mapped EXCEPT ![t] = None]
      /\ Dispose({mapped[t]})
      /\ UNCHANGED <<tracking, tomb, told>>
  BY DEF DisposeLocal
<1>4. xs \in SUBSET Tabs
  BY <1>1, <1>2
<1>5. Dispose(xs)
  <2>1. ASSUME NEW x \in Tabs PROVE x \in xs <=> x \in {mapped[t]}
    BY Names
  <2> QED
    BY <1>3, <2>1 DEF Dispose
<1>6. ASSUME NEW x \in xs PROVE InWindow(x)
  BY <1>1 DEF IInv, NoDeadTabMapped
<1>7. ASSUME NEW u \in Tasks, mapped'[u] # None
      PROVE  mapped'[u] = mapped[u] /\ mapped'[u] \notin xs
  <2>1. u # t /\ mapped'[u] = mapped[u]
    BY <1>1, <1>2, <1>3, <1>7
  <2>2. mapped[u] # mapped[t]
    BY <1>1, <1>7, <2>1 DEF IInv, NoDeadTabMapped
  <2> QED
    BY <2>1, <2>2
<1>8. ASSUME NEW u \in Tasks, mapped[u] # None, mapped[u] \notin xs
      PROVE  mapped'[u] = mapped[u]
  BY <1>2, <1>3, <1>8
<1> HIDE DEF xs
<1> QED
  BY <1>3, <1>4, <1>5, <1>6, <1>7, <1>8, Disposing

\* A tab is made, for VS Code to open (promised) or at once (live).
LEMMA NewTabAlive ==
  ASSUME IInv, WindowTypes', NEW x \in NewTabs, NEW t \in Tasks,
         NEW state \in {"promised", "live"}, NewTab(x, t, state),
         \/ /\ state = "promised"
            /\ UNCHANGED <<mapped, tracking>>
         \/ /\ state = "live" /\ mapped[t] = None
            /\ mapped' = [mapped EXCEPT ![t] = x]
            /\ tracking' = [tracking EXCEPT ![x] = "asked"]
  PROVE  Alive'
<1>1. /\ tab \in [Tabs -> {"free", "promised", "live", "dying", "gone"}]
      /\ of \in [Tabs -> Tasks \cup {None}]
      /\ why \in [Tabs -> {"", "user", "other"}]
      /\ tracking \in [Tabs -> {"", "asked", "found", "done"}]
      /\ mapped \in [Tasks -> Tabs \cup {None}]
      /\ tomb \in [Tabs -> {"", "ours", "claimed", "unclaimed"}]
      /\ told \in [Tabs -> Nat]
  BY DEF IInv, WindowTypes
<1>2. /\ x \in Tabs /\ tracking[x] \in {"", "done"}
      /\ \A u \in Tasks : mapped[u] # x
  BY NewTabIsFresh DEF Reusable
<1>3. /\ tab'[x] = state /\ of'[x] = t /\ why'[x] = "" /\ tomb'[x] = ""
      /\ told'[x] = 0 /\ x \notin suppressed'
  BY <1>1, <1>2 DEF NewTab
<1>4. \/ /\ state = "promised"
         /\ tracking'[x] \in {"", "done"}
      \/ /\ state = "live"
         /\ tracking'[x] = "asked"
  BY <1>1, <1>2
<1>5. Life(x)'
  BY <1>3 DEF Life
<1>6. Followed(x)'
  BY <1>3, <1>4 DEF Followed, InWindow
<1>7. ASSUME NEW y \in Tabs \ {x}
      PROVE  /\ tab'[y] = tab[y] /\ of'[y] = of[y] /\ why'[y] = why[y]
             /\ tracking'[y] = tracking[y] /\ tomb'[y] = tomb[y] /\ told'[y] = told[y]
             /\ (y \in suppressed' <=> y \in suppressed)
  <2>1. tracking'[y] = tracking[y]
    BY <1>1, <1>7
  <2>2. (y \in suppressed' <=> y \in suppressed)
    BY <1>7 DEF NewTab
  <2> QED
    BY <1>1, <1>7, <2>1, <2>2 DEF NewTab
<1>8. ASSUME NEW u \in Tasks
      PROVE  \/ mapped'[u] = mapped[u]
             \/ /\ mapped[u] = None
                /\ mapped'[u] = x
  BY <1>1
<1>9. ASSUME NEW u \in Tasks, mapped'[u] = x
      PROVE  /\ tab'[x] \in {"live", "dying"} /\ of'[x] = u
             /\ x \notin suppressed' /\ tomb'[x] = ""
  <2>1. u = t /\ state = "live"
    BY <1>1, <1>2, <1>9
  <2> QED
    BY <1>3, <2>1
<1> QED
  BY <1>2, <1>5, <1>6, <1>7, <1>8, <1>9, OneTab

LEMMA AdoptAlive ==
  ASSUME IInv, WindowTypes', NEW th \in Threads, Adopt(th)
  PROVE  Alive'
<1>1. task[th] \in Tasks
  BY DEF Adopt, IInv, ThreadTypes, Busy, Labels
<1>2. PICK x \in Candidates(task[th]) : mapped' = [mapped EXCEPT ![task[th]] = x]
  BY DEF Adopt
<1>3. mapped[task[th]] = None
  BY DEF Adopt
<1>4. UNCHANGED <<tab, of, why, tracking, tomb, told, suppressed>>
  BY DEF Adopt
<1>5. mapped \in [Tasks -> Tabs \cup {None}]
  BY DEF IInv, WindowTypes
<1>6. x \in Tabs /\ InWindow(x) /\ of[x] = task[th] /\ ~IsClosed(x)
  BY DEF Candidates
<1>7. Life(x)' /\ Followed(x)'
  <2>1. Life(x) /\ Followed(x)
    BY <1>6 DEF IInv, TabInv
  <2>2. Life(x)'
    BY <1>4, <2>1 DEF Life
  <2>3. mapped'[of[x]] = x
    BY <1>1, <1>2, <1>5, <1>6
  <2> QED
    BY <1>4, <2>1, <2>2, <2>3 DEF Followed, InWindow
<1>8. ASSUME NEW y \in Tabs \ {x}
      PROVE  /\ tab'[y] = tab[y] /\ of'[y] = of[y] /\ why'[y] = why[y]
             /\ tracking'[y] = tracking[y] /\ tomb'[y] = tomb[y] /\ told'[y] = told[y]
             /\ (y \in suppressed' <=> y \in suppressed)
  BY <1>4
<1>9. ASSUME NEW u \in Tasks
      PROVE  \/ mapped'[u] = mapped[u]
             \/ /\ mapped[u] = None
                /\ mapped'[u] = x
  BY <1>2, <1>3, <1>5
<1>10. ASSUME NEW u \in Tasks, mapped'[u] = x
       PROVE  /\ tab'[x] \in {"live", "dying"} /\ of'[x] = u
              /\ x \notin suppressed' /\ tomb'[x] = ""
  <2>1. u = task[th]
    <3>1. CASE u # task[th]
      <4>1. mapped[u] = x /\ x # None
        BY <1>2, <1>5, <1>6, <1>10, <3>1, Names
      <4> QED
        BY <1>6, <4>1 DEF IInv, NoDeadTabMapped
    <3> QED
      BY <3>1
  <2> QED
    BY <1>4, <1>6, <2>1 DEF InWindow, IsClosed
<1> QED
  BY <1>6, <1>7, <1>8, <1>9, <1>10, OneTab

\* trackTerminal reads, tracks, or the tab closes: only tab x changes.
LEMMA TrackAlive ==
  ASSUME IInv, WindowTypes', NEW x \in Tabs, Track(x)
  PROVE  Alive'
<1> DEFINE t == of[x]
           free == ~IsClosed(x) /\ mapped[t] = None
           extra == {x} \ {mapped[t]}
<1>1. /\ tracking \in [Tabs -> {"", "asked", "found", "done"}]
      /\ mapped \in [Tasks -> Tabs \cup {None}]
      /\ tomb \in [Tabs -> {"", "ours", "claimed", "unclaimed"}]
      /\ told \in [Tabs -> Nat]
  BY DEF IInv, WindowTypes
<1>2. Life(x) /\ Followed(x)
  BY DEF IInv, TabInv
<1>3. /\ tracking[x] = "found"
      /\ tracking' = [tracking EXCEPT ![x] = "done"]
  BY DEF Track
<1>4. InWindow(x) \/ tomb[x] # ""
  BY <1>2, <1>3 DEF Followed
<1>5. t \in Tasks
  BY <1>2, <1>3 DEF Followed
<1>6. tracking'[x] = "done" /\ \A y \in Tabs \ {x} : tracking'[y] = tracking[y]
  BY <1>1, <1>3
<1>7. CASE ~IsClosed(x)
  <2>1. tomb[x] = "" /\ x \notin suppressed /\ InWindow(x)
    BY <1>4, <1>7 DEF IsClosed
  <2>2. UNCHANGED <<tomb, told>>
    BY <2>1 DEF Track
  <2>3. CASE mapped[t] = None
    <3>1. mapped' = [mapped EXCEPT ![t] = x] /\ UNCHANGED <<tab, of, why, suppressed>>
      BY <1>7, <2>3 DEF Track
    <3>2. Life(x)'
      BY <1>2, <2>2, <3>1 DEF Life
    <3>3. Followed(x)'
      BY <1>1, <1>5, <1>6, <2>1, <2>2, <3>1 DEF Followed
    <3>4. ASSUME NEW u \in Tasks
          PROVE  \/ mapped'[u] = mapped[u]
                 \/ /\ mapped[u] = None
                    /\ mapped'[u] = x
      BY <1>1, <2>3, <3>1
    <3>5. ASSUME NEW u \in Tasks, mapped'[u] = x
          PROVE  /\ tab'[x] \in {"live", "dying"} /\ of'[x] = u
                 /\ x \notin suppressed' /\ tomb'[x] = ""
      <4>1. ASSUME u # t PROVE FALSE
        <5>1. mapped[u] = x /\ x # None
          BY <1>1, <3>1, <3>5, <4>1, Names
        <5> QED
          BY <4>1, <5>1 DEF IInv, NoDeadTabMapped
      <4> QED
        BY <2>1, <2>2, <3>1, <4>1 DEF InWindow
    <3>6. ASSUME NEW y \in Tabs \ {x}
          PROVE  /\ tab'[y] = tab[y] /\ of'[y] = of[y] /\ why'[y] = why[y]
                 /\ tracking'[y] = tracking[y] /\ tomb'[y] = tomb[y] /\ told'[y] = told[y]
                 /\ (y \in suppressed' <=> y \in suppressed)
      BY <1>6, <2>2, <3>1
    <3> QED
      BY <3>2, <3>3, <3>4, <3>5, <3>6, OneTab
  <2>4. CASE mapped[t] # None
    <3>1. mapped' = mapped /\ suppressed' = suppressed \cup extra /\ Dispose(extra)
      BY <1>7, <2>4 DEF Track
    <3>2. extra \in SUBSET Tabs /\ \A y \in extra : InWindow(y)
      BY <2>1
    <3>3. ASSUME NEW u \in Tasks, mapped'[u] # None
          PROVE  mapped'[u] = mapped[u] /\ mapped'[u] \notin extra
      <4>1. ASSUME mapped[u] = x PROVE mapped[t] = x
        BY <3>1, <3>3, <4>1 DEF IInv, NoDeadTabMapped
      <4> QED
        BY <3>1, <4>1
    <3>4. ASSUME NEW y \in Tabs
          PROVE  \/ tracking'[y] = tracking[y]
                 \/ /\ tracking[y] = "found" /\ tracking'[y] = "done" /\ ~IsClosed(y)
                    /\ \/ y \in suppressed'
                       \/ mapped'[of[y]] = y
      <4>1. CASE y = x
        <5>1. x \in suppressed' \/ mapped'[of[x]] = x
          BY <3>1
        <5> QED
          BY <1>3, <1>6, <1>7, <4>1, <5>1
      <4>2. CASE y # x
        BY <1>6, <4>2
      <4> QED
        BY <4>1, <4>2
    <3> HIDE DEF extra
    <3> QED
      BY <2>2, <3>1, <3>2, <3>3, <3>4, Disposing
  <2> QED
    BY <2>3, <2>4
<1>8. CASE IsClosed(x)
  <2>1. UNCHANGED <<tab, of, why, suppressed, mapped>>
    BY <1>8 DEF Track
  <2>2. Life(x)' /\ Followed(x)'
    <3>1. CASE tomb[x] = "unclaimed"
      <4>1. tab[x] = "gone" /\ told[x] = 0 /\ why[x] # ""
        BY <1>2, <3>1 DEF Life
      <4>2. tomb'[x] = "claimed"
        BY <1>1, <3>1 DEF Track
      <4>3. told'[x] = IF why[x] = "user" THEN 1 ELSE 0
        <5>1. told' = [y \in Tabs |-> IF y \in {z \in {x} : why[z] = "user"}
                                        THEN told[y] + 1 ELSE told[y]]
          BY <3>1 DEF Track, PublishClose
        <5>2. told'[x] = IF why[x] = "user" THEN told[x] + 1 ELSE told[x]
          BY <5>1
        <5>0. told[x] = 0
          BY <4>1
        <5>3. told[x] + 1 = 1
          BY ONLY <5>0
        <5> QED
          BY ONLY <4>1, <5>2, <5>3
      <4>4. x \notin suppressed
        BY <1>2, <4>1 DEF Life
      <4>5. Life(x)'
        BY <2>1, <4>1, <4>2, <4>3, <4>4 DEF Life
      <4>6. Followed(x)'
        BY <1>5, <1>6, <2>1, <4>1, <4>2 DEF Followed, InWindow
      <4> QED
        BY <4>5, <4>6
    <3>2. CASE tomb[x] # "unclaimed"
      <4>1. UNCHANGED <<tomb, told>>
        BY <3>2 DEF Track
      <4>2. Life(x)'
        BY <1>2, <2>1, <4>1 DEF Life
      <4>3. InWindow(x) => x \in suppressed
        BY <1>2, <1>8 DEF Life, IsClosed, InWindow
      <4>4. Followed(x)'
        BY <1>5, <1>6, <2>1, <3>2, <4>1, <4>3 DEF Followed, InWindow
      <4> QED
        BY <4>2, <4>4
    <3> QED
      BY <3>1, <3>2
  <2>3. ASSUME NEW y \in Tabs \ {x} PROVE tomb'[y] = tomb[y] /\ told'[y] = told[y]
    <3>1. CASE tomb[x] = "unclaimed"
      BY <1>1, <3>1 DEF Track, PublishClose
    <3>2. CASE tomb[x] # "unclaimed"
      BY <3>2 DEF Track
    <3> QED
      BY <3>1, <3>2
  <2>4. \A u \in Tasks : mapped[u] # x
    <3>1. ASSUME NEW u \in Tasks, mapped[u] = x PROVE FALSE
      BY <1>8, <3>1, Names DEF IInv, NoDeadTabMapped
    <3> QED
      BY <3>1
  <2>5. ASSUME NEW y \in Tabs \ {x}
        PROVE  /\ tab'[y] = tab[y] /\ of'[y] = of[y] /\ why'[y] = why[y]
               /\ tracking'[y] = tracking[y] /\ tomb'[y] = tomb[y] /\ told'[y] = told[y]
               /\ (y \in suppressed' <=> y \in suppressed)
    BY <1>6, <2>1, <2>3
  <2>6. \A u \in Tasks : mapped'[u] = mapped[u] /\ mapped'[u] # x
    BY <2>1, <2>4
  <2> QED
    BY <2>2, <2>5, <2>6, OneTab
<1> QED
  BY <1>7, <1>8

LEMMA CloseEventAlive ==
  ASSUME IInv, WindowTypes', NEW x \in Tabs, CloseEvent(x)
  PROVE  Alive'
<1>1. /\ tab \in [Tabs -> {"free", "promised", "live", "dying", "gone"}]
      /\ mapped \in [Tasks -> Tabs \cup {None}]
      /\ tomb \in [Tabs -> {"", "ours", "claimed", "unclaimed"}]
      /\ told \in [Tabs -> Nat]
  BY DEF IInv, WindowTypes
<1>2. Life(x) /\ Followed(x)
  BY DEF IInv, TabInv
<1> DEFINE tracked == x \notin suppressed /\ \E t \in Tasks : mapped[t] = x
<1>3. /\ tab[x] = "dying"
      /\ tab' = [tab EXCEPT ![x] = "gone"]
      /\ tomb' = [tomb EXCEPT ![x] = Tombstone(x, tracked)]
      /\ mapped' = [t \in Tasks |-> IF tracked /\ mapped[t] = x THEN None ELSE mapped[t]]
      /\ suppressed' = suppressed \ {x}
      /\ PublishClose(IF tracked THEN {x} ELSE {})
      /\ UNCHANGED <<of, why, tracking>>
  BY DEF CloseEvent
<1>4. \A t \in Tasks : mapped[t] = x => tracked
  <2>1. ASSUME NEW t \in Tasks, mapped[t] = x PROVE x \notin suppressed
    BY <2>1, Names DEF IInv, NoDeadTabMapped, IsClosed
  <2> QED
    BY <2>1
<1>5. tab'[x] = "gone" /\ tomb'[x] = Tombstone(x, tracked) /\ x \notin suppressed'
  BY <1>1, <1>3
<1>6. told'[x] = IF tracked /\ why[x] = "user" THEN 1 ELSE 0
  <2>1. told[x] = 0
    BY <1>2, <1>3 DEF Life
  <2>2. CASE tracked
    <3>1. told' = [y \in Tabs |-> IF y \in {z \in {x} : why[z] = "user"}
                                    THEN told[y] + 1 ELSE told[y]]
      BY <1>3, <2>2 DEF PublishClose
    <3> QED
      BY <2>1, <2>2, <3>1
  <2>3. CASE ~tracked
    <3>1. told' = [y \in Tabs |-> IF y \in {z \in {} : why[z] = "user"}
                                    THEN told[y] + 1 ELSE told[y]]
      BY <1>3, <2>3 DEF PublishClose
    <3> QED
      BY <2>1, <2>3, <3>1
  <2> QED
    BY <2>2, <2>3
<1>7. /\ Tombstone(x, tracked) \in {"ours", "claimed", "unclaimed"}
      /\ Tombstone(x, tracked) = "claimed" <=> tracked
      /\ Tombstone(x, tracked) = "unclaimed" => ~tracked /\ x \notin suppressed
  BY DEF Tombstone
<1> HIDE DEF tracked
<1>8. Life(x)'
  BY <1>2, <1>3, <1>5, <1>6, <1>7 DEF Life
<1>9. Followed(x)'
  <2>1. ASSUME tracking[x] = "done" PROVE Tombstone(x, tracked) # "unclaimed"
    <3>1. x \in suppressed \/ mapped[of[x]] = x
      BY <1>2, <1>3, <2>1 DEF Followed, InWindow
    <3>2. of[x] \in Tasks
      BY <1>2, <2>1 DEF Followed
    <3> QED
      BY <1>4, <1>7, <3>1, <3>2
  <2> QED
    BY <1>2, <1>3, <1>5, <1>7, <2>1 DEF Followed, InWindow
<1>10. ASSUME NEW y \in Tabs \ {x}
       PROVE  /\ tab'[y] = tab[y] /\ of'[y] = of[y] /\ why'[y] = why[y]
              /\ tracking'[y] = tracking[y] /\ tomb'[y] = tomb[y] /\ told'[y] = told[y]
              /\ (y \in suppressed' <=> y \in suppressed)
  <2>1. told'[y] = told[y]
    BY <1>1, <1>3 DEF PublishClose
  <2> QED
    BY <1>1, <1>3, <2>1
<1>11. ASSUME NEW t \in Tasks
       PROVE  /\ \/ mapped'[t] = mapped[t]
                 \/ /\ mapped[t] = x
                    /\ mapped'[t] = None
              /\ mapped'[t] # x
  BY <1>3, <1>4, Names
<1> QED
  BY <1>8, <1>9, <1>10, <1>11, OneTab

\* Tab x opens, breaks off, is found, or starts to close.
LEMMA TabAlive ==
  ASSUME IInv, WindowTypes', NEW x \in Tabs,
         \/ OpenPromised(x) \/ PromiseBroken(x) \/ TrackRead(x) \/ Exits(x)
         \/ \E reason \in {"user", "other"} : Closes(x, reason)
  PROVE  Alive'
<1>1. /\ tab \in [Tabs -> {"free", "promised", "live", "dying", "gone"}]
      /\ why \in [Tabs -> {"", "user", "other"}]
      /\ tracking \in [Tabs -> {"", "asked", "found", "done"}]
      /\ mapped \in [Tasks -> Tabs \cup {None}]
  BY DEF IInv, WindowTypes
<1>2. Life(x) /\ Followed(x)
  BY DEF IInv, TabInv
<1>3. UNCHANGED <<of, mapped, suppressed, tomb, told>>
  BY DEF OpenPromised, PromiseBroken, TrackRead, Exits, Dispose, Closes
<1>4. ASSUME NEW y \in Tabs \ {x}
      PROVE  tab'[y] = tab[y] /\ why'[y] = why[y] /\ tracking'[y] = tracking[y]
  BY <1>1 DEF OpenPromised, PromiseBroken, TrackRead, Exits, Dispose, Closes
<1>5. Life(x)' /\ Followed(x)' /\ (InWindow(x) => InWindow(x)')
  <2>1. CASE OpenPromised(x)
    <3>1. /\ tab[x] = "promised" /\ tab'[x] = "live" /\ tracking'[x] = "asked"
          /\ why'[x] = why[x]
      BY <1>1, <2>1 DEF OpenPromised
    <3> QED
      BY <1>2, <1>3, <3>1 DEF Life, Followed, InWindow
  <2>2. CASE PromiseBroken(x)
    <3>1. /\ tab[x] = "promised" /\ tab'[x] = "gone" /\ tracking'[x] = tracking[x]
          /\ why'[x] = why[x]
      BY <1>1, <2>2 DEF PromiseBroken
    <3> QED
      BY <1>2, <1>3, <3>1 DEF Life, Followed, InWindow
  <2>3. CASE TrackRead(x)
    <3>1. /\ tracking[x] = "asked" /\ tab'[x] = tab[x] /\ why'[x] = why[x]
          /\ tracking'[x] \in {"found", ""}
      BY <1>1, <2>3 DEF TrackRead
    <3> QED
      BY <1>2, <1>3, <3>1 DEF Life, Followed, InWindow
  <2>4. CASE \/ Exits(x)
             \/ \E reason \in {"user", "other"} : Closes(x, reason)
    <3>1. /\ tab[x] = "live" /\ tab'[x] = "dying" /\ tracking'[x] = tracking[x]
          /\ why'[x] \in {"user", "other"}
      BY <1>1, <2>4 DEF Exits, Dispose, Closes
    <3>2. Life(x)'
      BY <1>2, <1>3, <3>1 DEF Life
    <3> QED
      BY <1>2, <1>3, <3>1, <3>2 DEF Followed, InWindow
  <2> QED
    BY <2>1, <2>2, <2>3, <2>4
<1>6. ASSUME NEW t \in Tasks, mapped'[t] = x
      PROVE  /\ tab'[x] \in {"live", "dying"} /\ of'[x] = t
             /\ x \notin suppressed' /\ tomb'[x] = ""
  BY <1>3, <1>5, <1>6, Names DEF IInv, NoDeadTabMapped, InWindow, IsClosed
<1> QED
  BY <1>3, <1>4, <1>5, <1>6, OneTab

----------------------------------------------------------------------------
(* The theorems.                                                            *)

LEMMA Invariance == Spec => []IInv
<1>1. Init => IInv
  <2> SUFFICES ASSUME Init PROVE IInv
    OBVIOUS
  <2>1. WindowTypes
    <3>1. tab \in [Tabs -> {"free", "promised", "live", "dying", "gone"}]
      BY DEF Init
    <3>2. /\ of \in [Tabs -> Tasks \cup {None}]
          /\ why \in [Tabs -> {"", "user", "other"}]
          /\ tracking \in [Tabs -> {"", "asked", "found", "done"}]
          /\ mapped \in [Tasks -> Tabs \cup {None}]
          /\ suppressed \in SUBSET Tabs
          /\ tomb \in [Tabs -> {"", "ours", "claimed", "unclaimed"}]
          /\ told \in [Tabs -> Nat]
      BY DEF Init, NoTabs
    <3> QED
      BY <3>1, <3>2 DEF WindowTypes
  <2>2. RegistryTypes /\ ThreadTypes
    BY TabsAssumption DEF Init, RegistryTypes, ThreadTypes, Busy, Labels, Old
  <2>3. ASSUME NEW x \in Tabs PROVE Life(x) /\ Followed(x)
    <3>1. tab[x] \in {"live", "free"} /\ (tab[x] = "live" => of[x] # None)
      BY DEF Init
    <3>2. /\ of[x] \in Tasks \cup {None} /\ why[x] = "" /\ tracking[x] = ""
          /\ tomb[x] = "" /\ told[x] = 0 /\ suppressed = {}
      BY DEF Init, NoTabs
    <3> QED
      BY <3>1, <3>2 DEF Life, Followed
  <2>4. NoDeadTabMapped
    BY DEF Init, NoDeadTabMapped
  <2> QED
    BY <2>1, <2>2, <2>3, <2>4 DEF IInv, TabInv
<1>2. IInv /\ [Next]_vars => IInv'
  <2> SUFFICES ASSUME IInv, [Next]_vars PROVE IInv'
    OBVIOUS
  <2>1. WindowTypes' /\ RegistryTypes' /\ ThreadTypes'
    BY WindowTypesKept, RegistryTypesKept
  <2>2. ASSUME Quiet PROVE Alive'
    BY <2>2 DEF Quiet, IInv, Alive, TabInv, Life, Followed, NoDeadTabMapped, InWindow,
                IsClosed
  <2>3. ASSUME Reconcile PROVE Alive'
    BY <2>1, <2>3, ReconcileAlive
  <2>4. ASSUME DisposeLocal PROVE Alive'
    BY <2>1, <2>4, DisposeLocalAlive
  <2>5. ASSUME HandOutProfile PROVE Alive'
    <3>1. task["profile"] \in Tasks
      BY <2>5 DEF HandOutProfile, IInv, ThreadTypes, Threads, Busy, Labels
    <3>2. UNCHANGED <<tracking, mapped>>
      BY <2>5 DEF HandOutProfile
    <3>3. \E x \in NewTabs : NewTab(x, task["profile"], "promised")
      BY <2>5 DEF HandOutProfile
    <3> QED
      BY <2>1, <3>1, <3>2, <3>3, NewTabAlive
  <2>6. ASSUME DisposeController PROVE Alive'
    BY <2>6 DEF DisposeController, Alive, TabInv, Life, Followed, NoDeadTabMapped, NoTabs,
                InWindow
  <2>7. ASSUME NEW th \in Threads, Adopt(th) PROVE Alive'
    BY <2>1, <2>7, AdoptAlive
  <2>8. ASSUME NEW th \in Threads, CreateTerminal(th) PROVE Alive'
    <3>1. task[th] \in Tasks
      BY <2>8 DEF CreateTerminal, IInv, ThreadTypes, Busy, Labels
    <3>2. mapped[task[th]] = None
      BY <2>8 DEF CreateTerminal
    <3>3. PICK x \in NewTabs :
            /\ NewTab(x, task[th], "live")
            /\ mapped' = [mapped EXCEPT ![task[th]] = x]
            /\ tracking' = [tracking EXCEPT ![x] = "asked"]
      BY <2>8 DEF CreateTerminal
    <3> QED
      BY <2>1, <3>1, <3>2, <3>3, NewTabAlive
  <2>9. ASSUME NEW x \in Tabs, Track(x) PROVE Alive'
    BY <2>1, <2>9, TrackAlive
  <2>10. ASSUME NEW x \in Tabs, CloseEvent(x) PROVE Alive'
    BY <2>1, <2>10, CloseEventAlive
  <2>11. ASSUME NEW x \in Tabs,
                \/ OpenPromised(x) \/ PromiseBroken(x) \/ TrackRead(x) \/ Exits(x)
                \/ \E reason \in {"user", "other"} : Closes(x, reason)
         PROVE  Alive'
    BY <2>1, <2>11, TabAlive
  <2>12. Alive'
    BY <2>2, <2>3, <2>4, <2>5, <2>6, <2>7, <2>8, <2>9, <2>10, <2>11, StepCases DEF Touches
  <2> QED
    BY <2>1, <2>12 DEF IInv, Alive
<1> QED
  BY <1>1, <1>2, PTL DEF Spec

\* The variables keep their types.
THEOREM TypeCorrect == Spec => []TypeOK
<1>1. IInv => TypeOK
  <2> SUFFICES ASSUME IInv PROVE TypeOK
    OBVIOUS
  <2>1. WindowTypes /\ RegistryTypes
    BY DEF IInv
  <2>2. late \subseteq pending /\ {closing, pending, late, todo} \subseteq SUBSET Tasks
    BY <2>1 DEF RegistryTypes
  <2> QED
    BY <2>1, <2>2 DEF TypeOK, WindowTypes, RegistryTypes
<1> QED
  BY <1>1, Invariance, PTL

\* However its awaits and the events of the window interleave, the extension
\* maps no tab whose close it has handled or that it has disposed itself
\* (closedTerminals and suppressedCloseEvents of TerminalRegistry).
THEOREM MappedTabsLive == Spec => []NoDeadTabMapped
<1>1. IInv => NoDeadTabMapped
  BY DEF IInv
<1> QED
  BY <1>1, Invariance, PTL

\* The close of a tab is published (publishTerminalClose) at most once, and
\* never when the extension or an exit closed it.
THEOREM NothingElsePublished == Spec => []OnlyUserClosesArePublished
<1>1. IInv => OnlyUserClosesArePublished
  <2> SUFFICES ASSUME IInv, NEW x \in Tabs
               PROVE  told[x] <= (IF why[x] = "user" THEN 1 ELSE 0)
    BY DEF OnlyUserClosesArePublished
  <2>1. Life(x)
    BY DEF IInv, TabInv
  <2>2. CASE tab[x] = "gone" /\ tomb[x] = "claimed" /\ why[x] = "user"
    BY <2>1, <2>2 DEF Life
  <2>3. CASE ~(tab[x] = "gone" /\ tomb[x] = "claimed" /\ why[x] = "user")
    <3>1. told[x] = 0
      BY <2>1, <2>3 DEF Life
    <3> QED
      BY <3>1
  <2> QED
    BY <2>2, <2>3
<1> QED
  BY <1>1, Invariance, PTL

\* A close by the user is published when the tab's trackTerminal is over, in
\* whatever order the two came, unless the extension wanted to dispose it.
THEOREM UserClosePublished == Spec => []UserCloseIsPublished
<1>1. IInv => UserCloseIsPublished
  <2> SUFFICES ASSUME IInv, NEW x \in Tabs,
                      tab[x] = "gone", why[x] = "user", tracking[x] = "done"
               PROVE  told[x] = 1 \/ tomb[x] = "ours"
    BY DEF UserCloseIsPublished
  <2>1. Life(x) /\ Followed(x) /\ tomb[x] \in {"", "ours", "claimed", "unclaimed"}
    BY DEF IInv, TabInv, WindowTypes
  <2> QED
    BY <2>1 DEF Life, Followed
<1> QED
  BY <1>1, Invariance, PTL
=============================================================================
