---------------------------- MODULE RegistryLock ----------------------------
(* The lock around every registry transaction: PythonRegistryLock.withLock  *)
(* in task-store.ts and its helper process, run_lock in pty_broker.py.      *)
(* TaskStore uses it as one variable that is taken and given back.          *)
(*                                                                          *)
(* Node cannot call flock.  The call opens the lock file and hands the      *)
(* descriptor to a child, so both refer to one open file description.  The  *)
(* child takes the flock, says so and exits; the flock stays with the       *)
(* description until the last process that has it open closes it or dies.   *)
(* A call stands for its open file description here; calls of one host and  *)
(* of different hosts are alike.  `locked' is what the kernel keeps.        *)
EXTENDS Naturals, TLAPS

CONSTANT Calls

VARIABLES
  pc,      \* pc[c]: "idle" | "opened" | "spawned" | "answered" | "inside"
  helper,  \* helper[c]: "none" | "trying" | "locked" | "told" | "failed"
  file,    \* file[c]: the inode that call c has open
  path,    \* the inode at lockPath
  locked   \* the calls whose description holds the flock of its file

vars == <<pc, helper, file, path, locked>>

TypeOK ==
  /\ pc \in [Calls -> {"idle", "opened", "spawned", "answered", "inside"}]
  /\ helper \in [Calls -> {"none", "trying", "locked", "told", "failed"}]
  /\ file \in [Calls -> Nat]
  /\ path \in Nat
  /\ locked \subseteq Calls

Init ==
  /\ pc = [c \in Calls |-> "idle"]
  /\ helper = [c \in Calls |-> "none"]
  /\ file = [c \in Calls |-> 0]
  /\ path = 0
  /\ locked = {}

----------------------------------------------------------------------------

\* The helper process of c is there and has the description open.
Running(c) == helper[c] \in {"trying", "locked"}

\* file.close() in the finally of withLock, once the helper is gone.
Close(c) ==
  /\ pc' = [pc EXCEPT ![c] = "idle"]
  /\ helper' = [helper EXCEPT ![c] = "none"]
  /\ locked' = locked \ {c}
  /\ UNCHANGED <<file, path>>

\* O_CREAT: what stands at the path, or a new file.
Open(c) ==
  /\ pc[c] = "idle" /\ helper[c] = "none"
  /\ pc' = [pc EXCEPT ![c] = "opened"]
  /\ file' = [file EXCEPT ![c] = path]
  /\ UNCHANGED <<helper, path, locked>>

\* The file is not trusted, or its chmod or the spawn fails.
Refuse(c) == pc[c] = "opened" /\ Close(c)

Spawn(c) ==
  /\ pc[c] = "opened"
  /\ pc' = [pc EXCEPT ![c] = "spawned"]
  /\ helper' = [helper EXCEPT ![c] = "trying"]
  /\ UNCHANGED <<file, path, locked>>

\* flock(LOCK_EX | LOCK_NB), every 20 ms until it is granted.
Grant(c) ==
  /\ helper[c] = "trying"
  /\ \A d \in locked : file[d] # file[c]
  /\ locked' = locked \cup {c}
  /\ helper' = [helper EXCEPT ![c] = "locked"]
  /\ UNCHANGED <<pc, file, path>>

\* The helper exits and closes its descriptor.  If its host is dead, nobody
\* has the description open any more.
HelperExits(c, result) ==
  /\ helper' = [helper EXCEPT ![c] = IF pc[c] = "idle" THEN "none" ELSE result]
  /\ locked' = IF pc[c] = "idle" THEN locked \ {c} ELSE locked
  /\ UNCHANGED <<pc, file, path>>

Report(c) == helper[c] = "locked" /\ HelperExits(c, "told")

\* After ten seconds, on an error, or by the SIGKILL after twelve seconds,
\* which may come when the flock is already granted.
HelperFails(c) == Running(c) /\ HelperExits(c, "failed")

Answered(c) ==
  /\ pc[c] = "spawned" /\ helper[c] = "told"
  /\ pc' = [pc EXCEPT ![c] = "answered"]
  /\ UNCHANGED <<helper, file, path, locked>>

\* A bad exit code, or the `exit' event came before the output did.
GiveUp(c) == pc[c] = "spawned" /\ helper[c] \in {"told", "failed"} /\ Close(c)

\* The file that is locked is still the one that others will open.
Enter(c) ==
  /\ pc[c] = "answered" /\ file[c] = path
  /\ pc' = [pc EXCEPT ![c] = "inside"]
  /\ UNCHANGED <<helper, file, path, locked>>

Drifted(c) == pc[c] = "answered" /\ file[c] # path /\ Close(c)

\* The transaction returned or threw.
Leave(c) == pc[c] = "inside" /\ Close(c)

\* The host dies.  Its helper goes on until it exits.
Crash(c) ==
  /\ pc[c] # "idle"
  /\ pc' = [pc EXCEPT ![c] = "idle"]
  /\ IF Running(c)
       THEN UNCHANGED <<helper, locked>>
       ELSE helper' = [helper EXCEPT ![c] = "none"] /\ locked' = locked \ {c}
  /\ UNCHANGED <<file, path>>

\* Somebody removes the lock file; the next open creates another inode.
Replace == path' = path + 1 /\ UNCHANGED <<pc, helper, file, locked>>

Step(c) ==
  \/ Open(c) \/ Refuse(c) \/ Spawn(c) \/ Grant(c) \/ Report(c) \/ HelperFails(c)
  \/ Answered(c) \/ GiveUp(c) \/ Enter(c) \/ Drifted(c) \/ Leave(c) \/ Crash(c)

Next == Replace \/ \E c \in Calls : Step(c)

Spec == Init /\ [][Next]_vars

----------------------------------------------------------------------------
(* Properties.                                                              *)

\* While nobody removes the lock file, one transaction at most is in progress,
\* whichever hosts and helpers have died, timed out or been killed so far.
MutualExclusion ==
  path = 0 => \A c, d \in Calls : pc[c] = "inside" /\ pc[d] = "inside" => c = d

\* If it is removed, the transactions that overlap locked different files: a
\* second one on the same file is still kept out.
OnePerFile ==
  \A c, d \in Calls :
    pc[c] = "inside" /\ pc[d] = "inside" /\ file[c] = file[d] => c = d

\* No death and no failure leaves the registry locked: what holds the flock is
\* a call in progress, or the helper of a dead host, which exits by itself.
NoLockLeftBehind ==
  \A c \in locked : pc[c] # "idle" \/ helper[c] = "locked"

Holders == {c \in Calls : pc[c] = "inside"}

\* While nobody removes the lock file, this is the lock that TaskStore has as
\* one variable: it is free, or one transaction has it until it ends.
ActsAsOneLock ==
  [][path' = 0 =>
       \/ Holders' = Holders
       \/ \E c \in Calls : Holders = {} /\ Holders' = {c}
       \/ \E c \in Calls : Holders = {c} /\ Holders' = {}]_vars

\* The kernel's lock excludes per file, and a call that has heard LOCKED still
\* has it, through its own descriptor.
IInv ==
  /\ TypeOK
  /\ \A c, d \in locked : file[c] = file[d] => c = d
  /\ \A c \in Calls :
       /\ helper[c] \in {"locked", "told"} => c \in locked
       /\ helper[c] = "told" => pc[c] # "idle"
       /\ pc[c] \in {"answered", "inside"} => helper[c] = "told"
       /\ pc[c] = "opened" => helper[c] = "none"
       /\ c \in locked => helper[c] \in {"locked", "told", "failed"}
       /\ helper[c] = "failed" => pc[c] = "spawned"
  /\ path = 0 => \A c \in Calls : file[c] = 0

----------------------------------------------------------------------------
(* Proofs.                                                                  *)

\* Closing is safe for a call whose helper is gone: it forgets everything.
LEMMA CloseKeeps ==
  ASSUME IInv, NEW c \in Calls, Close(c)
  PROVE  IInv'
  BY DEF IInv, TypeOK, Close

\* The helper exits: its lock goes with it only when the host is dead.
LEMMA HelperExitsKeeps ==
  ASSUME IInv, NEW c \in Calls, Running(c),
         NEW result \in {"told", "failed"}, HelperExits(c, result),
         result = "told" => helper[c] = "locked"
  PROVE  IInv'
  BY DEF IInv, TypeOK, Running, HelperExits

\* IInv is kept by every step.
LEMMA StepKeeps ==
  ASSUME IInv, [Next]_vars
  PROVE  IInv'
<1>1. ASSUME NEW c \in Calls, Open(c) PROVE IInv'
  BY <1>1 DEF IInv, TypeOK, Open
<1>2. ASSUME NEW c \in Calls, Refuse(c) \/ GiveUp(c) \/ Drifted(c) \/ Leave(c)
      PROVE  IInv'
  BY <1>2, CloseKeeps DEF Refuse, GiveUp, Drifted, Leave
<1>3. ASSUME NEW c \in Calls, Spawn(c) PROVE IInv'
  BY <1>3 DEF IInv, TypeOK, Spawn
<1>4. ASSUME NEW c \in Calls, Grant(c) PROVE IInv'
  BY <1>4 DEF IInv, TypeOK, Grant
<1>5. ASSUME NEW c \in Calls, Report(c) \/ HelperFails(c) PROVE IInv'
  BY <1>5, HelperExitsKeeps DEF Report, HelperFails, Running
<1>6. ASSUME NEW c \in Calls, Answered(c) PROVE IInv'
  BY <1>6 DEF IInv, TypeOK, Answered
<1>7. ASSUME NEW c \in Calls, Enter(c) PROVE IInv'
  BY <1>7 DEF IInv, TypeOK, Enter
<1>8. ASSUME NEW c \in Calls, Crash(c) PROVE IInv'
  BY <1>8 DEF IInv, TypeOK, Crash, Running
<1>9. ASSUME Replace PROVE IInv'
  BY <1>9 DEF IInv, TypeOK, Replace
<1>10. ASSUME UNCHANGED vars PROVE IInv'
  BY <1>10 DEF IInv, TypeOK, vars
<1> QED
  BY <1>1, <1>2, <1>3, <1>4, <1>5, <1>6, <1>7, <1>8, <1>9, <1>10 DEF Next, Step

\* What the kernel and the helpers know fits together at every moment.
THEOREM Invariance == Spec => []IInv
<1>1. Init => IInv
  BY DEF Init, IInv, TypeOK
<1> QED BY <1>1, StepKeeps, PTL DEF Spec

\* Transactions exclude each other, for any number of hosts and calls.
THEOREM LockExcludes == Spec => [](MutualExclusion /\ OnePerFile)
<1>1. IInv => MutualExclusion /\ OnePerFile
  BY DEF IInv, MutualExclusion, OnePerFile
<1> QED BY <1>1, Invariance, PTL

\* And no sequence of deaths leaves the lock behind.
THEOREM LockComesBack == Spec => []NoLockLeftBehind
<1>1. IInv => NoLockLeftBehind
  BY DEF IInv, TypeOK, NoLockLeftBehind
<1> QED BY <1>1, Invariance, PTL

\* The calls, descriptors, helpers and exit codes together are one lock.
THEOREM ImplementsLock == Spec => ActsAsOneLock
<1> DEFINE Taken == \/ Holders' = Holders
                    \/ \E c \in Calls : Holders = {} /\ Holders' = {c}
                    \/ \E c \in Calls : Holders = {c} /\ Holders' = {}
<1>1. ASSUME IInv, IInv', path' = 0, NEW c \in Calls, NEW l, pc' = [pc EXCEPT ![c] = l],
             path' = path
      PROVE  Taken
  <2>1. \A a, b \in Holders : a = b
    BY <1>1 DEF IInv, Holders
  <2>2. \A a, b \in Holders' : a = b
    BY <1>1 DEF IInv, Holders
  <2>3. Holders' \ {c} = Holders \ {c} /\ Holders \subseteq Calls /\ Holders' \subseteq Calls
    BY <1>1 DEF IInv, TypeOK, Holders
  <2> QED BY <2>1, <2>2, <2>3
<1>2. ASSUME IInv, IInv', path' = 0, [Next]_vars PROVE Taken
  <2>1. ASSUME UNCHANGED pc PROVE Taken
    BY <2>1 DEF Holders
  <2>2. path' = path \/ UNCHANGED pc
    BY <1>2 DEF Next, Step, Open, Refuse, Spawn, Grant, Report, HelperFails,
       HelperExits, Answered, GiveUp, Enter, Drifted, Leave, Crash, Close,
       Replace, vars
  <2>3. UNCHANGED pc \/ \E c \in Calls : \E l : pc' = [pc EXCEPT ![c] = l]
    BY <1>2 DEF Next, Step, Open, Refuse, Spawn, Grant, Report, HelperFails,
       HelperExits, Answered, GiveUp, Enter, Drifted, Leave, Crash, Close,
       Replace, vars
  <2>4. CASE \E c \in Calls : \E l : pc' = [pc EXCEPT ![c] = l]
    <3>1. PICK c \in Calls : \E l : pc' = [pc EXCEPT ![c] = l]
      BY <2>4
    <3>2. PICK l : pc' = [pc EXCEPT ![c] = l]
      BY <3>1
    <3> HIDE DEF Taken
    <3> QED BY <1>1, <1>2, <2>1, <2>2, <3>2
  <2> QED BY <2>1, <2>3, <2>4
<1>3. IInv /\ IInv' /\ [Next]_vars => [path' = 0 => Taken]_vars
  BY <1>2
<1> QED BY <1>3, Invariance, PTL DEF Spec, ActsAsOneLock
=============================================================================
