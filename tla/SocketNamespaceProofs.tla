----------------------- MODULE SocketNamespaceProofs -----------------------
(* For any set of recover children and any foreign objects: IInv of         *)
(* SocketNamespace is inductive, so at most one process works on the two    *)
(* paths and it holds the lock; from it follows that foreign objects        *)
(* survive and that whatever stays under a random name is reported.  What   *)
(* has been done to a path so far (GoneInv) adds that success means gone,   *)
(* and that nobody but an outsider is in the way of a remover (PeaceInv).   *)
EXTENDS SocketNamespace, SequenceTheorems, TLAPS

----------------------------------------------------------------------------
(* The lists of paths, as sequences of length at most two.                  *)

\* What Head, Tail and Len give on the lists of paths that occur.

LEMMA TodoFacts ==
  \A q \in Todos : q # <<>> =>
    /\ Head(q) \in Paths /\ Tail(q) \in Todos
    /\ Len(q) = 1 <=> Tail(q) = <<>>
    /\ q = <<"control", "data">> => Head(q) = "control" /\ Tail(q) = <<"data">> /\ Len(q) # 1
    /\ q = <<"data">> => Head(q) = "data" /\ Len(q) = 1
<1> SUFFICES ASSUME NEW q \in Todos, q # <<>>
             PROVE  /\ Head(q) \in Paths /\ Tail(q) \in Todos
                    /\ Len(q) = 1 <=> Tail(q) = <<>>
                    /\ q = <<"control", "data">> =>
                         Head(q) = "control" /\ Tail(q) = <<"data">> /\ Len(q) # 1
                    /\ q = <<"data">> => Head(q) = "data" /\ Len(q) = 1
  OBVIOUS
<1> USE DEF Todos, Removal, Paths
<1>1. CASE q = <<"control">>
  BY <1>1
<1>2. CASE q = <<"data">>
  BY <1>2
<1>3. CASE q = <<"data", "control">>
  BY <1>3
<1>4. CASE q = <<"control", "data">>
  BY <1>4
<1> QED BY <1>1, <1>2, <1>3, <1>4

\* The paths and the lists that handlers start from are among them.
LEMMA PathFacts ==
  /\ Paths = {"control", "data"}
  /\ Removal \in Todos /\ <<"control", "data">> \in Todos /\ <<>> \in Todos
  /\ Removal # <<>> /\ <<"control", "data">> # <<>>
  /\ \A p \in Paths : <<p>> \in Todos /\ <<p>> # <<>> /\ Sock(p) \in Objects
  /\ Broker = "broker" /\ Broker \in Processes
  /\ <<"control", "data">> # <<"data">>
  BY DEF Todos, Removal, Paths, Sock, Objects, Broker, Processes

----------------------------------------------------------------------------
(* IInv, action by action.  Only the lock holder is Busy, so a step of one  *)
(* process leaves what Exclusion says of the others; Rising and Falling     *)
(* read the state of the broker only.                                       *)

\* The lock was free, so nobody is Busy when the broker takes it.
LEMMA PrepareKeeps ==
  ASSUME IInv, Prepare
  PROVE  IInv'
<1> USE NamesAssumption DEF IInv, Prepare, vars, outside, kernel, known,
        verdict, GoTo, SetTodo, Path, Lock, Unlock, Processes, Busy, Removing,
        Labels
<1>1. TypeOK'
  BY TodoFacts, PathFacts DEF TypeOK, Exclusion
<1>2. Exclusion'
  BY TodoFacts, PathFacts DEF TypeOK, Exclusion
<1>3. Rising'
  BY TodoFacts, PathFacts DEF TypeOK, Exclusion, Rising
<1>4. Falling'
  BY TodoFacts, PathFacts DEF TypeOK, Exclusion, Falling
<1> QED BY <1>1, <1>2, <1>3, <1>4

\* The broker refuses before it takes the lock, with an exception to keep.
LEMMA PrepareRefusesKeeps ==
  ASSUME IInv, PrepareRefuses
  PROVE  IInv'
<1> USE NamesAssumption DEF IInv, PrepareRefuses, vars, outside, kernel,
        known, verdict, GoTo, SetTodo, Path, Lock, Unlock, Processes, Busy,
        Removing, Labels
<1>1. TypeOK'
  BY TodoFacts, PathFacts DEF TypeOK, Exclusion
<1>2. Exclusion'
  BY TodoFacts, PathFacts DEF TypeOK, Exclusion
<1>3. Rising'
  BY TodoFacts, PathFacts DEF TypeOK, Exclusion, Rising
<1>4. Falling'
  BY TodoFacts, PathFacts DEF TypeOK, Exclusion, Falling
<1> QED BY <1>1, <1>2, <1>3, <1>4

\* The holder goes on; the path is still to be recorded.
LEMMA BindKeeps ==
  ASSUME IInv, Bind
  PROVE  IInv'
<1> USE NamesAssumption DEF IInv, Bind, vars, outside, kernel, known, verdict,
        GoTo, SetTodo, Path, Lock, Unlock, Processes, Busy, Removing, Labels
<1>1. TypeOK'
  BY TodoFacts, PathFacts DEF TypeOK, Exclusion
<1>2. Exclusion'
  BY TodoFacts, PathFacts DEF TypeOK, Exclusion
<1>3. Rising'
  BY TodoFacts, PathFacts DEF TypeOK, Exclusion, Rising
<1>4. Falling'
  BY TodoFacts, PathFacts DEF TypeOK, Exclusion, Falling
<1> QED BY <1>1, <1>2, <1>3, <1>4

\* The exception releases the lock, and nothing was moved aside.
LEMMA BindFailsKeeps ==
  ASSUME IInv, BindFails
  PROVE  IInv'
<1> USE NamesAssumption DEF IInv, BindFails, vars, outside, kernel, known,
        verdict, GoTo, SetTodo, Path, Lock, Unlock, Processes, Busy, Removing,
        Labels
<1>1. TypeOK'
  BY TodoFacts, PathFacts DEF TypeOK, Exclusion
<1>2. Exclusion'
  BY TodoFacts, PathFacts DEF TypeOK, Exclusion
<1>3. Rising'
  BY TodoFacts, PathFacts DEF TypeOK, Exclusion, Rising
<1>4. Falling'
  BY TodoFacts, PathFacts DEF TypeOK, Exclusion, Falling
<1> QED BY <1>1, <1>2, <1>3, <1>4

\* A path is recorded once, and its object is not None.
LEMMA RecordKeeps ==
  ASSUME IInv, Record
  PROVE  IInv'
<1> USE NamesAssumption DEF IInv, Record, vars, outside, kernel, known,
        verdict, GoTo, SetTodo, Path, Lock, Unlock, Processes, Busy, Removing,
        Labels
<1>1. TypeOK'
  BY TodoFacts, PathFacts DEF TypeOK, Exclusion
<1>2. Exclusion'
  BY TodoFacts, PathFacts DEF TypeOK, Exclusion
<1>3. Rising'
  BY TodoFacts, PathFacts DEF TypeOK, Exclusion, Rising
<1>4. Falling'
  BY TodoFacts, PathFacts DEF TypeOK, Exclusion, Falling
<1> QED BY <1>1, <1>2, <1>3, <1>4

\* As for BindFails.
LEMMA RecordFailsKeeps ==
  ASSUME IInv, RecordFails
  PROVE  IInv'
<1> USE NamesAssumption DEF IInv, RecordFails, vars, outside, kernel, known,
        verdict, GoTo, SetTodo, Path, Lock, Unlock, Processes, Busy, Removing,
        Labels
<1>1. TypeOK'
  BY TodoFacts, PathFacts DEF TypeOK, Exclusion
<1>2. Exclusion'
  BY TodoFacts, PathFacts DEF TypeOK, Exclusion
<1>3. Rising'
  BY TodoFacts, PathFacts DEF TypeOK, Exclusion, Rising
<1>4. Falling'
  BY TodoFacts, PathFacts DEF TypeOK, Exclusion, Falling
<1> QED BY <1>1, <1>2, <1>3, <1>4

\* "control" comes before "data", so both are recorded when it serves.
LEMMA ListenKeeps ==
  ASSUME IInv, Listen
  PROVE  IInv'
<1> USE NamesAssumption DEF IInv, Listen, vars, outside, kernel, known,
        verdict, GoTo, SetTodo, Path, Lock, Unlock, Processes, Busy, Removing,
        Labels
<1>1. TypeOK'
  BY TodoFacts, PathFacts DEF TypeOK, Exclusion
<1>2. Exclusion'
  BY TodoFacts, PathFacts DEF TypeOK, Exclusion
<1>3. Rising'
  BY TodoFacts, PathFacts DEF TypeOK, Exclusion, Rising
<1>4. Falling'
  BY TodoFacts, PathFacts DEF TypeOK, Exclusion, Falling
<1> QED BY <1>1, <1>2, <1>3, <1>4

\* The holder stays the holder, with one path to remove and an exception.
LEMMA ListenFailsKeeps ==
  ASSUME IInv, ListenFails
  PROVE  IInv'
<1> USE NamesAssumption DEF IInv, ListenFails, vars, outside, kernel, known,
        verdict, GoTo, SetTodo, Path, Lock, Unlock, Processes, Busy, Removing,
        Labels
<1>1. TypeOK'
  BY TodoFacts, PathFacts DEF TypeOK, Exclusion
<1>2. Exclusion'
  BY TodoFacts, PathFacts DEF TypeOK, Exclusion
<1>3. Rising'
  BY TodoFacts, PathFacts DEF TypeOK, Exclusion, Rising
<1>4. Falling'
  BY TodoFacts, PathFacts DEF TypeOK, Exclusion, Falling
<1> QED BY <1>1, <1>2, <1>3, <1>4

\* Only the row changes, and its control inode is the recorded one.
LEMMA IdentifyKeeps ==
  ASSUME IInv, Identify
  PROVE  IInv'
<1> USE NamesAssumption DEF IInv, Identify, vars, outside, kernel, known,
        verdict, GoTo, SetTodo, Path, Lock, Unlock, Processes, Busy, Removing,
        Labels
<1>1. TypeOK'
  BY TodoFacts, PathFacts DEF TypeOK, Exclusion
<1>2. Exclusion'
  BY TodoFacts, PathFacts DEF TypeOK, Exclusion
<1>3. Rising'
  BY TodoFacts, PathFacts DEF TypeOK, Exclusion, Rising
<1>4. Falling'
  BY TodoFacts, PathFacts DEF TypeOK, Exclusion, Falling
<1> QED BY <1>1, <1>2, <1>3, <1>4

\* The last path releases the lock with the exception or the exit code.
LEMMA LookKeeps ==
  ASSUME IInv, Look
  PROVE  IInv'
<1> USE NamesAssumption DEF IInv, Look, NextPath, Leave, Exit, vars, outside,
        kernel, known, verdict, GoTo, SetTodo, Path, Lock, Unlock, Processes,
        Busy, Removing, Labels
<1>1. TypeOK'
  <2>1. todo' \in [Processes -> Todos]
    <3>1. Broker \in Processes /\ todo[Broker] \in Todos /\ todo[Broker] # <<>>
      BY PathFacts DEF TypeOK, Exclusion
    <3>2. Tail(todo[Broker]) \in Todos
      BY <3>1, TodoFacts
    <3>3. todo' = [todo EXCEPT ![Broker] = Tail(todo[Broker])] \/ todo' = todo
      BY PathFacts DEF Exclusion
    <3>4. todo \in [Processes -> Todos]
      BY DEF TypeOK
    <3> HIDE DEF IInv, Look, NextPath, Leave
    <3> QED BY <3>1, <3>2, <3>3, <3>4
  <2>2. pc' \in [Processes -> Labels]
    <3>1. PICK l \in Labels : pc' = [pc EXCEPT ![Broker] = l]
      BY PathFacts
    <3> QED BY <3>1, PathFacts DEF TypeOK
  <2>3. flock' \in Processes \cup {None} /\ cleanupOk' \in BOOLEAN
    BY PathFacts DEF TypeOK, Exclusion
  <2>4. at' \in [Paths -> Objects \cup {None}] /\ aside' \subseteq Objects
        /\ held' \in [Processes -> Objects \cup {None}]
    BY TodoFacts, PathFacts DEF TypeOK, Exclusion
  <2> QED BY <2>1, <2>2, <2>3, <2>4 DEF TypeOK
<1>2. Exclusion'
  BY TodoFacts, PathFacts DEF TypeOK, Exclusion
<1>3. Rising'
  BY TodoFacts, PathFacts DEF TypeOK, Exclusion, Rising
<1>4. Falling'
  BY TodoFacts, PathFacts DEF TypeOK, Exclusion, Falling
<1> QED BY <1>1, <1>2, <1>3, <1>4

\* The cgroup is gone from here on: Falling has its second disjunct.
LEMMA StartCleanupKeeps ==
  ASSUME IInv, StartCleanup
  PROVE  IInv'
<1> USE NamesAssumption DEF IInv, StartCleanup, vars, outside, kernel, known,
        verdict, GoTo, SetTodo, Path, Lock, Unlock, Processes, Busy, Removing,
        Labels
<1>1. TypeOK'
  BY TodoFacts, PathFacts DEF TypeOK, Exclusion
<1>2. Exclusion'
  BY TodoFacts, PathFacts DEF TypeOK, Exclusion
<1>3. Rising'
  BY TodoFacts, PathFacts DEF TypeOK, Exclusion, Rising
<1>4. Falling'
  BY TodoFacts, PathFacts DEF TypeOK, Exclusion, Falling
<1> QED BY <1>1, <1>2, <1>3, <1>4

\* It ends without the lock; cleanup_ok says why.
LEMMA CleanupFailsKeeps ==
  ASSUME IInv, CleanupFails
  PROVE  IInv'
<1> USE NamesAssumption DEF IInv, CleanupFails, Exit, vars, outside, kernel,
        known, verdict, GoTo, SetTodo, Path, Lock, Unlock, Processes, Busy,
        Removing, Labels
<1>1. TypeOK'
  BY TodoFacts, PathFacts DEF TypeOK, Exclusion
<1>2. Exclusion'
  BY TodoFacts, PathFacts DEF TypeOK, Exclusion
<1>3. Rising'
  BY TodoFacts, PathFacts DEF TypeOK, Exclusion, Rising
<1>4. Falling'
  BY TodoFacts, PathFacts DEF TypeOK, Exclusion, Falling
<1> QED BY <1>1, <1>2, <1>3, <1>4

\* The object is in aside and held by the one process that settles.
LEMMA MoveAsideKeeps ==
  ASSUME IInv, NEW a \in Processes, MoveAside(a)
  PROVE  IInv'
<1> USE NamesAssumption DEF IInv, MoveAside, vars, outside, kernel, known,
        verdict, GoTo, SetTodo, Path, Lock, Unlock, Processes, Busy, Removing,
        Labels
<1>1. TypeOK'
  BY TodoFacts, PathFacts DEF TypeOK, Exclusion
<1>2. Exclusion'
  BY TodoFacts, PathFacts DEF TypeOK, Exclusion
<1>3. Rising'
  BY TodoFacts, PathFacts DEF TypeOK, Exclusion, Rising
<1>4. Falling'
  BY TodoFacts, PathFacts DEF TypeOK, Exclusion, Falling
<1> QED BY <1>1, <1>2, <1>3, <1>4

\* The next path, or the end: a process that is not Busy lets go.
LEMMA NothingToMoveKeeps ==
  ASSUME IInv, NEW a \in Processes, NothingToMove(a)
  PROVE  IInv'
<1> USE NamesAssumption DEF IInv, NothingToMove, NextPath, Leave, Exit,
        PathFails, vars, outside, kernel, known, verdict, GoTo, SetTodo, Path,
        Lock, Unlock, Processes, Busy, Removing, Labels
<1>1. TypeOK'
  <2>1. todo' \in [Processes -> Todos]
    <3>1. a \in Processes /\ todo[a] \in Todos /\ todo[a] # <<>>
      BY PathFacts DEF TypeOK, Exclusion
    <3>2. Tail(todo[a]) \in Todos
      BY <3>1, TodoFacts
    <3>3. todo' = [todo EXCEPT ![a] = Tail(todo[a])] \/ todo' = todo
      BY PathFacts DEF Exclusion
    <3>4. todo \in [Processes -> Todos]
      BY DEF TypeOK
    <3> HIDE DEF IInv, NothingToMove, NextPath, Leave, PathFails
    <3> QED BY <3>1, <3>2, <3>3, <3>4
  <2>2. pc' \in [Processes -> Labels]
    <3>1. PICK l \in Labels : pc' = [pc EXCEPT ![a] = l]
      BY PathFacts
    <3> QED BY <3>1, PathFacts DEF TypeOK
  <2>3. flock' \in Processes \cup {None} /\ cleanupOk' \in BOOLEAN
    BY PathFacts DEF TypeOK, Exclusion
  <2>4. at' \in [Paths -> Objects \cup {None}] /\ aside' \subseteq Objects
        /\ held' \in [Processes -> Objects \cup {None}]
    BY TodoFacts, PathFacts DEF TypeOK, Exclusion
  <2> QED BY <2>1, <2>2, <2>3, <2>4 DEF TypeOK
<1>2. Exclusion'
  BY TodoFacts, PathFacts DEF TypeOK, Exclusion
<1>3. Rising'
  BY TodoFacts, PathFacts DEF TypeOK, Exclusion, Rising
<1>4. Falling'
  BY TodoFacts, PathFacts DEF TypeOK, Exclusion, Falling
<1> QED BY <1>1, <1>2, <1>3, <1>4

\* The broker goes on with the next path, a recover child lets go.
LEMMA MoveFailsKeeps ==
  ASSUME IInv, NEW a \in Processes, MoveFails(a)
  PROVE  IInv'
<1> USE NamesAssumption DEF IInv, MoveFails, NextPath, Leave, Exit, PathFails,
        vars, outside, kernel, known, verdict, GoTo, SetTodo, Path, Lock,
        Unlock, Processes, Busy, Removing, Labels
<1>1. TypeOK'
  <2>1. todo' \in [Processes -> Todos]
    <3>1. a \in Processes /\ todo[a] \in Todos /\ todo[a] # <<>>
      BY PathFacts DEF TypeOK, Exclusion
    <3>2. Tail(todo[a]) \in Todos
      BY <3>1, TodoFacts
    <3>3. todo' = [todo EXCEPT ![a] = Tail(todo[a])] \/ todo' = todo
      BY PathFacts DEF Exclusion
    <3>4. todo \in [Processes -> Todos]
      BY DEF TypeOK
    <3> HIDE DEF IInv, MoveFails, NextPath, Leave, PathFails
    <3> QED BY <3>1, <3>2, <3>3, <3>4
  <2>2. pc' \in [Processes -> Labels]
    <3>1. PICK l \in Labels : pc' = [pc EXCEPT ![a] = l]
      BY PathFacts
    <3> QED BY <3>1, PathFacts DEF TypeOK
  <2>3. flock' \in Processes \cup {None} /\ cleanupOk' \in BOOLEAN
    BY PathFacts DEF TypeOK, Exclusion
  <2>4. at' \in [Paths -> Objects \cup {None}] /\ aside' \subseteq Objects
        /\ held' \in [Processes -> Objects \cup {None}]
    BY TodoFacts, PathFacts DEF TypeOK, Exclusion
  <2> QED BY <2>1, <2>2, <2>3, <2>4 DEF TypeOK
<1>2. Exclusion'
  BY TodoFacts, PathFacts DEF TypeOK, Exclusion
<1>3. Rising'
  BY TodoFacts, PathFacts DEF TypeOK, Exclusion, Rising
<1>4. Falling'
  BY TodoFacts, PathFacts DEF TypeOK, Exclusion, Falling
<1> QED BY <1>1, <1>2, <1>3, <1>4

\* Nobody else holds anything, so no held object leaves aside.
LEMMA UnlinkKeeps ==
  ASSUME IInv, NEW a \in Processes, Unlink(a)
  PROVE  IInv'
<1> USE NamesAssumption DEF IInv, Unlink, NextPath, Leave, Exit, Expected,
        vars, outside, kernel, known, verdict, GoTo, SetTodo, Path, Lock,
        Unlock, Processes, Busy, Removing, Labels
<1>1. TypeOK'
  <2>1. todo' \in [Processes -> Todos]
    <3>1. a \in Processes /\ todo[a] \in Todos /\ todo[a] # <<>>
      BY PathFacts DEF TypeOK, Exclusion
    <3>2. Tail(todo[a]) \in Todos
      BY <3>1, TodoFacts
    <3>3. todo' = [todo EXCEPT ![a] = Tail(todo[a])] \/ todo' = todo
      BY PathFacts DEF Exclusion
    <3>4. todo \in [Processes -> Todos]
      BY DEF TypeOK
    <3> HIDE DEF IInv, Unlink, NextPath, Leave
    <3> QED BY <3>1, <3>2, <3>3, <3>4
  <2>2. pc' \in [Processes -> Labels]
    <3>1. PICK l \in Labels : pc' = [pc EXCEPT ![a] = l]
      BY PathFacts
    <3> QED BY <3>1, PathFacts DEF TypeOK
  <2>3. flock' \in Processes \cup {None} /\ cleanupOk' \in BOOLEAN
    BY PathFacts DEF TypeOK, Exclusion
  <2>4. at' \in [Paths -> Objects \cup {None}] /\ aside' \subseteq Objects
        /\ held' \in [Processes -> Objects \cup {None}]
    BY TodoFacts, PathFacts DEF TypeOK, Exclusion
  <2> QED BY <2>1, <2>2, <2>3, <2>4 DEF TypeOK
<1>2. Exclusion'
  BY TodoFacts, PathFacts DEF TypeOK, Exclusion
<1>3. Rising'
  BY TodoFacts, PathFacts DEF TypeOK, Exclusion, Rising
<1>4. Falling'
  BY TodoFacts, PathFacts DEF TypeOK, Exclusion, Falling
<1> QED BY <1>1, <1>2, <1>3, <1>4

\* As for Unlink, and the path is free when the object returns.
LEMMA PutBackKeeps ==
  ASSUME IInv, NEW a \in Processes, PutBack(a)
  PROVE  IInv'
<1> USE NamesAssumption DEF IInv, PutBack, NextPath, Leave, Exit, PathFails,
        Expected, vars, outside, kernel, known, verdict, GoTo, SetTodo, Path,
        Lock, Unlock, Processes, Busy, Removing, Labels
<1>1. TypeOK'
  <2>1. todo' \in [Processes -> Todos]
    <3>1. a \in Processes /\ todo[a] \in Todos /\ todo[a] # <<>>
      BY PathFacts DEF TypeOK, Exclusion
    <3>2. Tail(todo[a]) \in Todos
      BY <3>1, TodoFacts
    <3>3. todo' = [todo EXCEPT ![a] = Tail(todo[a])] \/ todo' = todo
      BY PathFacts DEF Exclusion
    <3>4. todo \in [Processes -> Todos]
      BY DEF TypeOK
    <3> HIDE DEF IInv, PutBack, NextPath, Leave, PathFails
    <3> QED BY <3>1, <3>2, <3>3, <3>4
  <2>2. pc' \in [Processes -> Labels]
    <3>1. PICK l \in Labels : pc' = [pc EXCEPT ![a] = l]
      BY PathFacts
    <3> QED BY <3>1, PathFacts DEF TypeOK
  <2>3. flock' \in Processes \cup {None} /\ cleanupOk' \in BOOLEAN
    BY PathFacts DEF TypeOK, Exclusion
  <2>4. at' \in [Paths -> Objects \cup {None}] /\ aside' \subseteq Objects
        /\ held' \in [Processes -> Objects \cup {None}]
    BY TodoFacts, PathFacts DEF TypeOK, Exclusion
  <2> QED BY <2>1, <2>2, <2>3, <2>4 DEF TypeOK
<1>2. Exclusion'
  BY TodoFacts, PathFacts DEF TypeOK, Exclusion
<1>3. Rising'
  BY TodoFacts, PathFacts DEF TypeOK, Exclusion, Rising
<1>4. Falling'
  BY TodoFacts, PathFacts DEF TypeOK, Exclusion, Falling
<1> QED BY <1>1, <1>2, <1>3, <1>4

\* The object stays aside and nobody holds it.
LEMMA SettleFailsKeeps ==
  ASSUME IInv, NEW a \in Processes, SettleFails(a)
  PROVE  IInv'
<1> USE NamesAssumption DEF IInv, SettleFails, NextPath, Leave, Exit,
        PathFails, vars, outside, kernel, known, verdict, GoTo, SetTodo, Path,
        Lock, Unlock, Processes, Busy, Removing, Labels
<1>1. TypeOK'
  <2>1. todo' \in [Processes -> Todos]
    <3>1. a \in Processes /\ todo[a] \in Todos /\ todo[a] # <<>>
      BY PathFacts DEF TypeOK, Exclusion
    <3>2. Tail(todo[a]) \in Todos
      BY <3>1, TodoFacts
    <3>3. todo' = [todo EXCEPT ![a] = Tail(todo[a])] \/ todo' = todo
      BY PathFacts DEF Exclusion
    <3>4. todo \in [Processes -> Todos]
      BY DEF TypeOK
    <3> HIDE DEF IInv, SettleFails, NextPath, Leave, PathFails
    <3> QED BY <3>1, <3>2, <3>3, <3>4
  <2>2. pc' \in [Processes -> Labels]
    <3>1. PICK l \in Labels : pc' = [pc EXCEPT ![a] = l]
      BY PathFacts
    <3> QED BY <3>1, PathFacts DEF TypeOK
  <2>3. flock' \in Processes \cup {None} /\ cleanupOk' \in BOOLEAN
    BY PathFacts DEF TypeOK, Exclusion
  <2>4. at' \in [Paths -> Objects \cup {None}] /\ aside' \subseteq Objects
        /\ held' \in [Processes -> Objects \cup {None}]
    BY TodoFacts, PathFacts DEF TypeOK, Exclusion
  <2> QED BY <2>1, <2>2, <2>3, <2>4 DEF TypeOK
<1>2. Exclusion'
  BY TodoFacts, PathFacts DEF TypeOK, Exclusion
<1>3. Rising'
  BY TodoFacts, PathFacts DEF TypeOK, Exclusion, Rising
<1>4. Falling'
  BY TodoFacts, PathFacts DEF TypeOK, Exclusion, Falling
<1> QED BY <1>1, <1>2, <1>3, <1>4

\* A process that waits for the lock is not Busy.
LEMMA StartRecoverKeeps ==
  ASSUME IInv, NEW r \in Recoverers, StartRecover(r)
  PROVE  IInv'
<1> USE NamesAssumption DEF IInv, StartRecover, vars, outside, kernel, known,
        verdict, GoTo, SetTodo, Path, Lock, Unlock, Processes, Busy, Removing,
        Labels
<1>1. TypeOK'
  BY TodoFacts, PathFacts DEF TypeOK, Exclusion
<1>2. Exclusion'
  BY TodoFacts, PathFacts DEF TypeOK, Exclusion
<1>3. Rising'
  BY TodoFacts, PathFacts DEF TypeOK, Exclusion, Rising
<1>4. Falling'
  BY TodoFacts, PathFacts DEF TypeOK, Exclusion, Falling
<1> QED BY <1>1, <1>2, <1>3, <1>4

\* The lock was free, and it is taken only with a path to remove.
LEMMA CheckKeeps ==
  ASSUME IInv, NEW r \in Recoverers, Check(r)
  PROVE  IInv'
<1> USE NamesAssumption DEF IInv, Check, Present, vars, outside, kernel,
        known, verdict, GoTo, SetTodo, Path, Lock, Unlock, Processes, Busy,
        Removing, Labels
<1>1. TypeOK'
  BY TodoFacts, PathFacts DEF TypeOK, Exclusion
<1>2. Exclusion'
  BY TodoFacts, PathFacts DEF TypeOK, Exclusion
<1>3. Rising'
  BY TodoFacts, PathFacts DEF TypeOK, Exclusion, Rising
<1>4. Falling'
  BY TodoFacts, PathFacts DEF TypeOK, Exclusion, Falling
<1> QED BY <1>1, <1>2, <1>3, <1>4

\* It refuses without the lock.
LEMMA CheckRefusesKeeps ==
  ASSUME IInv, NEW r \in Recoverers, CheckRefuses(r)
  PROVE  IInv'
<1> USE NamesAssumption DEF IInv, CheckRefuses, vars, outside, kernel, known,
        verdict, GoTo, SetTodo, Path, Lock, Unlock, Processes, Busy, Removing,
        Labels
<1>1. TypeOK'
  BY TodoFacts, PathFacts DEF TypeOK, Exclusion
<1>2. Exclusion'
  BY TodoFacts, PathFacts DEF TypeOK, Exclusion
<1>3. Rising'
  BY TodoFacts, PathFacts DEF TypeOK, Exclusion, Rising
<1>4. Falling'
  BY TodoFacts, PathFacts DEF TypeOK, Exclusion, Falling
<1> QED BY <1>1, <1>2, <1>3, <1>4

\* After the lock is released: the lock and the paths stay.
LEMMA KillKeeps ==
  ASSUME IInv, NEW r \in Recoverers, Kill(r)
  PROVE  IInv'
<1> USE NamesAssumption DEF IInv, Kill, vars, outside, kernel, known, verdict,
        GoTo, SetTodo, Path, Lock, Unlock, Processes, Busy, Removing, Labels
<1>1. TypeOK'
  BY TodoFacts, PathFacts DEF TypeOK, Exclusion
<1>2. Exclusion'
  BY TodoFacts, PathFacts DEF TypeOK, Exclusion
<1>3. Rising'
  BY TodoFacts, PathFacts DEF TypeOK, Exclusion, Rising
<1>4. Falling'
  BY TodoFacts, PathFacts DEF TypeOK, Exclusion, Falling
<1> QED BY <1>1, <1>2, <1>3, <1>4

\* The cgroup can only go, which Falling allows.
LEMMA RemoveCgroupKeeps ==
  ASSUME IInv, NEW r \in Recoverers, RemoveCgroup(r)
  PROVE  IInv'
<1> USE NamesAssumption DEF IInv, RemoveCgroup, vars, outside, kernel, known,
        verdict, GoTo, SetTodo, Path, Lock, Unlock, Processes, Busy, Removing,
        Labels
<1>1. TypeOK'
  BY TodoFacts, PathFacts DEF TypeOK, Exclusion
<1>2. Exclusion'
  BY TodoFacts, PathFacts DEF TypeOK, Exclusion
<1>3. Rising'
  BY TodoFacts, PathFacts DEF TypeOK, Exclusion, Rising
<1>4. Falling'
  BY TodoFacts, PathFacts DEF TypeOK, Exclusion, Falling
<1> QED BY <1>1, <1>2, <1>3, <1>4

\* Only the program counter of a process without the lock moves.
LEMMA OvertakenKeeps ==
  ASSUME IInv, NEW r \in Recoverers, Overtaken(r)
  PROVE  IInv'
<1> USE NamesAssumption DEF IInv, Overtaken, vars, outside, kernel, known,
        verdict, GoTo, SetTodo, Path, Lock, Unlock, Processes, Busy, Removing,
        Labels
<1>1. TypeOK'
  BY TodoFacts, PathFacts DEF TypeOK, Exclusion
<1>2. Exclusion'
  BY TodoFacts, PathFacts DEF TypeOK, Exclusion
<1>3. Rising'
  BY TodoFacts, PathFacts DEF TypeOK, Exclusion, Rising
<1>4. Falling'
  BY TodoFacts, PathFacts DEF TypeOK, Exclusion, Falling
<1> QED BY <1>1, <1>2, <1>3, <1>4

\* As for Overtaken.
LEMMA CgroupFailsKeeps ==
  ASSUME IInv, NEW r \in Recoverers, CgroupFails(r)
  PROVE  IInv'
<1> USE NamesAssumption DEF IInv, CgroupFails, vars, outside, kernel, known,
        verdict, GoTo, SetTodo, Path, Lock, Unlock, Processes, Busy, Removing,
        Labels
<1>1. TypeOK'
  BY TodoFacts, PathFacts DEF TypeOK, Exclusion
<1>2. Exclusion'
  BY TodoFacts, PathFacts DEF TypeOK, Exclusion
<1>3. Rising'
  BY TodoFacts, PathFacts DEF TypeOK, Exclusion, Rising
<1>4. Falling'
  BY TodoFacts, PathFacts DEF TypeOK, Exclusion, Falling
<1> QED BY <1>1, <1>2, <1>3, <1>4

\* The kernel drops the lock, and nobody holds what was aside.
LEMMA CrashKeeps ==
  ASSUME IInv, NEW a \in Processes, Crash(a)
  PROVE  IInv'
<1> USE NamesAssumption DEF IInv, Crash, vars, outside, kernel, known,
        verdict, GoTo, SetTodo, Path, Lock, Unlock, Processes, Busy, Removing,
        Labels
<1>1. TypeOK'
  BY TodoFacts, PathFacts DEF TypeOK, Exclusion
<1>2. Exclusion'
  BY TodoFacts, PathFacts DEF TypeOK, Exclusion
<1>3. Rising'
  BY TodoFacts, PathFacts DEF TypeOK, Exclusion, Rising
<1>4. Falling'
  BY TodoFacts, PathFacts DEF TypeOK, Exclusion, Falling
<1> QED BY <1>1, <1>2, <1>3, <1>4

\* An outsider changes a path and nothing that IInv relates.
LEMMA TakeKeeps ==
  ASSUME IInv, NEW p \in Paths, Take(p)
  PROVE  IInv'
<1> USE NamesAssumption DEF IInv, Take, vars, outside, kernel, known, verdict,
        GoTo, SetTodo, Path, Lock, Unlock, Processes, Busy, Removing, Labels
<1>1. TypeOK'
  BY TodoFacts, PathFacts DEF TypeOK, Exclusion
<1>2. Exclusion'
  BY TodoFacts, PathFacts DEF TypeOK, Exclusion
<1>3. Rising'
  BY TodoFacts, PathFacts DEF TypeOK, Exclusion, Rising
<1>4. Falling'
  BY TodoFacts, PathFacts DEF TypeOK, Exclusion, Falling
<1> QED BY <1>1, <1>2, <1>3, <1>4

\* As for Take.
LEMMA PutKeeps ==
  ASSUME IInv, NEW p \in Paths, NEW x \in Foreign, Put(p, x)
  PROVE  IInv'
<1> USE NamesAssumption DEF IInv, Put, vars, outside, kernel, known, verdict,
        GoTo, SetTodo, Path, Lock, Unlock, Processes, Busy, Removing, Labels
<1>1. TypeOK'
  BY TodoFacts, PathFacts DEF TypeOK, Exclusion, Objects
<1>2. Exclusion'
  BY TodoFacts, PathFacts DEF TypeOK, Exclusion
<1>3. Rising'
  BY TodoFacts, PathFacts DEF TypeOK, Exclusion, Rising
<1>4. Falling'
  BY TodoFacts, PathFacts DEF TypeOK, Exclusion, Falling
<1> QED BY <1>1, <1>2, <1>3, <1>4

\* Nothing is bound, held or locked at the start.
LEMMA InitInvariant == Init => IInv
<1> SUFFICES ASSUME Init PROVE IInv
  OBVIOUS
<1> USE NamesAssumption, PathFacts DEF Init, IInv, Processes, Busy, Removing,
        Labels
<1>1. TypeOK
  BY DEF TypeOK
<1>2. Exclusion
  BY DEF Exclusion
<1>3. Rising /\ Falling
  BY DEF Rising, Falling
<1> QED BY <1>1, <1>2, <1>3

\* Every step of the system is one of the actions above.
LEMMA StepInvariant ==
  ASSUME IInv, [Next]_vars
  PROVE  IInv'
<1>1. ASSUME NEW a \in Processes, Steps(a) PROVE IInv'
  BY <1>1, MoveAsideKeeps, NothingToMoveKeeps, MoveFailsKeeps, UnlinkKeeps,
     PutBackKeeps, SettleFailsKeeps DEF Steps
<1>2. ASSUME BrokerSteps, ~Steps(Broker) PROVE IInv'
  BY <1>2, PrepareKeeps, PrepareRefusesKeeps, BindKeeps, BindFailsKeeps,
     RecordKeeps, RecordFailsKeeps, ListenKeeps, ListenFailsKeeps, LookKeeps,
     StartCleanupKeeps, CleanupFailsKeeps DEF BrokerSteps
<1>3. ASSUME NEW r \in Recoverers, RecoverSteps(r), ~Steps(r) PROVE IInv'
  BY <1>3, StartRecoverKeeps, CheckKeeps, CheckRefusesKeeps, KillKeeps,
     RemoveCgroupKeeps, OvertakenKeeps, CgroupFailsKeeps DEF RecoverSteps
<1>4. ASSUME UNCHANGED vars PROVE IInv'
  BY <1>4 DEF vars, IInv, TypeOK, Exclusion, Rising, Falling, Path, Processes,
     Busy, Removing
<1> QED
  BY <1>1, <1>2, <1>3, <1>4, IdentifyKeeps, CrashKeeps, TakeKeeps, PutKeeps
     DEF Next, Processes

\* At every moment at most one process binds, moves or unlinks at the paths,
\* and it is the one that holds the lock.
THEOREM Invariance == Spec => []IInv
<1>1. Init => IInv
  BY InitInvariant
<1>2. IInv /\ [Next]_vars => IInv'
  BY StepInvariant
<1> QED BY <1>1, <1>2, PTL DEF Spec

----------------------------------------------------------------------------
(* The two properties that follow.                                          *)

\* What is nobody's own leaves a path only for a name of its own in aside, and
\* leaves aside only for its path: the unlink takes what was recorded or is in
\* the row, and neither is ever overwritten.
LEMMA ForeignStep ==
  ASSUME IInv, ForeignObjectsSurvive, [Next]_vars
  PROVE  ForeignObjectsSurvive'
<1> DEFINE Safe(x) == \/ x \in aside
                      \/ \E p \in Paths : x \in {at[p], recorded[p], identity[p]}
<1>0. /\ \A x \in put \ taken : Safe(x)
      /\ (\A x \in (put \ taken)' : Safe(x)') => ForeignObjectsSurvive'
      /\ None \notin put
  BY NamesAssumption DEF ForeignObjectsSurvive, IInv, TypeOK, Objects
<1> HIDE DEF Safe
<1> USE DEF GoTo, Path, outside, known, kernel, verdict
<1>1. ASSUME UNCHANGED <<at, aside, recorded, identity, put, taken>>
      PROVE  ForeignObjectsSurvive'
  BY <1>0, <1>1 DEF Safe
<1>2. ASSUME Bind PROVE ForeignObjectsSurvive'
  <2> SUFFICES ASSUME NEW x \in put \ taken PROVE Safe(x)'
    BY <1>0, <1>2 DEF Bind
  <2>1. at' = [at EXCEPT ![Path(Broker)] = Sock(Path(Broker))]
        /\ at[Path(Broker)] = None /\ x # None /\ Safe(x)
    BY <1>0, <1>2 DEF Bind
  <2>2. UNCHANGED <<aside, recorded, identity>> /\ at \in [Paths -> Objects \cup {None}]
    BY <1>2 DEF Bind, IInv, TypeOK
  <2> QED BY <2>1, <2>2 DEF Safe
<1>3. ASSUME Record PROVE ForeignObjectsSurvive'
  <2> SUFFICES ASSUME NEW x \in put \ taken PROVE Safe(x)'
    BY <1>0, <1>3 DEF Record
  <2>1. recorded[Path(Broker)] = None
    BY <1>3, PathFacts DEF Record, IInv, Rising
  <2>2. recorded' = [recorded EXCEPT ![Path(Broker)] = at[Path(Broker)]]
        /\ x # None /\ Safe(x)
    BY <1>0, <1>3 DEF Record
  <2>3. UNCHANGED <<at, aside, identity>> /\ recorded \in [Paths -> Objects \cup {None}]
    BY <1>3 DEF Record, IInv, TypeOK
  <2> QED BY <2>1, <2>2, <2>3 DEF Safe
<1>4. ASSUME Identify PROVE ForeignObjectsSurvive'
  <2> SUFFICES ASSUME NEW x \in put \ taken PROVE Safe(x)'
    BY <1>0, <1>4 DEF Identify
  <2>1. \A p \in Paths : identity[p] = None
    BY <1>4, PathFacts DEF Identify, IInv, Rising
  <2>2. UNCHANGED <<at, aside, recorded>> /\ x # None /\ Safe(x)
    BY <1>0, <1>4 DEF Identify
  <2> QED BY <2>1, <2>2 DEF Safe
<1>5. ASSUME NEW a \in Processes, MoveAside(a) PROVE ForeignObjectsSurvive'
  <2> SUFFICES ASSUME NEW x \in put \ taken PROVE Safe(x)'
    BY <1>0, <1>5 DEF MoveAside
  <2>1. aside' = aside \cup {at[Path(a)]} /\ at' = [at EXCEPT ![Path(a)] = None]
        /\ UNCHANGED <<recorded, identity>> /\ Safe(x)
    BY <1>0, <1>5 DEF MoveAside
  <2>2. at \in [Paths -> Objects \cup {None}]
    BY DEF IInv, TypeOK
  <2> QED BY <2>1, <2>2 DEF Safe
<1>6. ASSUME NEW a \in Processes, Unlink(a) PROVE ForeignObjectsSurvive'
  <2> SUFFICES ASSUME NEW x \in put \ taken PROVE Safe(x)'
    BY <1>0, <1>6 DEF Unlink
  <2>1. aside' = aside \ {held[a]} /\ UNCHANGED <<at, recorded, identity>> /\ Safe(x)
    BY <1>0, <1>6 DEF Unlink
  <2>2. held[a] \in {recorded[Path(a)], identity[Path(a)]}
    BY <1>6 DEF Unlink, Expected
  <2>3. todo[a] \in Todos /\ todo[a] # <<>>
    BY <1>6 DEF Unlink, IInv, TypeOK, Exclusion, Busy
  <2>4. Path(a) \in Paths
    BY <2>3, TodoFacts
  <2> QED BY <2>1, <2>2, <2>4 DEF Safe
<1>7. ASSUME NEW a \in Processes, PutBack(a) PROVE ForeignObjectsSurvive'
  <2> SUFFICES ASSUME NEW x \in put \ taken PROVE Safe(x)'
    BY <1>0, <1>7 DEF PutBack
  <2>1. UNCHANGED <<recorded, identity>> /\ x # None /\ Safe(x)
    BY <1>0, <1>7 DEF PutBack
  <2>2. todo[a] \in Todos /\ todo[a] # <<>>
    BY <1>7 DEF PutBack, IInv, TypeOK, Exclusion, Busy
  <2>3. Path(a) \in Paths /\ at \in [Paths -> Objects \cup {None}]
    BY <2>2, TodoFacts DEF IInv, TypeOK
  <2>4. CASE at[Path(a)] # None
    <3>1. UNCHANGED <<at, aside>>
      BY <1>7, <2>4 DEF PutBack
    <3> QED BY <2>1, <3>1 DEF Safe
  <2>5. CASE at[Path(a)] = None
    <3>1. at' = [at EXCEPT ![Path(a)] = held[a]] /\ aside' = aside \ {held[a]}
      BY <1>7, <2>5 DEF PutBack
    <3> QED BY <2>1, <2>3, <2>5, <3>1 DEF Safe
  <2> QED BY <2>4, <2>5
<1>8. ASSUME NEW q \in Paths, Take(q) PROVE ForeignObjectsSurvive'
  <2> SUFFICES ASSUME NEW x \in put \ taken, x # at[q] PROVE Safe(x)'
    BY <1>0, <1>8 DEF Take
  <2>1. at' = [at EXCEPT ![q] = None] /\ UNCHANGED <<aside, recorded, identity>>
        /\ Safe(x)
    BY <1>0, <1>8 DEF Take
  <2>2. at \in [Paths -> Objects \cup {None}]
    BY DEF IInv, TypeOK
  <2> QED BY <2>1, <2>2 DEF Safe
<1>9. ASSUME NEW q \in Paths, NEW y \in Foreign, Put(q, y)
      PROVE  ForeignObjectsSurvive'
  <2>1. at' = [at EXCEPT ![q] = y] /\ UNCHANGED <<aside, recorded, identity>>
        /\ put' = put \cup {y} /\ taken' = taken \cup ({at[q]} \ {None})
    BY <1>9 DEF Put
  <2>2. at \in [Paths -> Objects \cup {None}]
    BY DEF IInv, TypeOK
  <2>3. Safe(y)'
    BY <2>1, <2>2 DEF Safe
  <2>4. ASSUME NEW x \in put \ taken, x # at[q] PROVE Safe(x)'
    <3>1. Safe(x)
      BY <1>0
    <3> QED BY <2>1, <2>2, <2>4, <3>1 DEF Safe
  <2>5. (put \ taken)' \subseteq {y} \cup {x \in put \ taken : x # at[q]}
    BY <1>0, <2>1
  <2> QED BY <1>0, <2>3, <2>4, <2>5
<1>10. ASSUME BrokerSteps, ~Bind, ~Record, ~Steps(Broker)
       PROVE  ForeignObjectsSurvive'
  BY <1>1, <1>10 DEF BrokerSteps, Prepare, PrepareRefuses, BindFails,
     RecordFails, Listen, ListenFails, Look, StartCleanup, CleanupFails
<1>11. ASSUME NEW r \in Recoverers, RecoverSteps(r), ~Steps(r)
       PROVE  ForeignObjectsSurvive'
  BY <1>1, <1>11 DEF RecoverSteps, StartRecover, Check, CheckRefuses, Kill,
     RemoveCgroup, Overtaken, CgroupFails
<1>12. ASSUME NEW a \in Processes, Steps(a) PROVE ForeignObjectsSurvive'
  BY <1>1, <1>5, <1>6, <1>7, <1>12 DEF Steps, NothingToMove, MoveFails,
     SettleFails
<1>13. ASSUME NEW a \in Processes, Crash(a) PROVE ForeignObjectsSurvive'
  BY <1>1, <1>13 DEF Crash
<1>14. ASSUME UNCHANGED vars PROVE ForeignObjectsSurvive'
  BY <1>1, <1>14 DEF vars
<1> QED
  BY <1>2, <1>3, <1>4, <1>8, <1>9, <1>10, <1>11, <1>12, <1>13, <1>14
     DEF Next, Processes

\* Nothing that another program put into the directory is ever destroyed.
THEOREM ForeignSurvival == Spec => []ForeignObjectsSurvive
<1>1. Init => ForeignObjectsSurvive
  BY DEF Init, ForeignObjectsSurvive
<1>2. IInv /\ ForeignObjectsSurvive /\ [Next]_vars => ForeignObjectsSurvive'
  BY ForeignStep
<1> QED BY <1>1, <1>2, Invariance, PTL DEF Spec

\* Some process died or said that it failed.
Reported ==
  (\E a \in Processes : pc[a] \in {"dead", "failed"}) \/ raised \/ ~cleanupOk

\* A report is never taken back: the dead and the failed take no step, and the
\* verdict that _cleanup decides anew is only read where the exception was kept.
LEMMA ReportStays ==
  ASSUME IInv, Reported, [Next]_vars
  PROVE  Reported'
<1> USE NamesAssumption DEF GoTo, known, kernel, verdict, outside
<1>0. /\ pc \in [Processes -> Labels] /\ Broker \in Processes
      /\ cleanupOk \in BOOLEAN /\ raised \in BOOLEAN
  BY PathFacts DEF IInv, TypeOK
<1>1. ASSUME NEW a \in Processes, NEW l, pc[a] \notin {"dead", "failed"},
             pc' = [pc EXCEPT ![a] = l],
             raised => raised', ~cleanupOk => ~cleanupOk' \/ raised'
      PROVE  Reported'
  BY <1>0, <1>1 DEF Reported
<1>2. ASSUME NEW a \in Processes, Steps(a) PROVE Reported'
  <2>1. pc[a] \notin {"dead", "failed"}
    BY <1>2 DEF Steps, MoveAside, NothingToMove, MoveFails, Unlink, PutBack,
       SettleFails
  <2>2. \E l : pc' = [pc EXCEPT ![a] = l]
    BY <1>2 DEF Steps, MoveAside, NothingToMove, MoveFails, Unlink, PutBack,
       SettleFails, NextPath, Leave, PathFails
  <2>3. UNCHANGED raised /\ (cleanupOk' = cleanupOk \/ cleanupOk' = FALSE)
    BY <1>2 DEF Steps, MoveAside, NothingToMove, MoveFails, Unlink, PutBack,
       SettleFails, PathFails
  <2>4. PICK l : pc' = [pc EXCEPT ![a] = l]
    BY <2>2
  <2>5. (raised => raised') /\ (~cleanupOk => ~cleanupOk' \/ raised')
    BY <2>3
  <2> QED BY <1>1, <2>1, <2>4, <2>5
<1>3. ASSUME BrokerSteps, ~Steps(Broker) PROVE Reported'
  <2>1. pc[Broker] \notin {"dead", "failed"}
    BY <1>3 DEF BrokerSteps, Prepare, PrepareRefuses, Bind, BindFails, Record,
       RecordFails, Listen, ListenFails, Look, StartCleanup, CleanupFails
  <2>2. \E l : pc' = [pc EXCEPT ![Broker] = l]
    BY <1>3 DEF BrokerSteps, Prepare, PrepareRefuses, Bind, BindFails, Record,
       RecordFails, Listen, ListenFails, Look, StartCleanup, CleanupFails,
       NextPath, Leave
  <2>3. raised' = raised \/ raised' = TRUE
    BY <1>3 DEF BrokerSteps, Prepare, PrepareRefuses, Bind, BindFails, Record,
       RecordFails, Listen, ListenFails, Look, StartCleanup, CleanupFails
  <2>4. ~cleanupOk => ~cleanupOk' \/ raised'
    BY <1>3 DEF BrokerSteps, Prepare, PrepareRefuses, Bind, BindFails, Record,
       RecordFails, Listen, ListenFails, Look, StartCleanup, CleanupFails,
       IInv, Falling
  <2>5. PICK l : pc' = [pc EXCEPT ![Broker] = l]
    BY <2>2
  <2> QED BY <1>0, <1>1, <2>1, <2>3, <2>4, <2>5
<1>4. ASSUME NEW r \in Recoverers, RecoverSteps(r), ~Steps(r) PROVE Reported'
  <2>1. pc[r] \notin {"dead", "failed"} /\ r \in Processes
    BY <1>4 DEF RecoverSteps, StartRecover, Check, CheckRefuses, Kill,
       RemoveCgroup, Overtaken, CgroupFails, Processes
  <2>2. \E l : pc' = [pc EXCEPT ![r] = l]
    BY <1>4 DEF RecoverSteps, StartRecover, Check, CheckRefuses, Kill,
       RemoveCgroup, Overtaken, CgroupFails
  <2>3. UNCHANGED verdict
    BY <1>4 DEF RecoverSteps, StartRecover, Check, CheckRefuses, Kill,
       RemoveCgroup, Overtaken, CgroupFails
  <2> QED BY <1>1, <2>1, <2>2, <2>3
<1>5. ASSUME NEW a \in Processes, Crash(a) PROVE Reported'
  BY <1>1, <1>5 DEF Crash
<1>6. ASSUME UNCHANGED <<pc, verdict>> PROVE Reported'
  BY <1>6 DEF Reported
<1>7. ASSUME Identify \/ \E p \in Paths : Take(p) \/ \E x \in Foreign : Put(p, x)
      PROVE  Reported'
  BY <1>6, <1>7 DEF Identify, Take, Put
<1>8. ASSUME UNCHANGED vars PROVE Reported'
  BY <1>6, <1>8 DEF vars
<1> QED
  BY <1>2, <1>3, <1>4, <1>5, <1>7, <1>8 DEF Next, Processes

\* A step either reports, or leaves what is aside in the hands of a process.
LEMMA ArtifactStep ==
  ASSUME IInv, ArtifactsAreReported, [Next]_vars
  PROVE  ArtifactsAreReported'
<1> USE NamesAssumption DEF GoTo, known, kernel, verdict, outside
<1>0. /\ held \in [Processes -> Objects \cup {None}] /\ Broker \in Processes
      /\ pc \in [Processes -> Labels]
  BY PathFacts DEF IInv, TypeOK
<1>1. SUFFICES ASSUME \A x \in aside : \E b \in Processes : held[b] = x
               PROVE  Reported' \/ \A x \in aside' : \E b \in Processes : held'[b] = x
  BY ReportStays DEF ArtifactsAreReported, Reported
<1>2. ASSUME NEW a \in Processes, MoveAside(a)
      PROVE  \A x \in aside' : \E b \in Processes : held'[b] = x
  <2>1. pc[a] = "rename" /\ held[a] = None
    BY <1>2 DEF MoveAside, IInv, Exclusion
  <2>2. aside' = aside \cup {at[Path(a)]} /\ held' = [held EXCEPT ![a] = at[Path(a)]]
    BY <1>2 DEF MoveAside
  <2>3. None \notin aside
    BY NamesAssumption DEF IInv, TypeOK
  <2> QED BY <1>0, <1>1, <2>1, <2>2, <2>3
<1>3. ASSUME NEW a \in Processes, Unlink(a)
      PROVE  \A x \in aside' : \E b \in Processes : held'[b] = x
  <2>1. aside' = aside \ {held[a]} /\ held' = [held EXCEPT ![a] = None]
    BY <1>3 DEF Unlink
  <2> QED BY <1>0, <1>1, <2>1
<1>4. ASSUME NEW a \in Processes, PathFails(a) PROVE Reported'
  BY <1>0, <1>4 DEF PathFails, Reported
<1>5. ASSUME NEW a \in Processes, Crash(a) PROVE Reported'
  BY <1>0, <1>5 DEF Crash, Reported
<1>6. ASSUME UNCHANGED <<aside, held>>
      PROVE  \A x \in aside' : \E b \in Processes : held'[b] = x
  BY <1>1, <1>6
<1>7. ASSUME NEW a \in Processes, Steps(a)
      PROVE  Reported' \/ \A x \in aside' : \E b \in Processes : held'[b] = x
  BY <1>2, <1>3, <1>4, <1>6, <1>7 DEF Steps, NothingToMove, MoveFails, PutBack,
     SettleFails
<1>8. ASSUME BrokerSteps, ~Steps(Broker)
      PROVE  \A x \in aside' : \E b \in Processes : held'[b] = x
  BY <1>6, <1>8 DEF BrokerSteps, Prepare, PrepareRefuses, Bind, BindFails,
     Record, RecordFails, Listen, ListenFails, Look, StartCleanup, CleanupFails
<1>9. ASSUME NEW r \in Recoverers, RecoverSteps(r), ~Steps(r)
      PROVE  \A x \in aside' : \E b \in Processes : held'[b] = x
  BY <1>6, <1>9 DEF RecoverSteps, StartRecover, Check, CheckRefuses, Kill,
     RemoveCgroup, Overtaken, CgroupFails
<1>10. ASSUME Identify \/ \E p \in Paths : Take(p) \/ \E x \in Foreign : Put(p, x)
       PROVE  \A x \in aside' : \E b \in Processes : held'[b] = x
  BY <1>6, <1>10 DEF Identify, Take, Put
<1>11. ASSUME UNCHANGED vars
       PROVE  \A x \in aside' : \E b \in Processes : held'[b] = x
  BY <1>6, <1>11 DEF vars
<1> QED
  BY <1>5, <1>7, <1>8, <1>9, <1>10, <1>11 DEF Next, Processes

\* Nothing stays under a random name without a process that died or says so.
THEOREM ArtifactReport == Spec => []ArtifactsAreReported
<1>1. Init => ArtifactsAreReported
  BY DEF Init, ArtifactsAreReported
<1>2. IInv /\ ArtifactsAreReported /\ [Next]_vars => ArtifactsAreReported'
  BY ArtifactStep
<1> QED BY <1>1, <1>2, Invariance, PTL DEF Spec

----------------------------------------------------------------------------
(* Success means gone, and the removers do not make each other fail.  Both  *)
(* rest on what has been done to a path so far; neither IInv nor the lock   *)
(* says that.  GoneInv does, in three layers.                               *)

Ended == pc[Broker] \in {"done", "failed", "dead"}

\* Where an object may be: a socket stands at its own path or was moved aside
\* from it, and every other object was put there by an outsider.
Placed ==
  /\ \A p \in Paths : /\ at[p] \in {None, Sock(p)} \cup put
                      /\ recorded[p] \in {None, Sock(p)} \cup put
                      /\ identity[p] \in {None, Sock(p)} \cup put
  /\ \A a \in Processes : pc[a] = "settle" => held[a] \in {Sock(Path(a))} \cup put

\* The broker comes before its recover children, which start with both inodes
\* of the row; until then only the broker's own cleanup removes the cgroup.
InTurn ==
  /\ \A r \in Recoverers : pc[r] # "idle" => Ended /\ identity["control"] # None
  /\ identity["control"] # None => identity["data"] # None
  /\ pc[Broker] \in {"idle", "bind", "record", "listen", "serving", "stopping"}
       => cgroup = "full"
  /\ pc[Broker] \in Removing =>
       \/ cgroup = "full"
       \/ cgroup = "gone" /\ todo[Broker] \in {Removal, <<"control">>}

\* A remover has finished with path p.
Removed(a, p) == todo[a] # Removal /\ todo[a] # <<p>>

\* Nothing is left at p of what the broker recorded, of what the row names.
Clear(p) == recorded[p] # None => at[p] # recorded[p]
Free(p) == at[p] # identity[p]

\* A broker that so far has nothing to complain of has cleared the paths it
\* has finished with, and no recover child will put its socket back.
BrokerCleared ==
  /\ pc[Broker] \in Removing /\ cgroup = "gone" /\ cleanupOk =>
       \A p \in Paths : Removed(Broker, p) => Clear(p)
  /\ pc[Broker] = "settle" => Clear(Path(Broker))
  /\ pc[Broker] = "done" /\ cleanupOk =>
       /\ \A p \in Paths : Clear(p)
       /\ \A r \in Recoverers : pc[r] = "settle" => held[r] # recorded[Path(r)]

\* A recover child that has not failed has freed the paths it has finished
\* with, and knows of the cgroup unless it is gone.
Freed(r) ==
  /\ pc[r] \in {"rename", "settle"} =>
       /\ todo[r] \in {Removal, <<"control">>, <<"data">>}
       /\ seen[r] \/ cgroup = "gone"
       /\ \A p \in Paths : Removed(r, p) => Free(p)
  /\ pc[r] = "settle" => Free(Path(r))
  /\ pc[r] \in {"kill", "poll", "done"} => \A p \in Paths : Free(p)
  /\ pc[r] = "done" => cgroup = "gone"

GoneInv == Placed /\ InTurn /\ BrokerCleared /\ \A r \in Recoverers : Freed(r)

\* Nobody else has touched the paths and no system call has failed by itself.
Undisturbed == put = {} /\ taken = {} /\ ~faulty

\* Then every lookup finds what the last one found.
Peace ==
  /\ cleanupOk /\ ~raised
  /\ \A a \in Processes : pc[a] # "failed"
  /\ pc[Broker] = "idle" => \A p \in Paths : at[p] = None
  /\ pc[Broker] = "bind" => at[Path(Broker)] = None
  /\ pc[Broker] \in {"record", "listen"} => at[Path(Broker)] = Sock(Path(Broker))
  /\ pc[Broker] \in {"bind", "record", "listen"}
     /\ todo[Broker] = <<"control", "data">> => at["data"] = None
  /\ pc[Broker] = "rename" => recorded[Path(Broker)] # None
  /\ \A r \in Recoverers, p \in Paths :
       pc[r] \in {"rename", "settle"} /\ at[p] = None
         => Removed(r, p) \/ (pc[r] = "settle" /\ p = Path(r))
  /\ \A a \in Processes : pc[a] = "settle" => held[a] = Expected(a)[Path(a)]

PeaceInv == Undisturbed => Peace

----------------------------------------------------------------------------
(* What a step of one process may touch.                                    *)

\* The steps of one process, its death included.
Acts(a) ==
  \/ a = Broker /\ BrokerSteps
  \/ a \in Recoverers /\ RecoverSteps(a)
  \/ Crash(a)

LEMMA NextCases ==
  ASSUME [Next]_vars
  PROVE  \/ \E a \in Processes : Acts(a)
         \/ Identify
         \/ \E p \in Paths : Take(p) \/ \E x \in Foreign : Put(p, x)
         \/ UNCHANGED vars
  BY DEF Next, Acts, Processes

\* A process moves itself only, and only the living do.
LEMMA OthersStay ==
  ASSUME IInv, NEW a \in Processes, Acts(a)
  PROVE  /\ \A b \in Processes \ {a} :
              pc'[b] = pc[b] /\ todo'[b] = todo[b] /\ held'[b] = held[b]
         /\ pc[a] \notin {"done", "failed", "dead"}
         /\ UNCHANGED <<identity, put, taken>>
         /\ faulty => faulty'
<1> USE DEF GoTo, SetTodo, known, kernel, outside
<1>0. /\ pc \in [Processes -> Labels] /\ todo \in [Processes -> Todos]
      /\ held \in [Processes -> Objects \cup {None}]
  BY DEF IInv, TypeOK
<1>1. CASE Steps(a)
  BY <1>0, <1>1 DEF Steps, MoveAside, NothingToMove, MoveFails, Unlink, PutBack,
     SettleFails, NextPath, Leave, PathFails
<1>2. CASE a = Broker /\ BrokerSteps /\ ~Steps(Broker)
  BY <1>0, <1>2 DEF BrokerSteps, Prepare, PrepareRefuses, Bind, BindFails, Record,
     RecordFails, Listen, ListenFails, Look, StartCleanup, CleanupFails,
     NextPath, Leave
<1>3. CASE RecoverSteps(a) /\ ~Steps(a)
  BY <1>0, <1>3 DEF RecoverSteps, StartRecover, Check, CheckRefuses, Kill,
     RemoveCgroup, Overtaken, CgroupFails
<1>4. CASE Crash(a)
  BY <1>0, <1>4 DEF Crash
<1> QED BY <1>1, <1>2, <1>3, <1>4 DEF Acts

\* The paths change by a bind, by a rename aside and by a rename back; what
\* the broker recorded changes by Record.
LEMMA PathsStay ==
  ASSUME NEW a \in Processes, Acts(a)
  PROVE  /\ (a = Broker /\ Bind) \/ MoveAside(a) \/ PutBack(a) \/ UNCHANGED at
         /\ (a = Broker /\ Record) \/ UNCHANGED recorded
<1> USE DEF known
<1>1. CASE Steps(a)
  BY <1>1 DEF Steps, MoveAside, NothingToMove, MoveFails, Unlink, SettleFails,
     PutBack
<1>2. CASE a = Broker /\ BrokerSteps /\ ~Steps(Broker)
  BY <1>2 DEF BrokerSteps, Prepare, PrepareRefuses, Bind, BindFails, Record,
     RecordFails, Listen, ListenFails, Look, StartCleanup, CleanupFails
<1>3. CASE RecoverSteps(a) /\ ~Steps(a)
  BY <1>3 DEF RecoverSteps, StartRecover, Check, CheckRefuses, Kill,
     RemoveCgroup, Overtaken, CgroupFails
<1>4. CASE Crash(a)
  BY <1>4 DEF Crash
<1> QED BY <1>1, <1>2, <1>3, <1>4 DEF Acts

\* Only the rename aside gives a process something to judge.
LEMMA NotSettled ==
  ASSUME IInv, NEW a \in Processes, Acts(a), ~MoveAside(a)
  PROVE  pc'[a] # "settle"
<1> USE DEF GoTo
<1>0. pc \in [Processes -> Labels]
  BY DEF IInv, TypeOK
<1>1. CASE Steps(a)
  <2>1. pc'[a] # "settle" \/ PathFails(a)
    BY <1>0, <1>1 DEF Steps, NothingToMove, MoveFails, Unlink, PutBack,
       SettleFails, NextPath, Leave, Exit
  <2>2. PathFails(a) => pc'[a] # "settle"
    BY <1>0 DEF PathFails, NextPath, Leave, Exit
  <2> QED BY <2>1, <2>2
<1>2. CASE a = Broker /\ BrokerSteps /\ ~Steps(Broker)
  BY <1>0, <1>2 DEF BrokerSteps, Prepare, PrepareRefuses, Bind, BindFails, Record,
     RecordFails, Listen, ListenFails, Look, StartCleanup, CleanupFails,
     NextPath, Leave, Exit
<1>3. CASE RecoverSteps(a) /\ ~Steps(a)
  BY <1>0, <1>3 DEF RecoverSteps, StartRecover, Check, CheckRefuses, Kill,
     RemoveCgroup, Overtaken, CgroupFails
<1>4. CASE Crash(a)
  BY <1>0, <1>4 DEF Crash
<1> QED BY <1>1, <1>2, <1>3, <1>4 DEF Acts

\* A process at work on a path has one.
LEMMA HasPath ==
  ASSUME IInv, NEW a \in Processes, pc[a] \in Busy
  PROVE  Path(a) \in Paths /\ flock = a /\ todo[a] \in Todos /\ todo[a] # <<>>
<1>1. todo[a] \in Todos /\ todo[a] # <<>> /\ flock = a
  BY DEF IInv, TypeOK, Exclusion
<1> QED BY <1>1, TodoFacts DEF Path

----------------------------------------------------------------------------
(* Placed                                                                   *)

LEMMA PlacedStep ==
  ASSUME IInv, Placed, [Next]_vars
  PROVE  Placed'
<1> DEFINE PathsPlaced == \A p \in Paths : /\ at[p] \in {None, Sock(p)} \cup put
                                           /\ recorded[p] \in {None, Sock(p)} \cup put
                                           /\ identity[p] \in {None, Sock(p)} \cup put
           HeldPlaced(a) == pc[a] = "settle" => held[a] \in {Sock(Path(a))} \cup put
<1>0. /\ pc \in [Processes -> Labels] /\ todo \in [Processes -> Todos]
      /\ held \in [Processes -> Objects \cup {None}]
      /\ at \in [Paths -> Objects \cup {None}]
      /\ recorded \in [Paths -> Objects \cup {None}]
  BY DEF IInv, TypeOK
<1>1. ASSUME NEW a \in Processes, Acts(a) PROVE Placed'
  <2>1. UNCHANGED <<identity, put>> /\ \A b \in Processes \ {a} :
          pc'[b] = pc[b] /\ todo'[b] = todo[b] /\ held'[b] = held[b]
    BY <1>1, OthersStay
  <2>2. ASSUME NEW b \in Processes \ {a} PROVE HeldPlaced(b)'
    BY <2>1 DEF Placed, Path
  <2>3. CASE MoveAside(a)
    <3>1. Path(a) \in Paths /\ at[Path(a)] # None /\ recorded' = recorded
          /\ todo' = todo /\ at' = [at EXCEPT ![Path(a)] = None]
          /\ held' = [held EXCEPT ![a] = at[Path(a)]]
      BY <2>3, HasPath DEF MoveAside, Busy, known
    <3>2. PathsPlaced'
      BY <1>0, <2>1, <3>1 DEF Placed
    <3>3. HeldPlaced(a)'
      BY <1>0, <2>1, <3>1 DEF Placed, Path
    <3> QED BY <2>2, <3>2, <3>3 DEF Placed
  <2>4. CASE ~MoveAside(a)
    <3>1. HeldPlaced(a)'
      BY <1>1, <2>4, NotSettled
    <3>2. PathsPlaced'
      <4>1. CASE PutBack(a)
        <5>1. /\ Path(a) \in Paths /\ recorded' = recorded /\ pc[a] = "settle"
              /\ at' = at \/ at' = [at EXCEPT ![Path(a)] = held[a]]
          BY <4>1, HasPath DEF PutBack, Busy, known
        <5>2. held[a] \in {Sock(Path(a))} \cup put
          BY <5>1 DEF Placed
        <5> QED BY <1>0, <2>1, <5>1, <5>2 DEF Placed
      <4>2. CASE a = Broker /\ Bind
        <5>1. /\ Path(Broker) \in Paths /\ recorded' = recorded
              /\ at' = [at EXCEPT ![Path(Broker)] = Sock(Path(Broker))]
          BY <4>2, HasPath DEF Bind, Busy, known
        <5> QED BY <1>0, <2>1, <5>1 DEF Placed
      <4>3. CASE a = Broker /\ Record
        <5>1. /\ Path(Broker) \in Paths /\ at' = at
              /\ recorded' = [recorded EXCEPT ![Path(Broker)] = at[Path(Broker)]]
          BY <4>3, HasPath DEF Record, Busy
        <5> QED BY <1>0, <2>1, <5>1 DEF Placed
      <4>4. CASE UNCHANGED <<at, recorded>>
        BY <2>1, <4>4 DEF Placed
      <4> QED BY <1>1, <2>4, <4>1, <4>2, <4>3, <4>4, PathsStay DEF Record, Bind, known, PutBack
    <3> QED BY <2>2, <3>1, <3>2 DEF Placed
  <2> QED BY <2>3, <2>4
<1>2. CASE Identify
  <2>1. identity' = at /\ UNCHANGED <<at, recorded, pc, todo, held, put>>
    BY <1>2 DEF Identify, outside
  <2>2. PathsPlaced'
    BY <2>1 DEF Placed
  <2> QED BY <2>1, <2>2 DEF Placed, Path
<1>3. ASSUME NEW q \in Paths, Take(q) PROVE Placed'
  BY <1>0, <1>3 DEF Take, Placed, Path, known
<1>4. ASSUME NEW q \in Paths, NEW x \in Foreign, Put(q, x) PROVE Placed'
  BY <1>0, <1>4 DEF Put, Placed, Path, known
<1>5. CASE UNCHANGED vars
  BY <1>5 DEF vars, Placed, Path
<1> QED BY <1>1, <1>2, <1>3, <1>4, <1>5, NextCases

----------------------------------------------------------------------------
(* InTurn                                                                   *)

\* What NextPath does when both paths are left, and when one is.
LEMMA NextPathFacts ==
  ASSUME IInv, NEW a \in Processes, pc[a] \in Busy, NEW l, NextPath(a, l)
  PROVE  /\ todo[a] = Removal =>
              /\ Path(a) = "data" /\ todo'[a] = <<"control">>
              /\ pc'[a] = l /\ UNCHANGED flock
         /\ todo[a] = <<"control">> \/ todo[a] = <<"data">> =>
              todo[a] = <<Path(a)>> /\ Leave(a)
         /\ pc' = [pc EXCEPT ![a] = l] \/ Leave(a)
<1>1. todo[a] \in Todos /\ todo[a] # <<>>
  BY HasPath
<1>2. pc \in [Processes -> Labels] /\ todo \in [Processes -> Todos]
  BY DEF IInv, TypeOK
<1>3. todo'[a] = Tail(todo[a])
  BY <1>2 DEF NextPath, SetTodo
<1>4. CASE todo[a] = Removal
  <2>1. Head(todo[a]) = "data" /\ Tail(todo[a]) = <<"control">> /\ Len(todo[a]) # 1
    BY <1>4 DEF Removal
  <2>2. pc' = [pc EXCEPT ![a] = l] /\ flock' = flock
    BY <2>1 DEF NextPath, GoTo
  <2> QED BY <1>2, <1>3, <1>4, <2>1, <2>2 DEF Path, Removal
<1>5. CASE todo[a] = <<"control">> \/ todo[a] = <<"data">>
  <2>1. todo[a] = <<Head(todo[a])>> /\ Len(todo[a]) = 1
    BY <1>5
  <2> QED BY <1>5, <2>1 DEF NextPath, Path, Removal
<1>6. pc' = [pc EXCEPT ![a] = l] \/ Leave(a)
  BY DEF NextPath, GoTo
<1> QED BY <1>4, <1>5, <1>6

Sinking == {"idle", "bind", "record", "listen", "serving", "stopping"}

\* The broker leaves a removal for its exit, with the cgroup gone, or for its
\* cleanup.
LEMMA BrokerLeaves ==
  ASSUME IInv, Leave(Broker)
  PROVE  \/ cgroup = "gone" /\ pc'[Broker] = Exit
         \/ cgroup # "gone" /\ pc'[Broker] = "stopping"
  BY PathFacts DEF IInv, TypeOK, Leave, GoTo

LEMMA InTurnStep ==
  ASSUME IInv, InTurn, [Next]_vars
  PROVE  InTurn'
<1> USE DEF GoTo, SetTodo, known, kernel, verdict, outside
<1>0. /\ pc \in [Processes -> Labels] /\ todo \in [Processes -> Todos]
      /\ Broker \in Processes /\ Recoverers \subseteq Processes
      /\ Broker \notin Recoverers
      /\ Removal \in Todos
  BY NamesAssumption, PathFacts DEF IInv, TypeOK, Processes
<1>1. ASSUME BrokerSteps \/ Crash(Broker) PROVE InTurn'
  <2>1. /\ \A b \in Processes \ {Broker} : pc'[b] = pc[b]
        /\ pc[Broker] \notin {"done", "failed", "dead"} /\ identity' = identity
    BY <1>0, <1>1, OthersStay DEF Acts
  <2>2. \A r \in Recoverers : pc'[r] = "idle"
    BY <1>0, <2>1 DEF InTurn, Ended
  <2> DEFINE Turn == /\ pc[Broker] \in Sinking => cgroup = "full"
                     /\ pc[Broker] \in Removing =>
                          \/ cgroup = "full"
                          \/ cgroup = "gone" /\ todo[Broker] \in {Removal, <<"control">>}
  <2>3. Turn
    BY DEF InTurn, Sinking
  <2>4. SUFFICES Turn'
    BY <2>1, <2>2 DEF InTurn, Sinking
  <2>5. CASE Crash(Broker) \/ CleanupFails
    <3>1. pc'[Broker] \in {"dead", "done", "failed"}
      BY <1>0, <2>5 DEF Crash, CleanupFails, Exit
    <3> QED BY <3>1 DEF Sinking, Removing
  <2>6. CASE \/ Prepare \/ PrepareRefuses \/ Bind \/ BindFails \/ Record
             \/ RecordFails \/ Listen \/ ListenFails
    <3>1. pc[Broker] \in Sinking /\ cgroup' = cgroup
      BY <2>6 DEF Sinking, Prepare, PrepareRefuses, Bind, BindFails, Record,
         RecordFails, Listen, ListenFails
    <3> QED BY <2>3, <3>1
  <2>7. CASE StartCleanup
    BY <1>0, <2>7 DEF StartCleanup, Sinking, Removing
  <2>8. CASE Look \/ Steps(Broker)
    <3>1. pc[Broker] \in Removing /\ cgroup' = cgroup
      BY <2>8 DEF Look, Steps, MoveAside, NothingToMove, MoveFails, Unlink,
         PutBack, SettleFails, Removing
    <3>2. \/ NextPath(Broker, "look")
          \/ pc'[Broker] \in Removing /\ todo' = todo
      BY <1>0, <2>8 DEF Look, Steps, MoveAside, NothingToMove, MoveFails, Unlink,
         PutBack, SettleFails, Removing, PathFails
    <3>3. CASE NextPath(Broker, "look")
      <4>1. CASE cgroup = "full"
        <5>1. pc'[Broker] \in {"look", "stopping"}
          BY <1>0, <3>1, <3>3, <4>1, NextPathFacts, BrokerLeaves DEF Removing, Busy
        <5> QED BY <3>1, <4>1, <5>1
      <4>2. CASE cgroup = "gone" /\ todo[Broker] \in {Removal, <<"control">>}
        <5>1. \/ pc'[Broker] = "look" /\ todo'[Broker] = <<"control">>
              \/ pc'[Broker] \in {"done", "failed"}
          BY <1>0, <3>1, <3>3, <4>2, NextPathFacts, BrokerLeaves
             DEF Removing, Busy, Exit
        <5> QED BY <3>1, <4>2, <5>1 DEF Removing, Sinking
      <4> QED BY <2>3, <3>1, <4>1, <4>2
    <3>4. CASE pc'[Broker] \in Removing /\ todo' = todo
      BY <2>3, <3>1, <3>4 DEF Removing, Sinking
    <3> QED BY <3>2, <3>3, <3>4
  <2> QED BY <1>1, <2>5, <2>6, <2>7, <2>8 DEF BrokerSteps
<1>2. ASSUME NEW r \in Recoverers, RecoverSteps(r) \/ Crash(r) PROVE InTurn'
  <2>1. /\ \A b \in Processes \ {r} : pc'[b] = pc[b]
        /\ identity' = identity
    BY <1>0, <1>2, OthersStay DEF Acts
  <2>2. Ended /\ identity["control"] # None
    <3>1. CASE pc[r] = "idle"
      BY <1>2, <3>1 DEF RecoverSteps, StartRecover, Check, CheckRefuses, Kill,
         RemoveCgroup, Overtaken, CgroupFails, Crash, Steps, MoveAside,
         NothingToMove, MoveFails, Unlink, PutBack, SettleFails, Ended
    <3> QED BY <3>1 DEF InTurn
  <2>3. Ended' /\ identity'["control"] # None
    BY <1>0, <2>1, <2>2 DEF Ended
  <2> QED BY <2>1, <2>3 DEF InTurn, Ended, Removing
<1>3. CASE Identify
  <2>1. /\ pc[Broker] = "serving" /\ identity' = at /\ at["data"] # None
        /\ UNCHANGED <<pc, todo, cgroup>>
    BY <1>3 DEF Identify
  <2>2. \A r \in Recoverers : pc'[r] = "idle"
    BY <2>1 DEF InTurn, Ended
  <2> QED BY <2>1, <2>2 DEF InTurn, Removing
<1>4. ASSUME UNCHANGED <<pc, todo, identity, cgroup>> PROVE InTurn'
  BY <1>4 DEF InTurn, Ended
<1>5. ASSUME NEW q \in Paths, Take(q) \/ \E x \in Foreign : Put(q, x) PROVE InTurn'
  BY <1>4, <1>5 DEF Take, Put
<1>6. CASE UNCHANGED vars
  BY <1>4, <1>6 DEF vars
<1> QED BY <1>1, <1>2, <1>3, <1>5, <1>6, NextCases DEF Acts, Processes

----------------------------------------------------------------------------
(* BrokerCleared                                                            *)

\* The broker's own steps, while no recover child has started.
LEMMA BrokerClears ==
  ASSUME IInv, GoneInv, BrokerSteps \/ Crash(Broker)
  PROVE  BrokerCleared'
<1> USE DEF GoTo, SetTodo, known, kernel, verdict, outside
<1>0. /\ pc \in [Processes -> Labels] /\ todo \in [Processes -> Todos]
      /\ at \in [Paths -> Objects \cup {None}]
      /\ Broker \in Processes /\ Recoverers \subseteq Processes
      /\ Broker \notin Recoverers
      /\ Paths = {"control", "data"}
  BY NamesAssumption, PathFacts DEF IInv, TypeOK, Processes
<1>1. /\ \A b \in Processes \ {Broker} : pc'[b] = pc[b]
      /\ pc[Broker] \notin {"done", "failed", "dead"}
  BY <1>0, OthersStay DEF Acts
<1>2. \A r \in Recoverers : pc'[r] = "idle"
  BY <1>0, <1>1 DEF GoneInv, InTurn, Ended
<1>3. CASE Crash(Broker)
  BY <1>0, <1>3 DEF Crash, BrokerCleared, Removing
<1>4. CASE CleanupFails
  <2>1. pc'[Broker] \in {"done", "failed"} /\ cleanupOk' = FALSE
    BY <1>0, <1>4 DEF CleanupFails, Exit
  <2> QED BY <2>1 DEF BrokerCleared, Removing
<1>5. CASE StartCleanup
  <2>1. pc'[Broker] = "look" /\ todo'[Broker] = Removal
    BY <1>0, <1>5 DEF StartCleanup, IInv, TypeOK
  <2> QED BY <2>1 DEF BrokerCleared, Removed
<1>6. CASE ListenFails
  <2>1. pc'[Broker] = "look" /\ cgroup' = "full"
    BY <1>0, <1>6 DEF ListenFails, GoneInv, InTurn
  <2> QED BY <2>1 DEF BrokerCleared
<1>7. CASE \/ Prepare \/ PrepareRefuses \/ Bind \/ BindFails \/ Record
           \/ RecordFails \/ Listen
  <2>1. pc'[Broker] \in Sinking
    BY <1>0, <1>7 DEF Prepare, PrepareRefuses, Bind, BindFails, Record,
       RecordFails, Listen, Sinking
  <2> QED BY <2>1 DEF BrokerCleared, Removing, Sinking
\* A failure is noted, and nothing more is said.
<1>8. CASE PathFails(Broker)
  <2>1. cleanupOk' = FALSE
    BY <1>8 DEF PathFails
  <2>2. pc'[Broker] # "settle"
    BY <1>0, <1>8 DEF PathFails, NextPath, Leave, Exit
  <2> QED BY <2>1, <2>2 DEF BrokerCleared
<1>9. CASE MoveAside(Broker)
  <2>1. /\ pc[Broker] = "rename" /\ todo' = todo /\ recorded' = recorded
        /\ cgroup' = cgroup /\ cleanupOk' = cleanupOk
        /\ at' = [at EXCEPT ![Path(Broker)] = None]
        /\ pc' = [pc EXCEPT ![Broker] = "settle"]
    BY <1>9 DEF MoveAside
  <2>2. Path(Broker) \in Paths
    BY <1>0, <2>1, HasPath DEF Busy
  <2>3. \A p \in Paths : Clear(p) \/ p = Path(Broker) => Clear(p)'
    BY <1>0, <2>1, <2>2 DEF Clear
  <2> QED BY <1>0, <2>1, <2>2, <2>3 DEF GoneInv, BrokerCleared, Removing, Removed, Path
\* The path is done with: nothing of the broker's stands there.
<1>10. ASSUME pc[Broker] \in Removing, Clear(Path(Broker)),
              NextPath(Broker, "look"), UNCHANGED <<at, recorded, cleanupOk, cgroup>>
       PROVE  BrokerCleared'
  <2>1. CASE cgroup = "full"
    <3>1. pc'[Broker] \in {"look", "stopping"}
      BY <1>0, <1>10, <2>1, NextPathFacts, BrokerLeaves DEF Removing, Busy
    <3> QED BY <1>10, <2>1, <3>1 DEF BrokerCleared
  <2>2. CASE cgroup = "gone" /\ todo[Broker] = Removal
    <3>1. /\ pc'[Broker] = "look" /\ todo'[Broker] = <<"control">>
          /\ Path(Broker) = "data"
      BY <1>0, <1>10, <2>2, NextPathFacts DEF Removing, Busy
    <3>2. Clear("data")'
      BY <1>10, <3>1 DEF Clear
    <3> QED BY <1>0, <3>1, <3>2 DEF BrokerCleared, Removed
  <2>3. CASE cgroup = "gone" /\ todo[Broker] = <<"control">>
    <3>1. /\ pc'[Broker] = Exit /\ <<"control">> = <<Path(Broker)>>
      BY <1>0, <1>10, <2>3, NextPathFacts, BrokerLeaves DEF Removing, Busy
    <3>2. Path(Broker) = "control"
      BY <3>1
    <3>3. cleanupOk => Removed(Broker, "data") /\ Clear("data")
      <4>1. Removed(Broker, "data")
        BY <2>3 DEF Removed, Removal
      <4> QED BY <1>0, <1>10, <2>3, <4>1 DEF GoneInv, BrokerCleared
    <3>4. cleanupOk => \A p \in Paths : Clear(p)'
      BY <1>0, <1>10, <3>2, <3>3 DEF Clear
    <3> QED BY <1>2, <1>10, <3>1, <3>4 DEF BrokerCleared, Removing, Exit
  <2> QED BY <1>10, <2>1, <2>2, <2>3 DEF GoneInv, InTurn
<1>11. CASE Look
  <2>1. pc[Broker] = "look" /\ UNCHANGED <<at, recorded, cleanupOk, cgroup>>
    BY <1>11 DEF Look
  <2>2. CASE Clear(Path(Broker))
    <3>1. NextPath(Broker, "look")
      BY <1>11, <2>2 DEF Look, Clear
    <3> QED BY <1>10, <2>1, <2>2, <3>1 DEF Removing
  <2>3. CASE ~Clear(Path(Broker))
    <3>1. pc' = [pc EXCEPT ![Broker] = "rename"] /\ todo' = todo
      BY <1>11, <2>3 DEF Look, Clear
    <3> QED BY <1>0, <2>1, <3>1 DEF GoneInv, BrokerCleared, Removing, Removed, Clear
  <2> QED BY <2>2, <2>3
<1>12. CASE NothingToMove(Broker)
  <2>1. /\ pc[Broker] = "rename" /\ UNCHANGED <<at, recorded, cleanupOk, cgroup>>
        /\ NextPath(Broker, "look") /\ Clear(Path(Broker))
    BY <1>12 DEF NothingToMove, Clear
  <2> QED BY <1>10, <2>1 DEF Removing
<1>13. CASE Unlink(Broker)
  <2>1. /\ pc[Broker] = "settle" /\ UNCHANGED <<at, recorded, cleanupOk, cgroup>>
        /\ NextPath(Broker, "look")
    BY <1>13 DEF Unlink
  <2>2. Clear(Path(Broker))
    BY <2>1 DEF GoneInv, BrokerCleared
  <2> QED BY <1>10, <2>1, <2>2 DEF Removing
<1> QED
  BY <1>3, <1>4, <1>5, <1>6, <1>7, <1>8, <1>9, <1>11, <1>12, <1>13
     DEF BrokerSteps, Steps, MoveFails, PutBack, SettleFails

LEMMA ClearedStep ==
  ASSUME IInv, GoneInv, [Next]_vars
  PROVE  BrokerCleared'
<1> USE DEF GoTo, SetTodo, known, kernel, verdict, outside
<1>0. /\ pc \in [Processes -> Labels]
      /\ held \in [Processes -> Objects \cup {None}]
      /\ at \in [Paths -> Objects \cup {None}]
      /\ Broker \in Processes /\ Recoverers \subseteq Processes
      /\ Broker \notin Recoverers
  BY NamesAssumption, PathFacts DEF IInv, TypeOK, Processes
<1>1. BrokerCleared
  BY DEF GoneInv
\* A recover child puts back only what it did not find recorded.
<1>2. ASSUME NEW r \in Recoverers, RecoverSteps(r) \/ Crash(r)
      PROVE  BrokerCleared'
  <2>1. /\ \A b \in Processes \ {r} :
             pc'[b] = pc[b] /\ todo'[b] = todo[b] /\ held'[b] = held[b]
        /\ identity' = identity
    BY <1>0, <1>2, OthersStay DEF Acts
  <2>2. /\ (MoveAside(r) \/ PutBack(r) \/ UNCHANGED at) /\ recorded' = recorded
    BY <1>0, <1>2, PathsStay DEF Acts, Processes
  <2>3. cleanupOk' = cleanupOk
    BY <1>0, <1>2 DEF RecoverSteps, StartRecover, Check, CheckRefuses, Kill,
       RemoveCgroup, Overtaken, CgroupFails, Crash, Steps, MoveAside,
       NothingToMove, MoveFails, Unlink, PutBack, SettleFails, PathFails
  <2>4. pc'[Broker] = pc[Broker] /\ Ended
    <3>1. pc[r] = "idle" => Ended
      BY <1>2 DEF RecoverSteps, StartRecover, Check, CheckRefuses, Kill,
         RemoveCgroup, Overtaken, CgroupFails, Crash, Steps, MoveAside,
         NothingToMove, MoveFails, Unlink, PutBack, SettleFails, Ended
    <3> QED BY <1>0, <2>1, <3>1 DEF GoneInv, InTurn
  <2>5. CASE ~(pc[Broker] = "done" /\ cleanupOk)
    BY <2>3, <2>4, <2>5 DEF BrokerCleared, Ended, Removing
  <2>6. CASE pc[Broker] = "done" /\ cleanupOk
    <3>1. /\ \A p \in Paths : Clear(p)
          /\ \A s \in Recoverers : pc[s] = "settle" => held[s] # recorded[Path(s)]
      BY <1>1, <2>6 DEF BrokerCleared
    <3>2. \A s \in Recoverers \ {r} : pc'[s] = "settle" => held'[s] # recorded'[Path(s)']
      BY <1>0, <2>1, <2>2, <3>1 DEF Path
    <3>3. CASE MoveAside(r)
      <4>1. /\ pc[r] = "rename" /\ at[Path(r)] # None /\ todo' = todo
            /\ at' = [at EXCEPT ![Path(r)] = None]
            /\ held' = [held EXCEPT ![r] = at[Path(r)]]
        BY <3>3 DEF MoveAside
      <4>2. Path(r) \in Paths
        BY <1>0, <4>1, HasPath DEF Busy
      <4>3. \A p \in Paths : Clear(p)'
        BY <1>0, <2>2, <3>1, <4>1, <4>2 DEF Clear
      <4>4. held'[r] # recorded'[Path(r)']
        BY <1>0, <2>2, <3>1, <4>1, <4>2 DEF Clear, Path
      <4> QED BY <2>4, <2>6, <3>2, <4>3, <4>4 DEF BrokerCleared, Removing
    <3>4. CASE ~MoveAside(r)
      <4>1. pc'[r] # "settle"
        BY <1>0, <1>2, <3>4, NotSettled DEF Acts
      <4>2. \A p \in Paths : Clear(p)'
        <5>1. CASE at' = at
          BY <2>2, <3>1, <5>1 DEF Clear
        <5>2. CASE PutBack(r) /\ at' # at
          <6>1. pc[r] = "settle" /\ at' = [at EXCEPT ![Path(r)] = held[r]]
            BY <5>2 DEF PutBack
          <6> QED BY <1>0, <2>2, <3>1, <6>1 DEF Clear
        <5> QED BY <2>2, <3>4, <5>1, <5>2
      <4> QED BY <2>4, <2>6, <3>2, <4>1, <4>2 DEF BrokerCleared, Removing
    <3> QED BY <3>3, <3>4
  <2> QED BY <2>5, <2>6
<1>3. CASE Identify
  BY <1>3 DEF Identify, BrokerCleared, Removing
\* An outsider takes away, or puts what was never anywhere.
<1>4. ASSUME NEW q \in Paths, Take(q) \/ \E x \in Foreign : Put(q, x)
      PROVE  BrokerCleared'
  <2>1. /\ UNCHANGED <<pc, todo, held, recorded, cleanupOk, cgroup>>
    BY <1>4 DEF Take, Put
  <2>2. \A p \in Paths : Clear(p) => Clear(p)'
    <3>1. CASE Take(q)
      BY <1>0, <2>1, <3>1 DEF Take, Clear
    <3>2. ASSUME NEW x \in Foreign, Put(q, x) PROVE \A p \in Paths : Clear(p) => Clear(p)'
      <4>1. x \notin put /\ at' = [at EXCEPT ![q] = x]
        BY <3>2 DEF Put
      <4>2. \A p \in Paths : recorded[p] # None => x # recorded[p]
        BY <4>1, NamesAssumption DEF GoneInv, Placed
      <4> QED BY <1>0, <2>1, <4>1, <4>2 DEF Clear
    <3> QED BY <1>4, <3>1, <3>2
  <2>3. pc[Broker] = "settle" => Path(Broker) \in Paths
    BY <1>0, HasPath DEF Busy
  <2> QED BY <1>1, <2>1, <2>2, <2>3 DEF BrokerCleared, Removed, Path
<1>5. CASE UNCHANGED vars
  BY <1>1, <1>5 DEF vars, BrokerCleared, Removed, Path, Clear
<1> QED
  BY <1>2, <1>3, <1>4, <1>5, BrokerClears, NextCases DEF Acts, Processes

----------------------------------------------------------------------------
(* Freed                                                                    *)

\* What a step of somebody else leaves of the knowledge of recover child r.
LEMMA FreedStays ==
  ASSUME IInv, GoneInv, NEW r \in Recoverers, pc[r] # "idle",
         pc'[r] = pc[r], todo'[r] = todo[r], seen'[r] = seen[r],
         UNCHANGED identity, cgroup = "gone" => cgroup' = "gone",
         \A p \in Paths : Free(p) => at'[p] # identity[p]
  PROVE  Freed(r)'
<1>1. Freed(r)
  BY DEF GoneInv
<1>2. pc[r] = "settle" => Path(r) \in Paths
  BY HasPath DEF Busy, Processes
<1> QED BY <1>1, <1>2 DEF Freed, Free, Removed, Path

\* The paths that recover child r finds something at are those it has left.
LEMMA CheckFrees ==
  ASSUME IInv, GoneInv, NEW r \in Recoverers, Check(r), pc[Broker] # "serving"
  PROVE  Freed(r)'
<1> USE DEF GoTo, SetTodo, known, kernel, verdict, outside
<1>0. /\ pc \in [Processes -> Labels] /\ todo \in [Processes -> Todos]
      /\ seen \in [Recoverers -> BOOLEAN]
      /\ r \in Processes /\ Paths = {"control", "data"}
  BY PathFacts DEF IInv, TypeOK, Processes
<1>1. \A p \in Paths : identity[p] # None
  BY <1>0 DEF Check, GoneInv, InTurn
<1>2. /\ seen'[r] = (cgroup # "gone") /\ todo' = [todo EXCEPT ![r] = Present]
      /\ UNCHANGED <<at, identity, cgroup>>
  BY <1>0 DEF Check
<1>3. CASE Present # <<>>
  <2>1. pc'[r] = "rename" /\ todo'[r] = Present
    BY <1>0, <1>2, <1>3 DEF Check
  <2>2. Present \in {Removal, <<"control">>, <<"data">>}
    BY <1>3 DEF Present
  <2>3. ASSUME NEW p \in Paths, Present # Removal, Present # <<p>> PROVE Free(p)
    <3>1. at[p] = None
      BY <1>0, <1>3, <2>3 DEF Present
    <3> QED BY <1>1, <3>1 DEF Free
  <2> QED BY <1>2, <2>1, <2>2, <2>3 DEF Freed, Removed, Free
<1>4. CASE Present = <<>>
  <2>1. at["control"] = None /\ at["data"] = None
    BY <1>4 DEF Present, Removal
  <2>2. pc'[r] = IF seen'[r] THEN "kill" ELSE "done"
    BY <1>0, <1>4 DEF Check
  <2>3. \A p \in Paths : Free(p)'
    BY <1>0, <1>1, <1>2, <2>1 DEF Free
  <2> QED BY <1>2, <2>2, <2>3 DEF Freed
<1> QED BY <1>3, <1>4

LEMMA OwnFrees ==
  ASSUME IInv, GoneInv, NEW r \in Recoverers, RecoverSteps(r) \/ Crash(r)
  PROVE  Freed(r)'
<1> USE DEF GoTo, SetTodo, known, kernel, verdict, outside
<1>0. /\ pc \in [Processes -> Labels] /\ todo \in [Processes -> Todos]
      /\ at \in [Paths -> Objects \cup {None}]
      /\ r \in Processes /\ r # Broker /\ Paths = {"control", "data"}
  BY NamesAssumption, PathFacts DEF IInv, TypeOK, Processes
<1>1. Freed(r)
  BY DEF GoneInv
<1>2. CASE Check(r)
  <2>1. pc[Broker] # "serving"
    BY <1>2 DEF Check, GoneInv, InTurn, Ended
  <2> QED BY <1>2, <2>1, CheckFrees
<1>3. CASE \/ StartRecover(r) \/ CheckRefuses(r) \/ Overtaken(r) \/ CgroupFails(r)
           \/ Crash(r) \/ PathFails(r)
  <2>1. pc'[r] \in {"wait", "failed", "overtaken", "dead"}
    BY <1>0, <1>3 DEF StartRecover, CheckRefuses, Overtaken, CgroupFails, Crash,
       PathFails
  <2> QED BY <2>1 DEF Freed
<1>4. CASE Kill(r) \/ RemoveCgroup(r)
  <2>1. /\ pc[r] \in {"kill", "poll"} /\ UNCHANGED <<at, identity>>
        /\ \/ pc'[r] = "poll"
           \/ pc'[r] = "done" /\ cgroup' = "gone"
    BY <1>0, <1>4 DEF Kill, RemoveCgroup
  <2>2. \A p \in Paths : Free(p)'
    BY <1>1, <2>1 DEF Freed, Free
  <2> QED BY <2>1, <2>2 DEF Freed
<1>5. CASE MoveAside(r)
  <2>1. /\ pc[r] = "rename" /\ pc'[r] = "settle"
        /\ at' = [at EXCEPT ![Path(r)] = None]
        /\ UNCHANGED <<todo, identity, cgroup, seen>>
    BY <1>0, <1>5 DEF MoveAside
  <2>2. Path(r) \in Paths
    BY <1>0, <2>1, HasPath DEF Busy
  <2>3. identity[Path(r)] # None
    BY <1>0, <2>1, <2>2 DEF GoneInv, InTurn
  <2>4. \A p \in Paths : Free(p) \/ p = Path(r) => Free(p)'
    BY <1>0, <2>1, <2>2, <2>3 DEF Free
  <2>5. Path(r)' = Path(r)
    BY <2>1 DEF Path
  <2> QED BY <1>1, <2>1, <2>2, <2>4, <2>5 DEF Freed, Removed
<1>6. CASE Unlink(r)
  <2>1. /\ pc[r] = "settle" /\ NextPath(r, "rename") /\ Path(r) \in Paths
        /\ UNCHANGED <<at, identity, cgroup, seen>>
    BY <1>0, <1>6, HasPath DEF Unlink, Busy
  <2>2. /\ Free(Path(r)) /\ (seen[r] \/ cgroup = "gone")
        /\ todo[r] \in {Removal, <<"control">>, <<"data">>}
        /\ \A p \in Paths : Removed(r, p) => Free(p)
    BY <1>1, <2>1 DEF Freed
  <2>3. CASE todo[r] = Removal
    <3>1. /\ Path(r) = "data" /\ todo'[r] = <<"control">> /\ pc'[r] = "rename"
      BY <1>0, <2>1, <2>3, NextPathFacts DEF Busy
    <3>2. Free("data")' /\ ~Removed(r, "control")'
      BY <2>1, <2>2, <3>1 DEF Free, Removed
    <3> QED BY <1>0, <2>1, <2>2, <3>1, <3>2 DEF Freed
  <2>4. CASE todo[r] = <<"control">> \/ todo[r] = <<"data">>
    <3>1. Leave(r) /\ todo[r] = <<Path(r)>>
      BY <1>0, <2>1, <2>4, NextPathFacts DEF Busy
    <3>2. pc'[r] = IF seen[r] THEN "kill" ELSE "done"
      BY <1>0, <3>1 DEF Leave
    <3>3. ASSUME NEW p \in Paths PROVE Free(p)
      <4>1. CASE p = Path(r)
        BY <2>2, <4>1
      <4>2. CASE p # Path(r)
        <5>1. todo[r] # <<p>> /\ todo[r] # Removal
          BY <3>1, <4>2 DEF Removal
        <5> QED BY <2>2, <5>1 DEF Removed
      <4> QED BY <4>1, <4>2
    <3> QED BY <2>1, <2>2, <3>2, <3>3 DEF Freed, Free
  <2> QED BY <2>2, <2>3, <2>4
<1> QED
  BY <1>0, <1>2, <1>3, <1>4, <1>5, <1>6
     DEF RecoverSteps, Steps, NothingToMove, MoveFails, PutBack, SettleFails

LEMMA FreedStep ==
  ASSUME IInv, GoneInv, [Next]_vars, NEW r \in Recoverers
  PROVE  Freed(r)'
<1> USE DEF GoTo, SetTodo, known, kernel, verdict, outside
<1>0. /\ pc \in [Processes -> Labels] /\ r \in Processes /\ r # Broker
      /\ at \in [Paths -> Objects \cup {None}]
      /\ seen \in [Recoverers -> BOOLEAN] /\ Broker \in Processes
      /\ Paths = {"control", "data"}
  BY NamesAssumption, PathFacts DEF IInv, TypeOK, Processes
<1>1. Freed(r) /\ (pc[r] # "idle" => Ended /\ \A p \in Paths : identity[p] # None)
  BY <1>0 DEF GoneInv, InTurn
<1>2. ASSUME pc'[r] = "idle" PROVE Freed(r)'
  BY <1>2 DEF Freed
<1>3. CASE BrokerSteps \/ Crash(Broker)
  <2>1. pc'[r] = pc[r] /\ ~Ended
    BY <1>0, <1>3, OthersStay DEF Acts, Ended
  <2> QED BY <1>1, <1>2, <2>1
<1>4. ASSUME NEW s \in Recoverers \ {r}, RecoverSteps(s) \/ Crash(s)
      PROVE  Freed(r)'
  <2>1. /\ pc'[r] = pc[r] /\ todo'[r] = todo[r] /\ identity' = identity
        /\ MoveAside(s) \/ PutBack(s) \/ UNCHANGED at
        /\ s # Broker /\ s \in Processes
    BY <1>0, <1>4, NamesAssumption, OthersStay, PathsStay DEF Acts, Processes
  <2>2. seen'[r] = seen[r] /\ (cgroup = "gone" => cgroup' = "gone")
    BY <1>0, <1>4 DEF RecoverSteps, StartRecover, Check, CheckRefuses, Kill,
       RemoveCgroup, Overtaken, CgroupFails, Crash, Steps, MoveAside,
       NothingToMove, MoveFails, Unlink, PutBack, SettleFails
  <2>3. CASE pc[r] = "idle"
    BY <1>2, <2>1, <2>3
  <2>4. CASE pc[r] # "idle"
    <3>1. ASSUME NEW p \in Paths, Free(p) PROVE at'[p] # identity[p]
      <4>1. CASE MoveAside(s)
        BY <1>0, <1>1, <2>4, <3>1, <4>1 DEF MoveAside, Free
      <4>2. CASE PutBack(s)
        <5>1. /\ held[s] # identity[Path(s)]
              /\ at' = at \/ at' = [at EXCEPT ![Path(s)] = held[s]]
          BY <2>1, <4>2 DEF PutBack, Expected
        <5> QED BY <1>0, <3>1, <5>1 DEF Free
      <4> QED BY <2>1, <3>1, <4>1, <4>2 DEF Free
    <3> QED BY <2>1, <2>2, <2>4, <3>1, FreedStays
  <2> QED BY <2>3, <2>4
<1>5. CASE Identify
  <2>1. pc[r] = "idle" /\ pc' = pc
    BY <1>1, <1>5 DEF Identify, Ended
  <2> QED BY <1>2, <2>1
<1>6. ASSUME NEW q \in Paths, Take(q) \/ \E x \in Foreign : Put(q, x)
      PROVE  Freed(r)'
  <2>1. UNCHANGED <<pc, todo, seen, identity, cgroup>>
    BY <1>6 DEF Take, Put
  <2>2. CASE pc[r] = "idle"
    BY <1>2, <2>1, <2>2
  <2>3. CASE pc[r] # "idle"
    <3>1. ASSUME NEW p \in Paths, Free(p) PROVE at'[p] # identity[p]
      <4>1. CASE Take(q)
        BY <1>0, <1>1, <2>3, <3>1, <4>1 DEF Take, Free
      <4>2. ASSUME NEW x \in Foreign, Put(q, x) PROVE at'[p] # identity[p]
        <5>1. x \notin put /\ at' = [at EXCEPT ![q] = x]
          BY <4>2 DEF Put
        <5>2. x # identity[p]
          BY <1>1, <2>3, <5>1, NamesAssumption DEF GoneInv, Placed
        <5> QED BY <1>0, <3>1, <5>1, <5>2 DEF Free
      <4> QED BY <1>6, <4>1, <4>2
    <3> QED BY <2>1, <2>3, <3>1, FreedStays
  <2> QED BY <2>2, <2>3
<1>7. CASE UNCHANGED vars
  BY <1>1, <1>7 DEF vars, Freed, Free, Removed, Path
<1> QED
  BY <1>3, <1>4, <1>5, <1>6, <1>7, OwnFrees, NextCases DEF Acts, Processes

LEMMA GoneInvariance == Spec => []GoneInv
<1>1. Init => GoneInv
  BY NamesAssumption, PathFacts DEF Init, GoneInv, Placed, InTurn, BrokerCleared,
     Freed, Removing, Processes, Ended
<1>2. IInv /\ GoneInv /\ [Next]_vars => GoneInv'
  BY PlacedStep, InTurnStep, ClearedStep, FreedStep DEF GoneInv
<1> QED BY <1>1, <1>2, Invariance, PTL DEF Spec

\* The exit of a broker with 0, and of a recover child, is never a lie: no
\* interleaving of removers and outsiders leaves behind, or puts back, a socket
\* that was to be removed, and no cgroup outlives the success of a recover.
THEOREM SuccessfulRemoval == Spec => []SuccessMeansGone
<1>1. GoneInv => SuccessMeansGone
  BY DEF GoneInv, BrokerCleared, Clear, Freed, Free, SuccessMeansGone
<1> QED BY <1>1, GoneInvariance, PTL

----------------------------------------------------------------------------
(* Peace                                                                    *)

\* A step after which nothing is disturbed is no outsider's, and came from a
\* state in which nothing was.
LEMMA PeaceBefore ==
  ASSUME IInv, GoneInv, PeaceInv, [Next]_vars, Undisturbed'
  PROVE  /\ Undisturbed /\ Peace
         /\ \A p \in Paths : /\ at[p] \in {None, Sock(p)}
                             /\ recorded[p] \in {None, Sock(p)}
                             /\ identity[p] \in {None, Sock(p)}
         /\ \A p \in Paths : ~Take(p) /\ \A x \in Foreign : ~Put(p, x)
<1>1. Undisturbed /\ \A p \in Paths : ~Take(p) /\ \A x \in Foreign : ~Put(p, x)
  <2>1. ASSUME NEW a \in Processes, Acts(a) PROVE Undisturbed
    BY <2>1, OthersStay DEF Undisturbed
  <2>2. ASSUME Identify \/ UNCHANGED vars PROVE Undisturbed
    <3>1. UNCHANGED <<put, taken, faulty>>
      BY <2>2 DEF Identify, vars, outside
    <3> QED BY <3>1 DEF Undisturbed
  <2>3. \A p \in Paths : ~Take(p) /\ \A x \in Foreign : ~Put(p, x)
    BY DEF Take, Put, Undisturbed
  <2> QED BY <2>1, <2>2, <2>3, NextCases
<1> QED BY <1>1 DEF PeaceInv, Undisturbed, GoneInv, Placed

\* The broker finds its paths empty, binds each, and finds its sockets there.
LEMMA BrokerPeace ==
  ASSUME IInv, GoneInv, Peace, Undisturbed', BrokerSteps \/ Crash(Broker),
         \A p \in Paths : /\ at[p] \in {None, Sock(p)}
                          /\ recorded[p] \in {None, Sock(p)}
                          /\ identity[p] \in {None, Sock(p)}
  PROVE  Peace'
<1> USE DEF GoTo, SetTodo, known, kernel, verdict, outside
<1>0. /\ pc \in [Processes -> Labels] /\ todo \in [Processes -> Todos]
      /\ at \in [Paths -> Objects \cup {None}]
      /\ held \in [Processes -> Objects \cup {None}]
      /\ recorded \in [Paths -> Objects \cup {None}]
      /\ Broker \in Processes /\ Recoverers \subseteq Processes
      /\ Broker \notin Recoverers /\ Paths = {"control", "data"}
      /\ \A p \in Paths : Sock(p) # None
      /\ Processes = Recoverers \cup {Broker}
  BY NamesAssumption, PathFacts DEF IInv, TypeOK, Processes
<1>1. /\ \A b \in Processes \ {Broker} : pc'[b] = pc[b]
      /\ pc[Broker] \notin {"done", "failed", "dead"}
      /\ ~faulty'
  BY <1>0, OthersStay DEF Acts, Undisturbed
<1>2. \A r \in Recoverers : pc'[r] = "idle"
  BY <1>0, <1>1 DEF GoneInv, InTurn, Ended
<1>3. cleanupOk /\ ~raised /\ pc[Broker] # "stopping"
  BY DEF Peace, IInv, Falling
\* Once the broker is past its way up, little is left to say.
<1>4. ASSUME cleanupOk', ~raised',
             pc'[Broker] \notin {"failed", "idle", "bind", "record", "listen"},
             pc'[Broker] = "rename" => recorded'[Path(Broker)'] # None,
             pc'[Broker] = "settle" => held'[Broker] = recorded'[Path(Broker)']
      PROVE  Peace'
  BY <1>0, <1>2, <1>4 DEF Peace, Expected
<1>5. CASE Prepare
  <2>1. /\ pc'[Broker] = "bind" /\ todo'[Broker] = <<"control", "data">>
        /\ at' = at /\ \A p \in Paths : at[p] = None
        /\ UNCHANGED verdict
    BY <1>0, <1>5 DEF Prepare
  <2>2. Path(Broker)' = "control"
    BY <2>1 DEF Path
  <2> QED BY <1>0, <1>2, <1>3, <2>1, <2>2 DEF Peace
<1>6. CASE Bind
  <2>1. /\ pc[Broker] = "bind" /\ pc'[Broker] = "record" /\ todo' = todo
        /\ at' = [at EXCEPT ![Path(Broker)] = Sock(Path(Broker))]
        /\ UNCHANGED verdict
    BY <1>0, <1>6 DEF Bind
  <2>2. Path(Broker) \in Paths /\ Path(Broker)' = Path(Broker)
    BY <1>0, <2>1, HasPath DEF Busy, Path
  <2>3. todo[Broker] = <<"control", "data">> => Path(Broker) = "control"
    BY DEF Path
  <2> QED BY <1>0, <1>2, <1>3, <2>1, <2>2, <2>3 DEF Peace
<1>7. CASE Record
  <2>1. /\ pc[Broker] = "record" /\ pc'[Broker] = "listen"
        /\ UNCHANGED <<todo, at, verdict>>
    BY <1>0, <1>7 DEF Record
  <2>2. Path(Broker)' = Path(Broker)
    BY <2>1 DEF Path
  <2> QED BY <1>0, <1>2, <1>3, <2>1, <2>2 DEF Peace
<1>8. CASE Listen
  <2>1. /\ pc[Broker] = "listen" /\ at' = at
        /\ UNCHANGED verdict
        /\ todo[Broker] \in {<<"control", "data">>, <<"data">>}
    BY <1>8 DEF Listen, IInv, Rising
  <2>2. CASE todo[Broker] = <<"data">>
    <3>1. pc'[Broker] = "serving"
      BY <1>0, <1>8, <2>2 DEF Listen
    <3> QED BY <1>3, <1>4, <2>1, <3>1
  <2>3. CASE todo[Broker] = <<"control", "data">>
    <3>1. pc'[Broker] = "bind" /\ todo'[Broker] = <<"data">>
      BY <1>0, <1>8, <2>3 DEF Listen
    <3>2. Path(Broker)' = "data" /\ todo'[Broker] # <<"control", "data">>
      BY <3>1, PathFacts DEF Path
    <3>3. at["data"] = None
      BY <2>1, <2>3 DEF Peace
    <3> QED BY <1>0, <1>2, <1>3, <2>1, <3>1, <3>2, <3>3 DEF Peace
  <2> QED BY <2>1, <2>2, <2>3
\* Nothing makes it refuse or fail.
<1>9. CASE \/ PrepareRefuses \/ BindFails \/ RecordFails \/ ListenFails
           \/ CleanupFails \/ MoveFails(Broker) \/ SettleFails(Broker)
  <2>1. pc[Broker] \in Busy => Path(Broker) \in Paths
    BY <1>0, HasPath
  <2>2. pc[Broker] = "record" => at[Path(Broker)] = Sock(Path(Broker))
    BY DEF Peace
  <2>3. ~PrepareRefuses
    BY DEF PrepareRefuses, Peace
  <2>4. ~BindFails
    BY DEF BindFails, Peace
  <2>5. ~RecordFails /\ ~ListenFails
    BY <1>0, <1>1, <2>1 DEF RecordFails, ListenFails, Peace, Busy
  <2> QED BY <1>1, <1>9, <2>3, <2>4, <2>5 DEF CleanupFails, MoveFails, SettleFails
<1>10. CASE PutBack(Broker)
  BY <1>0, <1>10 DEF PutBack, Peace
<1>11. CASE StartCleanup
  BY <1>0, <1>3, <1>4, <1>11 DEF StartCleanup
<1>12. CASE Crash(Broker)
  BY <1>0, <1>3, <1>4, <1>12 DEF Crash
<1>13. CASE MoveAside(Broker)
  <2>1. /\ pc[Broker] = "rename" /\ pc'[Broker] = "settle"
        /\ at[Path(Broker)] # None /\ held'[Broker] = at[Path(Broker)]
        /\ UNCHANGED <<todo, recorded, verdict>>
    BY <1>0, <1>13 DEF MoveAside
  <2>2. Path(Broker) \in Paths /\ Path(Broker)' = Path(Broker)
    BY <1>0, <2>1, HasPath DEF Busy, Path
  <2>3. recorded[Path(Broker)] = at[Path(Broker)]
    BY <2>1, <2>2 DEF Peace
  <2> QED BY <1>3, <1>4, <2>1, <2>2, <2>3
<1>14. CASE \/ NextPath(Broker, "look") /\ UNCHANGED verdict
            \/ Look
  <2>1. UNCHANGED verdict
    BY <1>14 DEF Look
  <2>2. CASE NextPath(Broker, "look")
    <3>1. pc'[Broker] \in {"look", "stopping", "done"}
      BY <1>0, <1>3, <2>2 DEF NextPath, Leave, Exit
    <3> QED BY <1>3, <1>4, <2>1, <3>1
  <2>3. CASE ~NextPath(Broker, "look")
    <3>1. /\ pc'[Broker] = "rename" /\ UNCHANGED <<todo, recorded>>
          /\ recorded[Path(Broker)] # None
      BY <1>0, <1>14, <2>3 DEF Look
    <3>2. Path(Broker)' = Path(Broker)
      BY <3>1 DEF Path
    <3> QED BY <1>3, <1>4, <2>1, <3>1, <3>2
  <2> QED BY <2>2, <2>3
<1> QED
  BY <1>5, <1>6, <1>7, <1>8, <1>9, <1>10, <1>11, <1>12, <1>13, <1>14
     DEF BrokerSteps, Steps, NothingToMove, Unlink

\* A recover child finds what the row names, or nothing, and the other child
\* does not come between.
LEMMA RecoverPeace ==
  ASSUME IInv, GoneInv, Peace, Undisturbed', NEW r \in Recoverers,
         RecoverSteps(r) \/ Crash(r),
         \A p \in Paths : /\ at[p] \in {None, Sock(p)}
                          /\ recorded[p] \in {None, Sock(p)}
                          /\ identity[p] \in {None, Sock(p)}
  PROVE  Peace'
<1> USE DEF GoTo, SetTodo, known, kernel, verdict, outside
<1>0. /\ pc \in [Processes -> Labels] /\ todo \in [Processes -> Todos]
      /\ at \in [Paths -> Objects \cup {None}]
      /\ held \in [Processes -> Objects \cup {None}]
      /\ Broker \in Processes /\ Recoverers \subseteq Processes
      /\ Broker \notin Recoverers /\ Paths = {"control", "data"}
      /\ \A p \in Paths : Sock(p) # None
  BY NamesAssumption, PathFacts DEF IInv, TypeOK, Processes
<1>1. /\ \A b \in Processes \ {r} :
           pc'[b] = pc[b] /\ todo'[b] = todo[b] /\ held'[b] = held[b]
      /\ identity' = identity /\ ~faulty'
  BY <1>0, OthersStay DEF Acts, Undisturbed
<1>2. pc'[Broker] \in {"done", "failed", "dead"} /\ pc'[Broker] = pc[Broker]
  <2>1. pc[r] = "idle" => Ended
    BY DEF RecoverSteps, StartRecover, Check, CheckRefuses, Kill, RemoveCgroup,
       Overtaken, CgroupFails, Crash, Steps, MoveAside, NothingToMove, MoveFails,
       Unlink, PutBack, SettleFails, Ended
  <2> QED BY <1>0, <1>1, <2>1 DEF GoneInv, InTurn, Ended
\* What the steps have to show: r does not fail, finds something at the paths
\* it has left, and at the others nobody else needs what it moves.
<1>3. ASSUME UNCHANGED verdict, pc'[r] # "failed",
             \A p \in Paths : pc'[r] \in {"rename", "settle"} /\ at'[p] = None
               => Removed(r, p)' \/ (pc'[r] = "settle" /\ p = Path(r)'),
             pc'[r] = "settle" => held'[r] = identity'[Path(r)'],
             at' = at \/ pc[r] \in Busy
      PROVE  Peace'
  <2>1. cleanupOk' /\ ~raised' /\ \A a \in Processes : pc'[a] # "failed"
    BY <1>1, <1>3 DEF Peace
  <2>2. ASSUME NEW s \in Recoverers, NEW p \in Paths,
               pc'[s] \in {"rename", "settle"}, at'[p] = None
        PROVE  Removed(s, p)' \/ (pc'[s] = "settle" /\ p = Path(s)')
    <3>1. CASE s = r
      BY <1>3, <2>2, <3>1
    <3>2. CASE s # r
      <4>1. pc[s] = pc'[s] /\ todo[s] = todo'[s]
        BY <1>0, <1>1, <3>2
      <4>2. at' = at
        BY <1>0, <1>3, <2>2, <3>2, <4>1 DEF IInv, Exclusion, Busy
      <4> QED BY <2>2, <4>1, <4>2 DEF Peace, Removed, Path
    <3> QED BY <3>1, <3>2
  <2>3. ASSUME NEW a \in Processes, pc'[a] = "settle"
        PROVE  held'[a] = Expected(a)'[Path(a)']
    <3>1. a # Broker
      BY <1>2, <2>3
    <3>2. CASE a = r
      BY <1>0, <1>3, <2>3, <3>2 DEF Expected
    <3>3. CASE a # r
      BY <1>1, <2>3, <3>1, <3>3 DEF Peace, Expected, Path
    <3> QED BY <3>2, <3>3
  <2> QED BY <1>2, <2>1, <2>2, <2>3 DEF Peace
<1>4. CASE StartRecover(r) \/ Kill(r) \/ RemoveCgroup(r) \/ Overtaken(r) \/ Crash(r)
  <2>1. /\ pc'[r] \in {"wait", "poll", "done", "overtaken", "dead"}
        /\ UNCHANGED <<at, verdict>>
    BY <1>0, <1>4 DEF StartRecover, Kill, RemoveCgroup, Overtaken, Crash
  <2> QED BY <1>3, <2>1
<1>5. CASE Check(r)
  <2>1. /\ UNCHANGED <<at, verdict>> /\ todo'[r] = Present
        /\ pc'[r] \in {"rename", "kill", "done"}
        /\ pc'[r] = "rename" => Present # <<>>
    BY <1>0, <1>5 DEF Check
  <2>2. ASSUME NEW p \in Paths, at[p] = None, Present # <<>>
        PROVE  Present # Removal /\ Present # <<p>>
    <3>1. <<"control">> # <<"data">> /\ <<"control">> # Removal /\ <<"data">> # Removal
      BY DEF Removal
    <3> QED BY <1>0, <2>2, <3>1 DEF Present
  <2> QED BY <1>3, <2>1, <2>2 DEF Removed
<1>6. CASE MoveAside(r)
  <2>1. /\ pc[r] = "rename" /\ pc'[r] = "settle" /\ UNCHANGED verdict
        /\ at[Path(r)] # None /\ held'[r] = at[Path(r)] /\ todo' = todo
        /\ at' = [at EXCEPT ![Path(r)] = None]
    BY <1>0, <1>6 DEF MoveAside
  <2>2. Path(r) \in Paths /\ Path(r)' = Path(r)
    BY <1>0, <2>1, HasPath DEF Busy, Path
  <2>3. identity[Path(r)] # None
    BY <1>0, <2>1, <2>2 DEF GoneInv, InTurn
  <2>4. held'[r] = identity'[Path(r)']
    BY <1>1, <2>1, <2>2, <2>3
  <2>5. ASSUME NEW p \in Paths, at'[p] = None, p # Path(r) PROVE Removed(r, p)'
    <3>1. at[p] = None
      BY <1>0, <2>1, <2>5
    <3> QED BY <2>1, <3>1 DEF Peace, Removed
  <2> QED BY <1>3, <2>1, <2>2, <2>4, <2>5 DEF Busy
<1>7. CASE Unlink(r)
  <2>1. /\ pc[r] = "settle" /\ NextPath(r, "rename") /\ UNCHANGED <<at, verdict>>
    BY <1>0, <1>7 DEF Unlink
  <2>0. todo[r] \in {Removal, <<"control">>, <<"data">>}
    BY <2>1 DEF GoneInv, Freed
  <2>2. CASE todo[r] = Removal
    <3>1. /\ Path(r) = "data" /\ todo'[r] = <<"control">> /\ pc'[r] = "rename"
      BY <1>0, <2>1, <2>2, NextPathFacts DEF Busy
    <3>2. at["control"] # None /\ Removed(r, "data")'
      <4>1. ~Removed(r, "control") /\ <<"control">> # Removal /\ <<"control">> # <<"data">>
        BY <2>2 DEF Removed, Removal
      <4> QED BY <1>0, <2>1, <3>1, <4>1 DEF Peace, Removed
    <3> QED BY <1>0, <1>3, <2>1, <3>1, <3>2
  <2>3. CASE todo[r] = <<"control">> \/ todo[r] = <<"data">>
    <3>1. pc'[r] \in {"kill", "done"}
      <4>1. Leave(r)
        BY <1>0, <2>1, <2>3, NextPathFacts DEF Busy
      <4> QED BY <1>0, <4>1 DEF Leave
    <3> QED BY <1>3, <2>1, <3>1
  <2> QED BY <2>0, <2>2, <2>3
\* And it has no reason to fail.
<1>8. CASE \/ CheckRefuses(r) \/ CgroupFails(r) \/ NothingToMove(r) \/ MoveFails(r)
           \/ PutBack(r) \/ SettleFails(r)
  <2>1. ~CheckRefuses(r)
    <3>1. pc[r] = "wait" => \A p \in Paths : identity[p] = Sock(p)
      BY <1>0 DEF GoneInv, InTurn
    <3> QED BY <1>1, <3>1 DEF CheckRefuses
  <2>2. ~NothingToMove(r)
    <3>1. SUFFICES ASSUME NothingToMove(r) PROVE FALSE
      OBVIOUS
    <3>2. /\ pc[r] = "rename" /\ at[Path(r)] = None /\ Path(r) \in Paths
          /\ todo[r] \in {Removal, <<"control">>, <<"data">>}
      BY <1>0, <3>1, HasPath DEF NothingToMove, Busy, GoneInv, Freed
    <3>3. ~Removed(r, Path(r))
      BY <3>2 DEF Removed, Path
    <3> QED BY <3>2, <3>3 DEF Peace
  <2>3. ~PutBack(r)
    BY <1>0 DEF PutBack, Peace
  <2> QED BY <1>1, <1>8, <2>1, <2>2, <2>3 DEF CgroupFails, MoveFails, SettleFails
<1> QED BY <1>4, <1>5, <1>6, <1>7, <1>8 DEF RecoverSteps, Steps

LEMMA PeaceStep ==
  ASSUME IInv, GoneInv, PeaceInv, [Next]_vars
  PROVE  PeaceInv'
<1> SUFFICES ASSUME Undisturbed' PROVE Peace'
  BY DEF PeaceInv
<1>1. CASE UNCHANGED vars \/ Identify
  <2>1. UNCHANGED <<pc, todo, held, at, recorded, verdict>>
    BY <1>1 DEF vars, Identify, verdict
  <2>2. \A a \in Processes : pc[a] = "settle" => Expected(a)' = Expected(a)
    <3>1. UNCHANGED vars \/ \A r \in Recoverers : pc[r] = "idle"
      BY <1>1 DEF Identify, GoneInv, InTurn, Ended
    <3> QED BY <2>1, <3>1 DEF vars, Expected, Processes
  <2>3. Peace
    BY PeaceBefore
  <2> QED BY <2>1, <2>2, <2>3 DEF Peace, Removed, Path, verdict
<1>2. CASE ~(UNCHANGED vars \/ Identify)
  BY <1>2, BrokerPeace, RecoverPeace, PeaceBefore, NextCases DEF Acts, Processes
<1> QED BY <1>1, <1>2

\* As long as nobody else touches the paths and no system call fails by
\* itself, the broker and any number of recover children come through without
\* a failure, killed or not.
THEOREM RemoversAgree == Spec => []NoSelfInterference
<1>1. Init => PeaceInv
  BY PathFacts DEF Init, PeaceInv, Peace, Processes
<1>2. PeaceInv => NoSelfInterference
  BY DEF PeaceInv, Peace, Undisturbed, NoSelfInterference
<1> QED BY <1>1, <1>2, PeaceStep, Invariance, GoneInvariance, PTL DEF Spec
=============================================================================
