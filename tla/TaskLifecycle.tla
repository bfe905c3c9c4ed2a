--------------------------- MODULE TaskLifecycle ---------------------------
(***************************************************************************)
(* What a shared terminal task is to the people who use it, with nothing   *)
(* of locks, gates, crashes or child processes: a registry row, and a      *)
(* broker that runs only while the row is there.  TaskStore implements it. *)
(***************************************************************************)
CONSTANT Tasks

VARIABLES
  row,       \* what the registry file says of a task
  broker     \* none: never let through its gate

lifecycleVars == <<row, broker>>

LifecycleTypeOK ==
  /\ row \in [Tasks -> {"absent", "starting", "running"}]
  /\ broker \in [Tasks -> {"none", "live", "dead"}]

LifecycleInit ==
  /\ row = [t \in Tasks |-> "absent"]
  /\ broker = [t \in Tasks |-> "none"]

\* How one write of the registry file may change one row: an id is reserved
\* once, promoted only when its broker was let through, never demoted, and
\* dropped only when no broker of it runs.
Reserve(t) == row[t] = "absent" /\ broker[t] = "none" /\ row'[t] = "starting"
Promote(t) == row[t] = "starting" /\ broker[t] # "none" /\ row'[t] = "running"
Drop(t)    == row[t] # "absent" /\ broker[t] # "live" /\ row'[t] = "absent"

WriteRegistry ==
  /\ row' \in [Tasks -> {"absent", "starting", "running"}]
  /\ \A t \in Tasks : row'[t] = row[t] \/ Reserve(t) \/ Promote(t) \/ Drop(t)
  /\ UNCHANGED broker

GoLive(t) ==
  /\ broker[t] = "none" /\ row[t] = "starting"
  /\ broker' = [broker EXCEPT ![t] = "live"]
  /\ UNCHANGED row

\* A broker that is refused at its gate dies without having lived.
Die(t) ==
  /\ broker[t] \in {"none", "live"}
  /\ broker' = [broker EXCEPT ![t] = "dead"]
  /\ UNCHANGED row

LifecycleNext == WriteRegistry \/ \E t \in Tasks : GoLive(t) \/ Die(t)

LifecycleSpec == LifecycleInit /\ [][LifecycleNext]_lifecycleVars
=============================================================================
