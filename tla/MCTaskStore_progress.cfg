\* Progress of brokers and hosts: under unlimited faults, and once they stop.
SPECIFICATION RunningSpec
CONSTANTS
  Tasks = {t1}
  Hosts = {h1, h2}
  Names = {n1}
  MaxTasks = 1
  NoHost = NoHost
  NoTask = NoTask
  NoRow = NoRow
PROPERTIES GateAnswered LockReleased DeadStartingRowSettles DeleteSucceeds
