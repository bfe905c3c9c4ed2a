\* Two tasks, two hosts, every fault at every step.
SPECIFICATION Spec
CONSTANTS
  Tasks = {t1, t2}
  Hosts = {h1, h2}
  Names = {n1, n2}
  MaxTasks = 2
  NoHost = NoHost
  NoTask = NoTask
  NoRow = NoRow
CONSTRAINTS RowsStayOpen OneBrokerMoves
SYMMETRY Interchangeable
INVARIANT RegistryReadable
PROPERTY OnlyOwnRowChanges
