\* One task, three hosts, every fault at every step.
SPECIFICATION Spec
CONSTANTS
  Tasks = {t1}
  Hosts = {h1, h2, h3}
  Names = {n1, n2}
  MaxTasks = 1
  NoHost = NoHost
  NoTask = NoTask
  NoRow = NoRow
SYMMETRY Interchangeable
INVARIANTS BrokerHasRow IdentityWasServed ServingBrokerIntact IInv
PROPERTIES IdentifiedRemovalIsClean ImplementsLifecycle
