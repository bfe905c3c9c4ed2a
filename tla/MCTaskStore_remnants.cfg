\* docs/runbook.md:65 does not hold for what a starting row names.
SPECIFICATION Spec
CONSTANTS
  Tasks = {t1}
  Hosts = {h1, h2}
  Names = {n1}
  MaxTasks = 1
  NoHost = NoHost
  NoTask = NoTask
  NoRow = NoRow
INVARIANT SurvivingResourceRetainsRow
