SPECIFICATION Spec
CONSTANTS
  Tasks = {t1}
  NumTabs = 3
  MaxUser = 1
  MaxRemote = 0
  None = None
PROPERTY ProfileTabComesFirst
CHECK_DEADLOCK FALSE
