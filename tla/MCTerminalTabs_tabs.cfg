SPECIFICATION Spec
CONSTANTS
  Tasks = {t1}
  NumTabs = 2
  MaxUser = 2
  MaxRemote = 1
  None = None
INVARIANTS TypeOK NoDeadTabMapped OnlyUserClosesArePublished UserCloseIsPublished
PROPERTIES WindowFollowsRegistry
CHECK_DEADLOCK FALSE
