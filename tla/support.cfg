SPECIFICATION FairSpec
CONSTANTS
  CONTROLLER_ATTACH_ATTEMPTS = 10
  StartLag = 1
  MaxCalls = 3
  MaxVisits = 4
  MaxFaults = 2
  None = None
INVARIANT EndedIsHonest
PROPERTIES EndIsKept ScreenShowsCall
CHECK_DEADLOCK FALSE
