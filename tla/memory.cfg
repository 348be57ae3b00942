SPECIFICATION Spec
CONSTANTS
  FIRST_FOLD_TURN = 2
  FOLD_INTERVAL = 1
  WINDOW_TURNS = 1
  MAX_BUFFERED_TURNS = 2
  MAX_TRANSCRIPT_TURNS = 4
  MAX_OPEN_ISSUES = 2
  END_RETRY_ATTEMPTS = 2
  Issues = {i1, i2, i3}
  MaxTurns = 3
  MaxMedia = 1
  MaxRounds = 1
  MaxConfirmed = 2
  MaxFaults = 2
  None = None
INVARIANTS NothingForgotten MoneyAddsUp
PROPERTIES SummaryAdvances ProfileKeepsIssues
CHECK_DEADLOCK FALSE
