SPECIFICATION FairSpec
CONSTANT MaxActs = 3
INVARIANT FocusBeforeMic
PROPERTIES NoStuckCall 
CHECK_DEADLOCK FALSE
