CONSTANTS
    MaxUtt = 2
    MaxSentences = 1
    MaxAudio = 1
    Debounce = 1
    SameTick = FALSE
SPECIFICATION FairSpec
INVARIANTS  QueueFollowsReply CaptionIsWhatWasHeard
PROPERTIES WireFollowsDiagram InterruptedStaysSilent TurnsEnd HangUpReachesFinally
