SPECIFICATION FairSpec
CONSTANTS
  FRAME = 3
  VAD_HOP = 3
  GAP_INSERT_THRESHOLD = 3
  MAX_QUEUED_STT = 6
  MAX_QUEUED_VAD = 2
  MIN_SPEECH = 3
  ENDPOINT_SILENCE = 3
  MAX_ENDPOINT_DELAY = 6
  MAX_DEATHS_WITHOUT_EVENTS = 1
  Gaps = {0, 4}
  Shapes = {"complete", "open"}
  MaxWire = 12
  MaxFaults = 1
  None = None
INVARIANTS  MeteredIsDelivered
PROPERTY SttStopsWithCall
CHECK_DEADLOCK FALSE
