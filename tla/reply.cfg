SPECIFICATION ReplySpec
CONSTANTS
  Indices = {0, 1, 2}
  Ids = {p, q}
  Chars = {"1", ".", " "}
  MAX_TOOL_CALL_INDICES = 2
  MAX_ARGUMENT_PARTS = 2
  MAX_REPLY_CHARS = 4
  MAX_SENTENCE_CHARS = 3
  MaxChunks = 4
  Absent = Absent
INVARIANTS ReplyReachesCaller
PROPERTY StreamsAreClosed
CHECK_DEADLOCK FALSE
