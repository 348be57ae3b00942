CONSTANTS
    None = None
    Conns = {c1, c2}
    MaxTokens = 2
    MaxDeletes = 1
    Attempts = 2
    Faults = {}
SPECIFICATION Spec
PROPERTY EndedLedgerIsFinal
