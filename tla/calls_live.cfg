CONSTANTS
    None = None
    Conns = {c1}
    MaxTokens = 2
    MaxDeletes = 2
    Attempts = 3
    Faults = {"setup", "brain", "blip"}
SPECIFICATION FairSpec
PROPERTY TeardownEnds
