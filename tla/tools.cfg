SPECIFICATION WalletSpec
CONSTANTS
    Asks <- TwoAsks
    RestAsks <- OneAsk
    Limits = {1, 2, 3}
    FirstLimit = 1
    MaxRounds = 2
    MaxBatch = 1
    MaxTurns = 3
    MaxCalls = 2
    MaxIds = 2
    MaxRest = 1
    Words = {"yes", "other"}
    Faults = {"redis", "db", "audit", "kill", "llm"}
    Requests = {1, 2, 3, 4, 5}
    Merchants = {"m1", "m2", "m3"}
    Payer <- MCPayer
    Amount <- MCAmount
    HasWallet = {"m1", "m2"}
    HasLimit = {"m1", "m3"}
    Balance0 <- MCBalance
    Limit <- MCLimit
    Used0 <- MCUsed
    MaxFailures = 1
    Nobody = Nobody
    Callers = {c1, c2, c3}
    RateLimit = 2
    WindowSize = 3
    MaxLag = 1
    MaxClock = 7
    MaxOutages = 1
    Unset = Unset
INVARIANTS
    DecisionIsSpent
    PaymentsSettle
    AnswerIsBacked
    AdmissionIsFair
PROPERTIES
    GateConfirms
    
    OpenRequestStands
    TurnIsAnswered
CHECK_DEADLOCK FALSE
