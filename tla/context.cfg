SPECIFICATION PromptSpec
CONSTANTS
    Routes = {"pay", "help"}
    Excluded = {"help"}
    Labels <- TwoLabels
    Long = {"row"}
    Faces <- TwoFaces
    MaxActs = 3
    MaxFaults = 1
    None = None
    Texts <- MCTexts
    Chars <- MCChars
    Escapes <- MCEscapes
    Suspect = {"decoy"}
    Slugs = {"a", "b"}
    Editions <- MCEditions
    Sessions = {"s1", "s2", "s3"}
    Owner <- MCOwner
    SummaryText <- MCSummaryText
    IssueText <- MCIssueText
    Similarity <- MCSimilarity
    Identity <- MCIdentity
    MaxSeeds = 2
    Past = {"s1"}
    MaxLosses = 1
    Null = Null
INVARIANTS
    NoFabrication LosslessIsInSync
    KnowledgeIsWhole SummaryOutlivesEmbedding 
PROPERTY RequestHeals
CHECK_DEADLOCK FALSE
