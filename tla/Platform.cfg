SPECIFICATION PlatformSpec
CONSTANTS
    Scheduled = {"cron"}
    Operators = {"op"}
    Sources <- MCSources
    KeepDays = 1
    LastDay = 2
    MaxArtifacts = 2
    MaxWrites = 1
    MaxBackupFaults = 1

    Requests = {"q1", "q2", "q3"}
    Route <- MCRoute
    Spent <- MCSpent
    Slugs = {"none", "pro"}
    DailyLimit <- MCDailyLimit
    ChatRetries = 1
    LastChatDay = 1
    MaxChatFaults = 2

    Servers = {"s1", "s2"}
    Providers <- MCProviders
    Models = {"m1"}
    Preferred = "gemini"
    MaxStamp = 3

    Pids = {1, 2}
    BeatInterval = 1
    MaxAge = 3
    Lag = 1
    LastTick = 7

    Callers = {"a"}
    PerWindow = 2
    WindowLength = 2
    LastSecond = 6

    Chunks <- MCChunks
    Contexts <- MCContexts
    Multiplier = 2
    RrfK = 1
    VectorWeight = 1
    LexicalWeight = 1
    MaxChanges = 1

    Lines <- MCLines
    AgentSteps <- MCSteps
    TenantId = 1
    MaxQuery = 2
    MaxTopK = 2
    MaxLines = 3
    MaxSteps = 1

    AnswerQuestions <- MCAnswerQuestions
    Registered <- MCRegistered
    Deployment = {"deepseek"}
    LLMProvider = "gemini"
    UserSettings <- MCUserSettings
    MaxRetry = 2
    Mentions <- MCMentions
    MaxTurns = 2

    Documents <- MCDocuments
    ChunkSize = 7
    Overlap = 2
    MinMerged = 4
    MinIndexable = 2
    OcrMinChars = 2

    PdfNames = {"a.pdf", "b.pdf", "C.PDF"}
    UpperNames = {"C.PDF"}
    PdfContents = {"x", "y", "unreadable"}
    Refreshers = {"r1", "r2"}
    PrivateIds = {"p"}
    LegacyIds = {"l"}
    MaxReleases = 1
    MaxKnowledgeFaults = 1

    Corpora <- MCCorpora
    TrainConfigs <- MCTrainConfigs
    Installed = {"torch", "transformers", "datasets", "peft", "accelerate", "trl"}
    Losses <- MCLosses
    MaxRuns = 2
    MaxEdits = 1
CHECK_DEADLOCK FALSE
INVARIANTS
    PlatformTypeOK
    RetainedRestorable RestoreSafe BilledOnce RevisionIdentifies HealthTruthful
    BoundedBurst RetrievalSound ToolGoverned TurnIsolated CallsJustified ChunksFaithful
    KnowledgeKept PromotionEarned
