SPECIFICATION Spec
CONSTANTS
    Parts = {"decoder", "normalizers", "sessions", "context", "analysis", "transfer",
             "retention", "schema", "blobs", "journal"}
    MaxText = 7
    FrameLimit = 5
    CountLimit = 2
    ChatData <- MCChatData
    ResponsesData <- MCResponsesData
    AnthropicData <- MCAnthropicData
    Identities = {"absent", "one"}
    Recordings <- MCRecordings
    WholeBodies <- MCBodies
    MaxFrames = 3
    Signals <- MCSignals
    Answers = {"q", "r"}
    IdleWindow = 1
    MaxTime = 2
    MaxRequests = 3
    MaxRestarts = 1
    Turns <- MCTurns
    MaximumDepth = 2
    MaxTurns = 3
    SessionEvents <- MCEvents
    MaximumCandidates = 2
    MaxEvents = 3
    MaxJobs = 2
    MaxPutFailures = 1
    Homes = {"home"}
    HomeOf <- MCHomeOf
    Held = {"x1", "x2"}
    HolderOf <- MCHolderOf
    BodyOf <- MCBodyOf
    TargetOf <- MCTargetOf
    Moved = {"s1", "s2"}
    Imports = {"i1"}
    MaxArchives = 1
    Kept = {"s1", "s2", "a1"}
    Analyses = {"a1"}
    Limits = {5}
    Openers = {"o1", "o2"}
    Builds = {3, 6}
    Databases <- MCDatabases
    MaxExchanges = 1
    Processes = {"daemon", "wrapper"}
    Puts = {"d1", "d2", "w1"}
    ProcessOf <- MCProcessOf
    BlobContents = {"x", "y1", "y2", "y3"}
    PutContents <- OwnContents
    External = {"x", "y1"}
    Limited = {"daemon"}
    MaxStored = 1
    Uses <- AllUses
    RunSessions = {"r"}
    ProxySessions = {"p"}
    Exchanges = {"x1", "x2"}
    SessionOf <- MCSessionOf
    Normalized <- MCNormalized
    NoExchange = "none"
    MaxRecords = 1
INVARIANTS
    SplitsAreInvisible
    CallsAreAssembledOnce
    DamageIsVisible
    AnalysisStaysApart
    
    IdleClientsStartAnew
    CompleteMeansLinked
    
    AnswersAgree
    
    ImportsAreSnapshots
    OpenJobIsRecording
    RowsAreReadable
    
PROPERTIES
    DeletionsKeepThePreview
    
CHECK_DEADLOCK FALSE
