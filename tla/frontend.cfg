SPECIFICATION FrontSpec
CONSTANTS
    EdTopics <- EMTopics
    EdCounts = {1, 2}
    EdCap = 2
    EdKeys = 3
    BpTexts = {1, 2}
    BpSaves = 3
    BpLoads = 1
    RtMax = 2
    RtRuns = 3
    RtJumps = 2
    RtKeys = 1
    XpRows = 2
    XpExports = 2
    XpThreshold = 1
    XpKeys = 2
    KmKeys <- KMKeys
    KmDefaults <- KMDefaults
    KmConfigs <- KMConfigs
    KmPresses = 4
    GrRowPool <- GMPool
    GrQueries <- GMQueries
    GrSizes <- GMSizes
    GrTopics <- GMTopics
    GrLoaded <- GMLoaded
    GrRemembered <- GMRemembered
    GrClicks <- GMClicks
    GrMinWidth = 2
    GrMaxWidth = 3
    ColSepWidth = 1
    AutoSizeSampleRowCount = 2
    ResultPageSize = 4
    PrefetchThreshold = 2
    GrCols = 3
    GrMaxRows = 4
    GrOps = 3
    CmPrograms = {1, 2}
    CmFiles <- CMFiles
    CmEdits <- CMEdited
    CmTopics <- CMMixes
    CmTyped = {"", "a", "c", "bad"}
    CmDSNs = {"", "bad", "d"}
    CmAttempts = 2
    FpNames <- FMNames
    FpHiddenNames = {".h"}
    FpSize <- FMSize
    FpTime <- FMTime
    FpFS <- FMTrees
    FpStarts <- FMStarts
    FpQueries <- FMQueries
    FpMaxMatches = 2
    FpHeight = 2
    FpKeys = 5
    PpWalks = 2
    PpSecrets = 2
    PpAsks = 2
    PpDeletes = 1
    PpNames = {"q", "r"}
    PpFile <- PMFile
    PpProtected = {"prod", "live"}
    PpProfiles = {"prod", "dev", "live"}
    PpTopics <- PMMixes
    DgConn <- DMConn
    DgTable <- DMTable
    DgCells <- DMCells
    DgTopics <- DMBudgets
    DgProtected = {"A"}
    DgReadOnly = {}
    RpTable <- RMTable
    RpCells <- RMCells
    RpForward <- RMForward
    RpReverse <- RMReverse
    RpTopics <- RMBudgets
    RpKeyed = {"t1"}
    RpMaxRels = 1
    StTabs <- SMTabs
    StDefaults <- SMDefaults
    StIds <- SMIds
    StQuit = "quit"
    StNop = "<nop>"
    StFile <- SMFile
    StTopics <- SMBudgets
    StKeys = {"q", "r", "bad"}
    StGood = {"q", "r"}
    StTexts = {"a", "1", "bad"}
    SqlKeywords = {"SELECT", "FROM", "JOIN", "ON"}
    SqlLower = {"order"}
    CpTexts <- LMTexts
    CpRunes = {"u", ".", " "}
    CpSchema <- LMSchema
    CpTables <- LMTables
    CpColumns <- LMColumns
    CpForeign <- LMForeign
    CpFunctions <- LMFunctions
    CpSnippets <- LMSnippets
    CpHistory <- LMHistory
    CpLetters <- LMLetters
    CpVisible = 3
    CpTopics <- LMBudgets
    PvDocs <- VMDocs
    PvKeys <- VMKeys
    ErStatements <- XMStatements
    ErPresses = 2
    ErCommands = 3
INVARIANTS
    FrontBuffers
    FrontResults
    FrontKeys
    FrontGrid
    FrontConnections
    FrontPrompts
    FrontDialogs
    FrontRelations
    FrontSettings
    FrontCompletion
    FrontPlans
CHECK_DEADLOCK FALSE
