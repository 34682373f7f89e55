\* Questions in conversations.
CONSTANTS
    Parts = {"ask"}
    Entities = {"e1", "e2", "e3"}
    Docs = {"v1", "v2", "v3"}
    LinkedDocs = {"v1"}
    Assessments = {}
    Names = {"n1"}
    Spans = {"p1"}
    EdgeIds = {1, 11, 12, 13}
    CitedEdges = {12}
    EdgeChoices <- MCEdges
    StartRows <- MCStart
    MaxRequests = 1
    MaxMerges = 2
    Files = {f1, f2}
    FileRequests = {q1, q2, q3}
    NoFile = NoFile
    Clients = {"10.0.0.1"}
    Keys = {k1, k2}
    Calls = {c1, c2}
    Limit = 1
    Retention = 1
    Lifetime = 1
    MaxMinute = 2
    MaxCalls = 2
    NoKey = NoKey
    CacheKeys <- MCCacheKeys
    CacheTtl = 1
    MaxEntries = 2
    MaxClock = 4
    Objects = {"o1", "o2"}
    Catalog <- MCCatalog
    None = None
    Cases <- MCCases
    Conversations = {"c1"}
    Questions <- MCQuestions
    PackSize = 2
    MaxAsks = 1
    MaxEdits = 2
    MaxPieces = 6
    TrackedPasses = {"parse", "draft", "load"}
    Reporters = {"r1"}
    Slugs = {"a", "b", "c"}
    Packs <- MCPacks
    Databases <- MCDatabases
    MaxSeeds = 4
    Order <- MCOrder
    Source <- MCSource
    Projects <- MCProjects
    Matrices <- MCMatrices
    Shapes <- MCShapes
    Answers <- MCAnswers
    Decisions <- MCDecisions
    FoundEdges <- MCFoundEdges
    Filters = {{"a"}, {"a", "b", "c"}}
    MaxCommands = 3
    MaxCrashes = 1
SPECIFICATION Spec
INVARIANT TurnRemembered

CHECK_DEADLOCK FALSE
