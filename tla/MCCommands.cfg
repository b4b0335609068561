CONSTANTS
    CanonicalUrl <- MCCanonicalUrl
    Weight <- MCWeight
    Words <- MCWords
    Requests <- MCRequests
    WebPages <- MCWebPages
    NewsPages <- MCNewsPages
    AgentOps <- MCAgentOps
    Nums <- MCNums
    SessionRetries = 1
    Retries = 1
    Runs <- MCRuns
    SubOutputs <- MCSubOutputs
    DeepOps <- MCDeepOps
    HttpPages <- MCHttpPages
    HttpRetries = 2
    MaxPages = 3
    AllowLite = TRUE
    Editors = {1, 2}
    Jobs <- MCJobs
    Origins <- MCOrigins
    CommandLines <- MCCommandLines
    NormalForm <- MCNormalForm
    MaxQueries = 3
    TargetKind <- MCTargetKind
    OfficialSite = 7
    MaxRows = 2
    Documents <- MCDocuments
    Loads <- MCLoads
    Inspections <- MCInspections
    InspectBodies <- MCInspectBodies
    HostChromes = {0, 12, 20}
    Hosts <- MCHosts
    Launches <- MCLaunches
    Deliveries <- MCDeliveries
SPECIFICATION Spec
INVARIANTS
    TypeOK NoBrowserLeft  
     GateHonest MergeFaithful  FilesKept  
PROPERTIES
    PageNotForgotten CommandEnds
\* An invocation ends.
CHECK_DEADLOCK FALSE
