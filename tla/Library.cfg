SPECIFICATION Spec
\* A text is a single state, and a connection may be over.
CHECK_DEADLOCK FALSE
CONSTANTS
    PeerMessages <- MCPeerMessages
    AppMessages <- MCAppMessages
    CloseCodes <- MCCloseCodes
    ChunkSize = 2
    MaxMessages = 2
    MaxExtras = 1
    MaxInFlight = 1
    MaxUnread = 0
    MaxControl = 3
    FDs = {1}
    MaxSignals = 2
    Paths = {page}
    MaxAges = {0, 1}
    MaxVersion = 3
    MaxClock = 2
    PlainSockets = {p, q}
    WebSockets = {v, w}
    Handles = {0, 1, 2}
    MaxClients = 1
    IncludePaths = {"head", "foot"}
    CppInclude = "#include"
    RequiredIncludes = {"iostream"}
    Entities <- MCEntities
    Ports <- MCPorts
    TemplateTokens <- MCTemplateTokens
    Files <- MCFiles
    MaxPasses = 6
    Defaults <- MCDefaults
    NumberFields <- MCNumberFields
    Texts <- MCTexts
INVARIANTS
    MessagesInOrder SentInOrder CloseEchoed
    NobodySleepsThrough ServedFresh HandlesOwned
    StringsAgree Utf8Validated TemplatesAgree ConfigLoads FirstRouteDecides
PROPERTIES
    MessagesArrive ReadyReported
