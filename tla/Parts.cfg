SPECIFICATION Spec
CONSTANTS
    Parts = {"registry", "streams", "tags", "tools", "conversion", "bodies", "routing", "admin",
             "transcript", "conversations", "voice", "chat calls", "runtime", "terminals", "bootstrap", "walks",
             "loads", "memory", "debugger"}
    Provider = {"a", "b", "k"}
    Keyless = {"k"}
    Route <- MCRoute
    Request = {1}
    Refresh = {"r"}
    Change = {"c"}
    Threshold = 2
    Cooldown = 1
    Tool = {0, 1}
    Chunks <- MCChunks
    MaxChunks = 3
    Up = {0, 1}
    MaxEvents = 7
    Orderly = TRUE
    Index = {0, 1, 2, 3, 4, 5, 6, 7}
    Kind = {"text", "thinking", "tool_use", "redacted_thinking"}
    Deltaless = {"redacted_thinking"}
    Char = {"<", "/", "t", ">"}
    MaxText = 7
    Piece = {"b", "<f", "f>", "<p", "p>", "sp", "w", "<|", "|>", "web"}
    MaxPieces = 4
    MaxPending = 3
    MaxMessages = 4
    MaxCalls = 3
    Shapes <- MCShapes
    MaxTalk = 4
    AssistantSays <- MCAssistantSays
    UserSays <- MCUserSays
    Supported = {"nim", "router", "local"}
    OpenAI = {"nim"}
    TiersIn <- MCTiersIn
    Configs <- MCConfigs
    Discoveries <- MCDiscoveries
    Strange <- MCStrange
    Apply = {"m", "n"}
    Ask = {"r"}
    Layers <- MCLayers
    Payloads <- MCPayloads
    MaxSaid = 2
    MaxTools = 2
    Indexes = {0}
    Limit = 4
    TextTail = 2
    Modes <- MCModes
    MaxChat = 3
    MaxCommands = 1
    Note = {1, 2}
    MaxClears = 2
    MaxLost = 2
    Turn = {1, 2}
    MaxLives = 2
    MaxTries = 2
    Launcher = {"t1", "t2", "t3"}
    MaxMishaps = 2
    Protected = {"facts"}
    Plain = {"agent"}
    Script = {"stop.py"}
    HookEvent = {"Stop"}
    Foreign = {"Notification"}
    MaxEdits = 2
    Node = {"a", "b", "c", "d"}
    Arc <- MCArc
    Starts <- MCStarts
    MaxDepth = 2
    Loader = {"a"}
    Graphs <- MCGraphs
    Writer = {"p", "q"}
    Fact = {"f", "g"}
    Decision = {"d"}
    MaxLines = 3
    Inode = {1, 2, 3}
    Rounds = 2
    Hook = {"h", "i"}
    Task = {"x", "y"}
INVARIANT StreamsComplete
INVARIANT ParsersSound
INVARIANT RequestsSound
INVARIANT ProxyStateSound
INVARIANT ChatSound
 
PROPERTY RefinesMessageStream
PROPERTY ProxySteps
PROPERTY SidePartsSteps
CHECK_DEADLOCK FALSE
