CONSTANTS
    Fds = {1, 2}
    EventCap = 2
    FlagSets = {{"WRITE"}, {"READ", "WRITE"}}
    MaxGuards = 1
    UserTypes = {"epoll"}
    SockTypes = {0, 1, 2, 16, 18, 30}
    SockUser = {16, 18}
    SockFds = {0, 1}
    Peers = {"p", "q"}
    Backlogs = {5, 20}
    MaxSid = 3
    MaxConns = 1
    Mods = {"a", "b", "c"}
    DependsOf <- Graphs
    FaultsOf <- FaultyFiles
    MaxRefcnt = 3
    modules_conf <- Conf
    ElfNames = {0, 7}
    ElfValues <- SymbolValues
    MaxSymbols = 2
    OBJ_MAX = 3
    RefMod = 8
    Procs = {"p", "q"}
    ShmNames = {"x", "y", "z"}
    Creator <- CreatorOf
    CapOf <- Sizes
    MaxShmOps <- Calls
    ARCH_MAX = 3
    Execs = {"e", "f"}
    MaxServices = 3
    MaxRuns = 5
SPECIFICATION Spec
CHECK_DEADLOCK FALSE
INVARIANTS
    
    SocketBooksRight
    LoaderKeepsOrder
    ElfReadsExactly
    
    
PROPERTIES
    SocketStepsRight
    LoaderUnloadsSafely
    ShmDestroysItsOwn
