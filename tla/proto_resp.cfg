SPECIFICATION Spec
CONSTANTS
    short = short
    long = long
    long2 = long2
    None = None
    CmdSize <- MCShortCmd
    RespSize <- MCRespSize
    ChunkSize = 2
    MaxCycles = 2
    MaxCmds = 1
    MaxResps = 2
    ChanCap = 2
    MaxDups = 1
    MaxReconnects = 1
    AllowAbandon = TRUE
INVARIANTS NoResponseChunkLost ReassemblyConsistent
