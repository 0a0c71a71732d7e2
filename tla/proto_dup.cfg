SPECIFICATION Spec
CONSTANTS
    short = short
    long = long
    long2 = long2
    None = None
    CmdSize <- MCCmdSize
    RespSize <- MCLongResp
    ChunkSize = 2
    MaxCycles = 2
    MaxCmds = 0
    MaxResps = 1
    ChanCap = 2
    MaxDups = 0
    MaxReconnects = 0
    AllowAbandon = FALSE
INVARIANT ResponseIntact
