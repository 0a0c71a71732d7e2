SPECIFICATION FairSpec
CONSTANTS
    short = short
    long = long
    long2 = long2
    None = None
    CmdSize <- MCCmdSize
    RespSize <- MCLongResp
    ChunkSize = 2
    MaxCycles = 2
    MaxCmds = 3
    MaxResps = 0
    ChanCap = 3
    MaxDups = 1
    MaxReconnects = 1
    AllowAbandon = FALSE
INVARIANT TypeOK
PROPERTY CommandStream CommandsDrain
