\* Three processors of which the first owns region 0 attach and detach, with one failure.
SPECIFICATION FairSpec
CONSTANTS
    NumProcs = 3
    Owner = 0
    Stages <- MCStages
    Modes = {"ALL", "PAIR"}
    Sessions = 2
    MaxAttached = 2
    MaxFailures = 1
    Null = Null
INVARIANTS MemoryIsSound PeerIsReady
PROPERTIES AllReturn
\* A processor may stop after its last session.
CHECK_DEADLOCK FALSE
