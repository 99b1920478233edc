SPECIFICATION FairSpec
CONSTANTS
    s1 = s1  s2 = s2  e1 = e1  c1 = c1
    a1 = a1  a2 = a2  a3 = a3  a4 = a4  l1 = l1  b1 = b1  b2 = b2  b3 = b3
    Num = 2
    Width = 4
    Messages = {a1, a2, a3, a4, l1, b1, b2, b3}
    NoMsg = NoMsg
    NoToken = NoToken
    Senders = {s1, s2}
    Sends <- MCSends
    Endpoints = {e1}
    Callbacks = {c1}
    dstEndpt <- MCDstEndpt
    ToHost = {a1, a2, a3, a4}
    Unknown = {a2}
    FromHost = {b1, b2, b3}
    Loads = {{a1, a2, a3}, {b1, b2, b3}, {a1, b1}, {b1, l1}}
    HeapBlocks = 1
    MboxSize = 4
    MaxDeletes = 1
    Asserts = FALSE
    DeleteLoads = {{a1, b1}, {b1, l1}}
CHECK_DEADLOCK FALSE
INVARIANTS BuffersConserved RecvFindsPayload
PROPERTIES ImplementsChannel Delivered
