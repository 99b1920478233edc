SPECIFICATION FairSpec
CONSTANTS
    p0 = p0  p1 = p1  t0 = t0  r1 = r1  w1 = w1
    n1 = n1  h1 = h1  h2 = h2  u1 = u1
    creator = p0  opener = p1
    Procs = {p0, p1}
    Tasks = {t0, r1, w1}
    home <- MCHome
    Readers = {r1}
    Sends <- MCSends
    ShutDown = {p1}
    NormalPri = {n1}
    HighPri = {h1, h2}
    UrgentPri = {u1}
    queueId <- MCQueueId
    NoMsg = NoMsg
    NoPath = NoPath
    None = None
CHECK_DEADLOCK FALSE
INVARIANTS MessagesAccounted
PROPERTIES ImplementsChannel NoWakeUpLost
