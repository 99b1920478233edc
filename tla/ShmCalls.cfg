SPECIFICATION FairSpec
CONSTANTS
  s1 = s1
  s2 = s2
  t1 = t1
  None = None
  Events = {0, 1, 2}
  Senders = {s1, s2}
  Tasks = {t1}
  NoWaitClear = {}
  MayTimeout = TRUE
  Registrable = {1}
  Switchable = {0}
  ChartAtStart <- CallsChart
  MaxSends = 2
  MaxNesting = 0
INVARIANTS ExecHasCallback DriverConsistent ExecutedOnceInOrder DisabledStaysSilent
PROPERTIES InterruptServesEvent
