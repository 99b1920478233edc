SPECIFICATION FairSpec
CONSTANTS
  s1 = s1
  s2 = s2
  t1 = t1
  None = None
  Events = {0, 1}
  Senders = {s1, s2}
  Tasks = {t1}
  NoWaitClear = {1}
  MayTimeout = FALSE
  Registrable = {}
  Switchable = {}
  ChartAtStart <- LineChart
  MaxSends = 3
  MaxNesting = 2
PROPERTIES ChannelRefinement SendsServed
