SPECIFICATION FairSpec
CONSTANTS
  s1 = s1
  s2 = s2
  None = None
  Events = {0}
  RegisteredAtStart = {0}
  Senders = {s1}
  Calls = {"registerEvent", "unregisterEvent", "disable", "enableEvent"}
  WaitClear = {TRUE, FALSE}
  numMsgs = 4
  modIndex = 2
  MaxSends = 6
INVARIANTS TypeOK SlotsKept
PROPERTIES ChannelRefinement LineServed
