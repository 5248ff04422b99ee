\* Three engines for two threads, each with up to two of the same two urls.
CONSTANTS
  e1 = e1
  e2 = e2
  e3 = e3
  u1 = u1
  u2 = u2
  Engine <- Engines3
  Url <- Urls2
  Limit = 2
  MaxThreads = 2
  NoEngine = NoEngine
  Garbage = Garbage
SPECIFICATION Spec
\* The search is over and deleted.
CHECK_DEADLOCK FALSE
INVARIANTS
  ResultsAreMerge
  FinalIsComplete
  NoLostWakeup
  NoThreadAfterDelete
PROPERTIES
  ResultsOnlyImprove
  FinalAnswer
