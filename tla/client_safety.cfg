\* Two searches, of three engines and of one, one lost request and one restart.
CONSTANTS
  s1 = s1
  s2 = s2
  e1 = e1
  e2 = e2
  e3 = e3
  Search <- Searches2
  Engines <- ThreeAndOne
  NoSearch = NoSearch
  Garbage = Garbage
  MaxFailures = 1
  MaxRestarts = 1
SPECIFICATION Spec
\* Every tab has its final answer or an error.
CHECK_DEADLOCK FALSE
INVARIANTS
  ShowsItsOwn
PROPERTIES
  ShownOnlyImproves
  FinalShown
