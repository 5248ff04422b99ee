\* One query, three addresses and the empty one, three urls, room for two rows.
CONSTANTS
  a1 = a1
  a2 = a2
  a3 = a3
  u1 = u1
  u2 = u2
  u3 = u3
  Address <- Addresses3
  NoAddress = NoAddress
  Url <- Urls3
  Limit = 2
  MaxQueries = 1
  MaxRows = 2
  MaxLinks = 2
SPECIFICATION Spec
\* The parsing ends.
CHECK_DEADLOCK FALSE
INVARIANTS
  ReturnsFindings
  NoPageTwice
  StopsOnlyWhenExhausted
  CountedPagesBringRows
PROPERTIES
  Termination
