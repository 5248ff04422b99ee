\* dumpToDisk against its comment.
CONSTANTS
  i1 = i1
  i2 = i2
  c1 = c1
  c2 = c2
  c3 = c3
  alice = alice
  bob = bob
  m1 = m1
  m2 = m2
  m3 = m3
  Id <- Ids2
  Cookie <- Cookies3
  Name <- Names2
  Object <- Objects3
  NULL = NULL
  Nobody = Nobody
  NoSearch = NoSearch
SPECIFICATION Spec
PROPERTIES
  DeletedIsOnDisk
