\* Four tasks for two threads: two of them wait, and are taken by two threads, both at once
\* if they like.  With fairness, so without symmetry.
CONSTANTS
  t1 = t1
  t2 = t2
  t3 = t3
  t4 = t4
  Task <- Tasks4
  MaxThreads = 2
  NoThread = NoThread
SPECIFICATION Spec
\* joinAll has returned: the owner goes on elsewhere.
CHECK_DEADLOCK FALSE
INVARIANTS
  TypeOK
  Bounded
  NoIdleSlot
  LaunchedOnce
  JoinedMeansExited
PROPERTIES
  ListStableWhileJoining
  ImplementsSafely
  Implements
