\* Every kind of script and every mishap; the timer and the main thread are fair.
SPECIFICATION FairSpec
CONSTANTS
  Kinds = {"periodic", "oneshot", "background"}
  SplitFlags = TRUE
  SlowChild = TRUE
  ForkFails = TRUE
  MaxTimers = 3
INVARIANTS TimersSound ArmedAsEnabled ChildRecorded LeakBounded
PROPERTIES EnabledRuns
