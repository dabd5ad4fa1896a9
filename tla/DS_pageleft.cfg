\* A page is closed, then the daemon is stopped.
SPECIFICATION FairSpec
CONSTANTS
  x1 = x1
  x2 = x2
  g1 = g1
  g2 = g2
  NoPage = NoPage
  Plugins = {x1}
  Pages = {g1}
  Circumstances = {}
  MaxLeaves = 1
  MaxCalls = 0
PROPERTIES StopEnds
\* The daemon stops or crashes.
CHECK_DEADLOCK FALSE
