\* Two pages, API calls at any time, and everything unusual.
SPECIFICATION FairSpec
CONSTANTS
  x1 = x1
  x2 = x2
  g1 = g1
  g2 = g2
  NoPage = NoPage
  Plugins = {x1}
  Pages = {g1, g2}
  Circumstances = {"overlap", "quick reload", "enable twice", "race"}
  MaxLeaves = 1
  MaxCalls = 1
INVARIANTS DisplaySeen CountAgrees
PROPERTIES UndisturbedStopEnds PagesGetPlugins
\* The daemon stops or crashes.
CHECK_DEADLOCK FALSE
