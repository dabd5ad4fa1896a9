\* Two connections at a time, messages beyond the ring, one CSS attribute.
SPECIFICATION FairSpec
CONSTANTS
  Clients = {c1, c2, c3}
  Externs = {e1, e2}
  Attrs = {left}
  Values = {v}
  Blank = Blank
  None = None
  Slots = 2
  MaxCalls = 4
INVARIANTS SocketsSound ShowsStoredStyle
PROPERTIES SavedStaysSaved EnabledIsShown
\* Nothing may be left to do, and a crashed daemon does nothing.
CHECK_DEADLOCK FALSE
