\* A plugin reloaded while its page is connected.
SPECIFICATION FairSpec
CONSTANTS
  Clients = {c1, c2}
  Externs = {e1}
  Attrs = {left}
  Values = {v}
  Blank = Blank
  None = None
  Slots = 3
  MaxCalls = 2
PROPERTIES ReloadComesBack
CHECK_DEADLOCK FALSE
