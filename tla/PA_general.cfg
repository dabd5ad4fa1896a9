\* Open requests, notices and lost connections, under the main loop's fairness.
SPECIFICATION FairSpec
CONSTANTS
  p1 = p1
  p2 = p2
  Plugins = {p1}
  Display = Display
  N = 2
  NoAction = NoAction
  NoReply = NoReply
  Notice = Notice
  MaxRequests = 3
  MaxNotices = 1
  MaxBreaks = 1
INVARIANTS Kept RepliesMatched
PROPERTIES DropDistance EveryRequestAnswered
