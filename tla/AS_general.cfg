\* Two clients that start in the same second or not, every kind of command, long messages.
CONSTANTS
  c1 = c1
  c2 = c2
  NoClient = NoClient
  Clients = {c1, c2}
  Descriptors = {1, 2}
  Commands = {"now", "page", "stop", "install"}
  MaxParts = 2
  TimeoutLen = 1
  MaxTime = 1
SPECIFICATION FairSpec
INVARIANTS CommandsWhole AnswerIsToOwnCommand FreedSocketOnlyIfLeft
PROPERTIES ClientEnds PatientIsAnswered
\* Every client may be done, and the daemon stops or crashes.
CHECK_DEADLOCK FALSE
