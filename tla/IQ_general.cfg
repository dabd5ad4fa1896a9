\* The timer strikes twice, at any instruction, while messages are added, sent and cleared.
CONSTANTS
  N = 3
  ClearFirst = TRUE
  MaxAdds = 2
  MaxRuns = 2
  MaxConns = 2
SPECIFICATION FairSpec
INVARIANTS RingSound BystandersUnharmed
PROPERTIES EventuallyLeaves
\* The page may be gone for good, or memory corrupted.
CHECK_DEADLOCK FALSE
