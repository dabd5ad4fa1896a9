\* rmplug of a plugin in the middle of the tree, then of its successor.
SPECIFICATION Spec
CONSTANTS
  Plugins = {1, 2, 3}
  Extends <- MCExtends
  FreedName = FreedName
  MaxReloads = 0
INVARIANTS RemovedIsUnlisted
CHECK_DEADLOCK FALSE
