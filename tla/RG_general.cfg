\* Five plugins loaded in any order, one name a prefix of another.
SPECIFICATION Spec
CONSTANTS
  Plugins = {1, 2, 3, 4, 5}
  Extends <- MCExtends
  FreedName = FreedName
  MaxReloads = 2
INVARIANTS TreeIntact  ServesOwn
\* Every plugin may be removed, or the daemon be beyond what is defined.
CHECK_DEADLOCK FALSE
