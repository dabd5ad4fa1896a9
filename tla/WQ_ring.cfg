\* Two sockets share two slots: API clients, or the pages of a display or plugin.
SPECIFICATION FairSpec
CONSTANTS
  s1 = s1
  s2 = s2
  Sockets = {s1, s2}
  N = 2
  NoMsg = NoMsg
  NoSocket = NoSocket
  Protocols = {"api", "display", "plugin"}
  MaxAdds = 3
  MaxConns = 2
INVARIANTS TypeOK Accounted SentToAddressee InOrder
PROPERTIES OverwriteDistance FirstLossWhenFull ImplementsOutbox EventuallyLeaves
\* All clients may leave for good.
CHECK_DEADLOCK FALSE
