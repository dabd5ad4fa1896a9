\* Files with duplicate lines and names that begin others, calls, crashes anywhere.
CONSTANTS
  sol = sol
  js1 = js1
  js10 = js10
  True = True
  False = False
  Truths = {True}
  Empty = Empty
  Missing = Missing
  Settings = {sol, js1, js10}
  StartOnLoad = sol
  Content = {js1, js10}
  Values = {True, False}
  LongerNames <- MCExtends
  Keys <- MCKeys
  Hash <- MCHash
  NoEntry = NoEntry
  TableSize = 5
  MaxGrowths = 4
  MaxLines = 2
  MaxCalls = 3
  MaxCrashes = 2
SPECIFICATION SettingsSpec
INVARIANTS FilesSound BootsAgain RereadByReload
PROPERTIES BootFollowsCommand
\* The calls and crashes may be used up.
CHECK_DEADLOCK FALSE
