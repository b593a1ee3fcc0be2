SPECIFICATION LiveSpec
CONSTANTS
  NoSearch = nosearch
  Searches = {nosearch, s1}
  Filters = {f1, f2}
  NoFilter = f1
  LastDay = w1
  Windows = {w1, w2}
  Devices = {d1, d2}
  None = None
  Unread = Unread
  Dialogs <- MCDialogs
  MaxGen = 3
INVARIANT OneLoop
PROPERTIES FeedsImplemented CatchesUp
CHECK_DEADLOCK FALSE
