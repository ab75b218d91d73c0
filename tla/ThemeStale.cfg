\* A client, one that writes, a change.
CHECK_DEADLOCK FALSE
CONSTANTS
  Client = {c1, c2}
  Topic = {"scheme"}
  MaxChanges = 1
SPECIFICATION ThemeSyncSpec
PROPERTY LastIsCurrent
