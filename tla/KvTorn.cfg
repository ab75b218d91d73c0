\* Callers and runs end.
CHECK_DEADLOCK FALSE
CONSTANTS
\* Two callers on one key.
  KvProc = {u, v}
  MaxKvWrites = 3
  MaxRuns = 2
  MaxClock = 1
SPECIFICATION KvSpec
INVARIANT NeverHalfWritten
