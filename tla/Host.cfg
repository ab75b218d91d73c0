\* Every component runs out of operations.
CHECK_DEADLOCK FALSE
CONSTANTS
\* Two writers of the theme and a third write, which may heal what two left.
  ThemeProc = {a, b}
  SchemeName = {cyberpunk, other}
  DefaultScheme = cyberpunk
  Palette = {neon}
  NoFile = NoFile
  MaxThemeWrites = 3
\* A hook saved, deleted beside another writer, and fired.
  HookProc = {p, q}
  HookId = {x, y}
  MaxHookOps = 4
\* Two callers, a run before and a run after an action.
  KvProc = {u, v}
  MaxKvWrites = 3
  MaxRuns = 2
  MaxClock = 1
\* Two trims of a log of three.
  LogProc = {l, m}
  MaxEntries = 7
  TrimPast = 3
  TrimKeep = 2
\* Lines of up to three pieces, two rotations.
  MaxPieces = 6
  MaxRotations = 2
  MaxLine = 2
\* Twice as many jobs as results are kept.
  MaxJobs = 4
  MaxFinished = 2
\* Two operations at once, on a directory with a file and a link.
  FileClient = {c, d}
  FileName = {"a", "b"}
  MaxDepth = 2
  MaxFileOps = 2
  Disks <- SmallDisks
\* A walk may fill up, one side of a comparison too.
  Trees <- SmallTrees
  QueryCap = 7
  SideCap = 3
\* Two verbs, a chosen id that the allocator may run into (its own ids are 1..3),
\* three steps.  Width is small so that ids stay printable; MaxTxn keeps the
\* counter below it.
  Verb = {pin, mute}
  Explicit = {2}
  NoTxn = NoTxn
  Width = 4
  MaxTxn = 3
  MaxSeq = 3
SPECIFICATION HostSpec
INVARIANTS
  JournalTypeOK
  OneCallPerSeq
  OneFate
  AllocatorAhead
  DiskTypesOK
  PiggybackIsFresh
  LogKeepsNewest
  TailFaithful
  JobAccounting
  
PROPERTIES
  NoSilentLoss
  ClockOrders
  NoFieldReverts
  LoneSchemeWriteHeals
  RunsAsConfigured
  CopyIsFaithful
  StaysInFootprint
