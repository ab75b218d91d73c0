\* Two clients with an id each, every call and premise tagged in args, every
\* commit a session command: no client touches another's transaction.
CONSTANTS
  hud = hud
  script = script
  v1 = v1
  v2 = v2
  Client = {hud, script}
  Verb = {pin}
  Pure = {}
  Irreversible = {reload}
  Explicit = {1, 2}
  NoTxn = NoTxn
  Width = 4
  MaxTxn = 3
  MaxSeq = 6
  Names <- OwnIds
  Forms = {"args"}
  Vias = {"session"}
  Proj = {links}
  Val = {v1, v2}
  Op <- OneOp
  MaxRequests = 6
  MaxChanges = 1
\* Clients may stop asking.
CHECK_DEADLOCK FALSE
SPECIFICATION TxnBusSpec
INVARIANTS
  TxnTypeOK
  UndoReversesExecution
  NoInheritedPremise
PROPERTIES
  CommitConfirmed
