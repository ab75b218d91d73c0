\* Two clients in one transaction id.
CONSTANTS
  hud = hud
  script = script
  v1 = v1
  v2 = v2
  Client = {hud, script}
  Verb = {pin}
  Pure = {}
  Irreversible = {reload}
  Explicit = {1, 2}
  NoTxn = NoTxn
  Width = 4
  MaxTxn = 3
  MaxSeq = 3
  Names <- SharedIds
  Forms = {"args"}
  Vias = {"session"}
  Proj = {links}
  Val = {v1, v2}
  Op <- OneOp
  MaxRequests = 3
  MaxChanges = 0
\* Clients may stop asking.
CHECK_DEADLOCK FALSE
SPECIFICATION TxnBusSpec
INVARIANT UndoReversesExecution
