\* One client alone, which sends its commits as bus frames.
CONSTANTS
  hud = hud
  script = script
  v1 = v1
  v2 = v2
  Client = {hud}
  Verb = {pin}
  Pure = {}
  Irreversible = {reload}
  Explicit = {1, 2}
  NoTxn = NoTxn
  Width = 4
  MaxTxn = 3
  MaxSeq = 4
  Names <- OneId
  Forms = {"args"}
  Vias = {"bus"}
  Proj = {links}
  Val = {v1, v2}
  Op <- OneOp
  MaxRequests = 4
  MaxChanges = 1
\* Clients may stop asking.
CHECK_DEADLOCK FALSE
SPECIFICATION TxnBusSpec
PROPERTY CommitConfirmed
