\* Two clients in one transaction id that sometimes tag a call and sometimes
\* do not, and send commits both ways.
CONSTANTS
  hud = hud
  script = script
  v1 = v1
  v2 = v2
  Client = {hud, script}
  Verb = {pin}
  Pure = {}
  Irreversible = {}
  Explicit = {1, 2}
  NoTxn = NoTxn
  Width = 4
  MaxTxn = 2
  MaxSeq = 5
  Names <- SharedIds
  Forms = {"args"}
  Vias = {"bus"}
  Proj = {links}
  Val = {v1}
  Op = {}
  MaxRequests = 5
  MaxChanges = 0
\* Clients may stop asking.
CHECK_DEADLOCK FALSE
SPECIFICATION FairTxnBusSpec
PROPERTIES
  KeepsPromise
  CommitDecides
  UndoneIsSent
