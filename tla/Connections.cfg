\* A peer, a script or a client may go away for good.
CHECK_DEADLOCK FALSE
CONSTANTS
\* A subscriber, one that writes, a change; Sessions.cfg checks what is promised.
  Client = {c1, c2}
  Topic = {"scheme"}
  MaxChanges = 1
\* Two hosts joined both ways, an event, and a link that breaks.
  h1 = h1
  h2 = h2
  Host = {h1, h2}
  Dials <- MutualDials
  MaxEvents = 1
  MaxBreaks = 1
\* Two hosts starting together, a daemon that dies and one more.
  HostProc = {p1, p2}
  Daemon = {d1, d2, d3}
  NoDaemon = NoDaemon
  MaxDeaths = 1
\* More input than the pipe holds, more output than the cap.
  PipeRoom = 1
  OutputCap = 2
  MaxPayload = 2
  MaxOutput = 3
\* A stream and one that replaces it; Sessions.cfg checks what they promise.
  StreamKey = {"a"}
  MaxStreams = 2
SPECIFICATION Spec
INVARIANTS
  ConnectionTypesOK
  EventArrivesOnce
  OwnerIsReachable
  OutputComplete
PROPERTIES
  PeersRelink
  BusComesUp
  ScriptEnds
