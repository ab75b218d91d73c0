\* A client or the browser may go away for good.
CHECK_DEADLOCK FALSE
CONSTANTS
\* Two ports, so that one query may be answered twice; two asks, so that one
\* can be given up while the other is under way.
  Port = {stdio, other}
  MaxAsks = 2
\* Two subscribers, a local and a foreign change.
  Client = {c1, c2}
  Topic = {"scheme"}
  MaxChanges = 2
\* A stream and one that replaces it or runs beside it.
  StreamKey = {"a"}
  MaxStreams = 2
SPECIFICATION Spec
INVARIANTS
  RendezvousTypeOK
  AnswerIsOwn
  AcceptedIsReturned
  NoLostWakeup
PROPERTIES
  EndsByDeadline
  EndsByAnswer
  LastingChangeArrives
  FramesAreLive
  NothingLeaks
