\* A terminal is enough.
CHECK_DEADLOCK FALSE
CONSTANTS
  StreamKey = {"a"}
  MaxStreams = 2
SPECIFICATION StreamsSpec
PROPERTY ThreadsEnd
