\* A held request and its answer, with up to two keepalives.
SPECIFICATION FairSpec
CONSTANTS
  KeepAlive = TRUE
  MaxKeepAlives = 2
  Streams <- MCStreams
  MaxHeld = 3
  TextBytes = 3
  Prompt = 7
  Estimate = 5
  Total = 4
INVARIANT KeepAlivesFirst
INVARIANT ErrorsVisible
INVARIANT Metered
INVARIANT Told
INVARIANT FrameApart
PROPERTY Drained
CHECK_DEADLOCK FALSE
