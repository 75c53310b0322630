SPECIFICATION Spec
CONSTANTS
  NumQueues = 2
  QueueCapacity = 1
  Datagrams <- Incomplete
  Local <- MCLocal
  None = None
CHECK_DEADLOCK FALSE
INVARIANT QueuedMessagesComplete
