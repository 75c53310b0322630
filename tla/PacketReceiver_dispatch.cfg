SPECIFICATION FairSpec
CONSTANTS
  NumQueues = 3
  QueueCapacity = 1
  Datagrams <- Kinds
  Local <- MCLocal
  None = None
CHECK_DEADLOCK FALSE
INVARIANTS
  TypeOK BalancedLoad FlowKeySound
PROPERTIES
  DroppedAfterAll ImplementsDispatch HandlerReturns
