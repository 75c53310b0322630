SPECIFICATION Spec
CONSTANTS
  q1 = q1
  q2 = q2
  p1 = p1
  k1 = k1
  Messages = {q1, q2, p1}
  Requests = {q1, q2}
  Keys = {k1}
  KeyOf <- MCKeyOf
  None = None
  NumWorkers = 2
  QueueCapacity = 1
  ThriftCapacity = 1
INVARIANT GracefulShutdown
