SPECIFICATION Spec
CONSTANTS
  q1 = q1
  q2 = q2
  p1 = p1
  p2 = p2
  x1 = x1
  x2 = x2
  k1 = k1
  k2 = k2
  Workers = {w1, w2}
  Messages = {q1, p1}
  Requests = {q1}
  Keys = {k1}
  KeyOf <- OneFlow
  Unparsable = {}
  Fatal = {}
  QueueCapacity = 2
  ThriftCapacity = 1
  PromptInsert = TRUE
  Main = Main
  None = None
  Null = Null
INVARIANT EveryMessageKept
