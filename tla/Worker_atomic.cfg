SPECIFICATION Spec
CONSTANTS
  q1 = q1
  q2 = q2
  p1 = p1
  p2 = p2
  x1 = x1
  x2 = x2
  k1 = k1
  k2 = k2
  Workers = {w1}
  Messages = {q1, q2, p1, p2, x2}
  Requests = {q1, q2}
  Keys = {k1, k2}
  KeyOf <- TwoFlows
  Unparsable = {}
  Fatal = {x2}
  QueueCapacity = 2
  ThriftCapacity = 1
  PromptInsert = FALSE
  Main = Main
  None = None
  Null = Null
INVARIANT OnlyDuplicatesDiscarded
PROPERTY ImplementsStrictCorrelation
