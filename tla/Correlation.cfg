SPECIFICATION Spec
CONSTANTS
  q1 = q1
  q2 = q2
  q3 = q3
  p1 = p1
  p2 = p2
  k1 = k1
  k2 = k2
  Messages = {q1, q2, q3, p1, p2}
  Requests = {q1, q2, q3}
  Keys = {k1, k2}
  KeyOf <- MCKeyOf
  None = None
CHECK_DEADLOCK FALSE
INVARIANTS
  TypeOK ReportedOnce ReportsOfOneFlow
