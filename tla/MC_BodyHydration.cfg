SPECIFICATION Spec
CONSTANTS
  a1 = a1 a2 = a2 A = A w1 = w1 w2 = w2
  Workers = {w1, w2}
  Message = {a1, a2}
  Thread = {A}
  ThreadOf <- Place
  Window = {A}
  Doomed = {a1}
  Malformed = {a2}
  BatchSize = 1
  MaxFaults = 1
INVARIANTS EntriesSettle
PROPERTIES BodySticks BodiesArrive
CHECK_DEADLOCK FALSE
