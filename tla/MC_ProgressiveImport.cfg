SPECIFICATION MCSpec
CONSTANTS
  w1 = w1 w2 = w2 t1 = t1 t2 = t2
  Workers = {w1, w2}
  Thread = {t1, t2}
  BatchSize = 1
  MaxGen = 8
  MaxFaults = 2
PROPERTIES SetupFinishes
CHECK_DEADLOCK FALSE
