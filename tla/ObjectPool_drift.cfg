\* The smallest pool in which a pop overtakes the push it undoes.
CONSTANTS
  Thread = {t1, t2}
  Capacity = 1
  WordSize = 16
  MaxGets = 7
SPECIFICATION PoolSpec
INVARIANT
  SizeIsExactAtRest
\* The bound on gets ends every behaviour.
CHECK_DEADLOCK FALSE
