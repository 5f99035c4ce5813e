\* Four threads on a pool of one place.  Objects are dropped, made and popped
\* while other threads are between the queue and the statistics.  With four
\* threads one object, handed on from thread to thread, drives the reported
\* size above the number of objects made, and the subtraction for the peak
\* wraps.
CONSTANTS
  Thread = {t1, t2, t3, t4}
  Capacity = 1
  WordSize = 16
  MaxGets = 7
SPECIFICATION PoolSpec
INVARIANTS
  PoolTypeOK
  CountsAccountForTheQueue
  SizeErrorIsBounded
\* The bound on gets ends every behaviour.
CHECK_DEADLOCK FALSE
