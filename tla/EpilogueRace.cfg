SPECIFICATION RaceSpec
CONSTANTS
  Nodes = {n1, n2, n3, n4}
  Objects = {a, b, c}
  NULL = NULL
  waker = a
  woken = b
INVARIANTS QueueNeverCrashes
