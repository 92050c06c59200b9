SPECIFICATION QueueSpec
CONSTANTS
  Nodes = {n1, n2, n3}
  Objects = {a, b}
  NULL = NULL
INVARIANTS TypeOK ListShape NoLeakNoDangling
PROPERTIES IsFifo
