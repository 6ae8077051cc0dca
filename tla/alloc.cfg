CONSTANTS
  Samples = {s1, s2, s3}
  Nodes = {n1, n2, n3, n4}
  NULL = NULL
  MaxBuffers = 3
  MaxRefs = 2
SPECIFICATION Spec
SYMMETRY Interchangeable
INVARIANTS ListsAgree
PROPERTIES ImplementsPool
