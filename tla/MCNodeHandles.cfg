SPECIFICATION Spec
CONSTANTS
  c1 = c1  c2 = c2  h1 = h1  h2 = h2  h3 = h3
  n1 = n1  n2 = n2  n3 = n3  a1 = a1  a2 = a2
  Containers = {c1, c2}
  Handles = {h1, h2, h3}
  Allocators = {a1, a2}
  Nodes = {n1, n2, n3}
  NoNode = NoNode
  NoAllocator = NoAllocator
  KeyOf <- SomeKeys
SYMMETRY Symmetry
INVARIANTS NodesOwned
