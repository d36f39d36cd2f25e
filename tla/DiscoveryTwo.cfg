SPECIFICATION Spec
CONSTANTS
  a1 = a1
  a2 = a2
  a3 = a3
  d1 = d1
  d2 = d2
  Addr = {a1, a2, a3}
  Self = a3
  Discoverer = {d1, d2}
  Hosts <- Disjoint
  MaxChanges = 1
  Env = {}
INVARIANT DisjointIsSafe
