CONSTANTS
  Scope = {s1}
  Proc = {p1, p2, e1}
  Eraser = {e1}
  Blob = {b1}
  MaxGen = 1
  MaxFaults = 1
SPECIFICATION Spec
INVARIANTS ErasedStaysErased
