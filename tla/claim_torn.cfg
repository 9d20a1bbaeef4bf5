SPECIFICATION Spec
CONSTANTS
  a = a
  b = b
  c = c
  k1 = k1
  k2 = k2
  k3 = k3
  Procs = {a, b}
  Keys = {k1}
  Vals = {v1, v2}
  NoKey = NoKey
  NoVal = NoVal
  N = 2
  Wrap = 1
  Ttls = {0}
  MaxTime = 1
  CanCrash = {}
  Fp <- FpNeighbours
  Ops <- OpsSetGet
INVARIANT
  NoTornValue
