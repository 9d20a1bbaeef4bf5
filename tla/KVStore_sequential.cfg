SPECIFICATION Spec
CONSTANTS
  a = a
  b = b
  c = c
  k1 = k1
  k2 = k2
  k3 = k3
  Writer = a
  Procs = {a}
  Keys = {k1, k2, k3}
  Vals = {v1, v2}
  NoKey = NoKey
  NoVal = NoVal
  N = 2
  Wrap = 1
  Ttls = {0, 1}
  MaxTime = 2
  CanCrash = {}
  Fp <- FpThree
  Ops <- OpsOneWriter
PROPERTIES
  ImplementsKVStore
