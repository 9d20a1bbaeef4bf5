SPECIFICATION HSpec
CONSTANTS
  a = a
  b = b
  c = c
  k1 = k1
  k2 = k2
  k3 = k3
  Procs = {a, b}
  Keys = {k1, k2, k3}
  Vals = {v1}
  NoKey = NoKey
  NoVal = NoVal
  N = 2
  Wrap = 3
  Ttls = {0}
  MaxTime = 1
  CanCrash = {}
  Fp <- FpThree
  Ops <- OpsOneSetter
INVARIANTS
  CountExact
  UniqueKey
PROPERTIES
  AnswerSound
  FullSound
