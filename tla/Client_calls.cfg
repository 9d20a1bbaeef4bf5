SPECIFICATION Spec
CONSTANTS
  a = a
  b = b
  Procs = {a, b}
  Keys = {k1, k2}
  LongKeys = {long}
  Texts = {t}
  LongTexts = {longtext}
  SetVals = {t, longtext, 2}
  Missing = Missing
  Capacity = 1
  W = 3
  MaxBatch = 2
  MaxCount = 3
  Ops <- OpsBatch
SYMMETRY KeySymmetry
INVARIANTS
  TypeOK
  NeverOvercounts
PROPERTIES
  CallEffect
