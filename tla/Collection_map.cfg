SPECIFICATION Spec
CONSTANTS
  k1 = k1  k2 = k2
  Keys = {k1, k2}
  Values = {v1}
  Iterators = {i1, i2}
  IsSet = FALSE
  Hashes <- TwoHashes
  Hole = hole
  Nothing = nothing
  MinSlots = 4
  MaxDoublings = 4
  DeadMin = 1
  IterFactor = 1
  IterMin = 0
  MaxRemaps = 1
  MaxEntries = 3
  MaxEpoch = 3
  MaxRelocated = 0
INVARIANT IndexExact
PROPERTY ImplementsOrderedMap
SYMMETRY IteratorSymmetry
