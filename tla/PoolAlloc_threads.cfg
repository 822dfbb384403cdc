SPECIFICATION Spec
CONSTANTS
  t1 = t1  t2 = t2
  Thread <- TwoThreads
  NCLASS = 2
  Large = 1
  ARENA = 2
  SPARE_MIN = 1
  SPILL_BYTES = 2
  MaxAddr = 3
INVARIANTS ListsExact OneOwner
PROPERTY ImplementsAllocator
SYMMETRY ThreadSymmetry
