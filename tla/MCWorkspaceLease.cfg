\* A worker may always stop asking: the bounded system may come to rest.
CONSTANTS
  Holders = {h1, h2, h3}
  Durations = {1, 2}
  NoLease = NoLease
  MaxTime = 4
  MaxToken = 3
SPECIFICATION Spec
SYMMETRY HolderSymmetry
INVARIANTS TypeOK MutualExclusion BeliefIsBacked CopiesArePast
PROPERTIES HandOver
CHECK_DEADLOCK FALSE
