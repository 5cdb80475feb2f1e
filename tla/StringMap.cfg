CONSTANTS
  k1 = k1  k2 = k2  k3 = k3  k4 = k4
  v1 = v1  v2 = v2
  NoValue = NoValue
  Keys <- MCKeys
  Values <- MCValues
  Hashes <- MCHashes
  Capacity = 4
  Repairs = TRUE
  MaxSeq = 5
SYMMETRY MCSymmetry
SPECIFICATION Spec
INVARIANT ProbesEnd
INVARIANT EntriesFound
PROPERTY ImplementsOrderedMap
CHECK_DEADLOCK FALSE
