SPECIFICATION Spec
CONSTANTS
  n1 = n1
  n2 = n2
  n3 = n3
  irregular = irregular
  outside = outside
  Names <- MCNames
  Filters <- MCFilters
  Archives <- MCArchives
  MaxDecompressedSize = 3
  MaxFileCount = 2
  MaxInt64 = 7
INVARIANT IInv
INVARIANT WithinLimits
INVARIANT WholeOrError
INVARIANT RefusedForCause
