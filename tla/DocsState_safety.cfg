SPECIFICATION Spec
CONSTANTS
  r1 = r1
  r2 = r2
  w1 = w1
  w2 = w2
  f1 = f1
  f2 = f2
  NoOne = NoOne
  Readers <- MCReaders
  Swappers <- MCSwappers
  Files <- MCOneFile
  Unsplittable <- MCUnsplittable
  MaxStates = 3
SYMMETRY Symmetry
INVARIANT NoSearchOnClosedIndex
INVARIANT NoIndexLeak
INVARIANT TornOnlyBySwap
INVARIANT IInv
