SPECIFICATION MCSpec
CONSTANTS
  r1 = r1
  u1 = u1
  u2 = u2
  f1 = f1
  c1 = c1
  c2 = c2
  NoHash = NoHash
  NoOne = NoOne
  Readers <- MCReaders
  Swappers <- MCSwappers
  Files <- MCFiles
  Unsplittable <- MCUnsplittable
  Commits <- MCCommits
  Broken <- MCBroken
  Rewrites = FALSE
  MaxStates = 3
  MaxMoves = 2
  MaxFaults = 0
  MaxCount = 0
INVARIANT NeverOlder
INVARIANT IndexesBounded
PROPERTY ImplementsUpdater
PROPERTY ImplementsService
