SPECIFICATION FairSpec
CONSTANTS
  u1 = u1
  u2 = u2
  c1 = c1
  c2 = c2
  c3 = c3
  NoHash = NoHash
  NoOne = NoOne
  Callers <- MCCallers
  Commits <- MCCommits
  Broken <- MCBroken
  Rewrites = FALSE
  MayMissEmbedded = FALSE
  MaxMoves = 3
  MaxFaults = 2
  MaxCount = 3
INVARIANT IInv
INVARIANT UnchangedMeansCurrent
INVARIANT HashNotAheadOfDocs
INVARIANT AllOrNothing
INVARIANT NoRedundantFetch
PROPERTY Converges
PROPERTY LoopsEnd
