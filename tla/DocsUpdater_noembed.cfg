SPECIFICATION Spec
CONSTANTS
  u1 = u1
  u2 = u2
  c1 = c1
  c2 = c2
  c3 = c3
  NoHash = NoHash
  NoOne = NoOne
  Callers <- MCOneCaller
  Commits <- MCCommits
  Broken <- MCBroken
  Rewrites = FALSE
  MayMissEmbedded = TRUE
  MaxMoves = 3
  MaxFaults = 1
  MaxCount = 1
INVARIANT UnchangedMeansCurrent
