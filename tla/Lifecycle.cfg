SPECIFICATION FairSpec
CONSTANTS
  Transports <- MCTransports
  AutoUpdates <- MCAutoUpdates
INVARIANT IInv
INVARIANT ReadyMeansMounted
INVARIANT NobodyLeftBehind
INVARIANT ExitCodeOfFirst
PROPERTY ProcessExits
