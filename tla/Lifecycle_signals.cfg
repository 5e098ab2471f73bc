SPECIFICATION Spec
CONSTANTS
  Transports <- MCTransports
  AutoUpdates <- MCAutoUpdates
INVARIANT SignalsConsistent
