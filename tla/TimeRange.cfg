SPECIFICATION Spec
CONSTANTS
  NoStep = NoStep
  BadStep = BadStep
  Unset <- MCUnset
  TimeArgs <- MCTimeArgs
  StepArgs <- MCStepArgs
  Second = 2
  DataPoints = 3
  Lookback <- MCLookback
  MaxDuration = 50
  MaxDelay = 3
INVARIANT StepSound
INVARIANT OrderKept
INVARIANT DeletionBounded
