SPECIFICATION Spec
CONSTANTS
  Unset = Unset
  MaxEntries = 4
  GlobalLimits <- MCGlobalLimits
  CallLimits <- MCCallLimits
INVARIANT NoSilentLoss
INVARIANT LimitAsAsked
