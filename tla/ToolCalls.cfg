SPECIFICATION FairSpec
CONSTANTS
  q1 = q1
  q2 = q2
  a1 = a1
  a2 = a2
  NoCred = NoCred
  Default = Default
  Calls <- MCTwoCalls
  Creds <- MCCreds
INVARIANT IInv
INVARIANT CredentialsKept
INVARIANT FailuresBacked
INVARIANT ErrorsCounted
INVARIANT SuccessIsUpstream
INVARIANT ClientFailuresCounted
PROPERTY CallsAnswered
