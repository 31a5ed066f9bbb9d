CONSTANTS
  r1 = r1
  r2 = r2
  r3 = r3
  Requesters <- MCRequesters

SPECIFICATION Spec

INVARIANT TypeOK
INVARIANT Exclusion
INVARIANT NoStrandedRequest
INVARIANT NoOvertaking

PROPERTY QueuedEventuallyGranted
PROPERTY ImplementsContract
