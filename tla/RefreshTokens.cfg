CONSTANTS
  User = {u1, u2}
  Request = {r1, r2}
  MaxTokens = 3
SPECIFICATION WatchedSpec
INVARIANTS
  TypeOK
  ReplacementsFormChains
  RotationConsumesItsToken
  OneLiveTokenPerChain
  LogoutEndsChain
PROPERTIES
  ImplementsLedger
  EveryRequestIsAnswered
