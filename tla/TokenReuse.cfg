CONSTANTS
  User = {u1}
  Request = {r1}
  MaxTokens = 2
SPECIFICATION Spec
INVARIANT
  ReuseEndsSession
