SPECIFICATION Spec
CONSTANTS
  w1 = w1
  w2 = w2
  s1 = s1
  s2 = s2
  Workers = {w1, w2}
  Sessions = {s1, s2}
  ResetTokens = {1, 2}
  MaxPairs = 4
  MaxVersion = 2
  NoSession = NoSession
SYMMETRY MCSymmetry
CHECK_DEADLOCK FALSE
INVARIANTS SessionsAreSound ResetHoldsItsToken
PROPERTIES ImplementsRegistry
