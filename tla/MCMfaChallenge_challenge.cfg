SPECIFICATION Spec
CONSTANTS
  w1 = w1
  w2 = w2
  Workers = {w1, w2}
  Tickets = {1, 2}
  AttemptLimit = 2
  MaxBatch = 2
  MaxStep = 2
SYMMETRY MCSymmetry
CHECK_DEADLOCK FALSE
INVARIANTS AttemptsAreBounded RecoveryCodeOpensOneSession
