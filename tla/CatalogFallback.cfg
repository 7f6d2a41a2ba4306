SPECIFICATION Spec
CONSTANTS
  Callers = {c1, c2}
  FreshTtl = 2
  StaleTtl = 3
  Attempts = 2
  Threshold = 2
  Recovery = 2
  WriteDelay = 1
PROPERTY FallbackIsUsed
