SPECIFICATION Spec
CONSTANTS
  Callers = {c1, c2}
  Window = 2
  ApiLimit = 2
  LoginLimit = 1
  TokenLife = 1
INVARIANTS TypeOK AtMostTwoWindows
PROPERTY QuotaReturns
