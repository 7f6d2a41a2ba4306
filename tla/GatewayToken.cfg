SPECIFICATION Spec
CONSTANTS
  Callers = {c1}
  Window = 2
  ApiLimit = 2
  LoginLimit = 1
  TokenLife = 2
PROPERTY ExpiredIsUnauthorized
