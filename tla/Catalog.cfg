SPECIFICATION Spec
CONSTANTS
  Callers = {c1, c2}
  FreshTtl = 2
  StaleTtl = 4
  Attempts = 2
  Threshold = 2
  Recovery = 2
  WriteDelay = 2
INVARIANTS TypeOK FreshHasFallback BoundedAge
PROPERTIES OpenCircuitDrains EveryCallAnswered CircuitRecovers CatalogueHeals
