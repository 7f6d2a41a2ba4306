SPECIFICATION SafeSpec
CONSTANTS
  Events = {1, 2}
  Malformed = {bad}
  Workers = {w1, w2}
  Consumers = {c1, c2}
  Copies = {k1, k2, k3}
  BatchSize = 2
  Prefetch = 1
  MaxFailures = 2
  NoEvent = NoEvent
  NoCopy = NoCopy
SYMMETRY Symmetry
INVARIANTS TypeOK NoSilentLoss BatchesAreExclusive AtMostOneNotification OnlyCommittedLeave OnlyInvalidIsDead
PROPERTY AckAfterCommit
