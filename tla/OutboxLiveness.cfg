SPECIFICATION Spec
CONSTANTS
  Events = {1, 2}
  Malformed = {bad}
  Workers = {w1, w2}
  Consumers = {c1}
  Copies = {k1, k2}
  BatchSize = 1
  Prefetch = 1
  MaxFailures = 2
  NoEvent = NoEvent
  NoCopy = NoCopy
PROPERTIES EveryRowPublished MalformedIsDeadLettered QueueDrains ContractSpec
