SPECIFICATION SystemSpec
CONSTANTS
  Requests = {r1, r2}
  Users = {alice}
  Data = {d1, bad}
  Valid = {d1}
  Ids = {1, 2}
  Malformed = {}
  Workers = {w1}
  Consumers = {c1}
  Copies = {k1, k2}
  BatchSize = 1
  Prefetch = 1
  MaxFailures = 1
  MaxPipelineFailures = 1
  NoRow = NoRow
  NoCall = NoCall
  NoReply = NoReply
  NoRequest = NoRequest
  NoEvent = NoEvent
  NoCopy = NoCopy
INVARIANTS AnswerIsKept
PROPERTY NotifySpec
