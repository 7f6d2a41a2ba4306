SPECIFICATION Spec
CONSTANTS
  Requests = {r1, r2, r3}
  Ids = {i1}
  Users = {alice, bob}
  Data = {d1, d2, bad}
  Valid = {d1, d2}
  MaxFailures = 2
  NoRow = NoRow
  NoCall = NoCall
  NoReply = NoReply
  NoRequest = NoRequest
INVARIANTS TypeOK ItineraryHasEvent
PROPERTIES NoResurrection OwnRowsOnly LockedRowIsStable ContractSpec
