SPECIFICATION SafeSpec
CONSTANTS
  Trips = {t1, t2}
  Data = {d1, d2}
  MaxSessions = 2
  MaxCalls = 3
  NoTrip = NoTrip
  NoData = NoData
  NoWrite = NoWrite
  NoRequest = NoRequest
INVARIANTS TypeOK ListIsTrue
PROPERTIES SessionEndsForAReason
SYMMETRY Symmetry
