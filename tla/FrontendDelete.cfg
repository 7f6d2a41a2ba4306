SPECIFICATION Spec
CONSTANTS
  Trips = {t1, t2}
  Data = {d1}
  MaxSessions = 1
  MaxCalls = 3
  NoTrip = NoTrip
  NoData = NoData
  NoWrite = NoWrite
  NoRequest = NoRequest
PROPERTY KeptTripStays
