SPECIFICATION Spec
CONSTANTS
  RawValues <- MCRawValues
  Null = Null
  Text = Text
  TooLarge = TooLarge
  NoAirport = NoAirport
  Raised = Raised
INVARIANTS TypeOK ColombiaIsRestored OthersStay
CHECK_DEADLOCK FALSE
