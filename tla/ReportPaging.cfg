SPECIFICATION FairSpec
CONSTANTS
  MaxRows = 5
  PageSize = 2
INVARIANTS TypeOK TotalWasTrue MissesAreDeletions RepeatsAreLateCreations
PROPERTY ReportEnds
