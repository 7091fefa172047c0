SPECIFICATION Spec
CONSTANTS
  Setups <- Study7
  RepeatDefault = 3
  WarmupDefault = 1
  Curl <- Reports
  Limit = 4
  Controls <- Settings
  MaxFlight = 2
  MaxFails = 1
  MaxEarlier = 1
INVARIANTS TypeOK SummaryIsStudy ReusePrintsOneHandshake FilterTakesEffect RowIsStudy
PROPERTIES RegressOnlyByOverlap CatchesUp
