\* Two requests: streams with their items, and collected answers with every kind of session
\* option; two crashes at most.
SPECIFICATION FairSpec
CONSTANTS
  r1 = r1
  r2 = r2
  i1 = i1
  i2 = i2
  Requests = {r1, r2}
  Items = {i1, i2}
  Labelled = {i1, i2}
  NoItem = NoItem
  MaxCrashes = 2
  Config <- MCConfig
  ParseInt <- MCParseInt
  Operational <- MCOperational
  Scenarios <- MCScenarios
INVARIANTS
  TypeOK ResponseWellFormed  ServedAsTold
PROPERTIES
  PhaseTruth FileNeverLoses EveryResponseEnds
\* The instance stops when every response has ended.
CHECK_DEADLOCK FALSE
