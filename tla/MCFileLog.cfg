SPECIFICATION Spec
CONSTANTS
  Value = {v1, v2}
  MaxLen = 4
INVARIANTS TypeOK IndexNamesWholeRecords AckedSurvive
PROPERTY ImplementsMemLog
