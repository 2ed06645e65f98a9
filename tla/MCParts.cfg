CONSTANTS
  ann = ann  bob = bob  none = none  mail = mail  w1 = w1  r1 = r1  r2 = r2
SPECIFICATION PartsSpec
INVARIANTS TypesOK NothingIsLost RecordsAreTrue
PROPERTIES StepsAreLicensed
CHECK_DEADLOCK FALSE
