CONSTANTS
  ann = ann  bob = bob  a1 = a1  a2 = a2  b1 = b1
  Users = {ann, bob}
  Owners = {ann, bob}
  Sessions = {a1, a2}
  UserOf <- Accounts
  Grace = 1
  Limit = 2
  MaxRequests = 2
  Horizon = 2
SPECIFICATION Spec
SYMMETRY Alike
INVARIANTS TypeOK AbsentAreOut CircleKeepsAnOwner LedgerIsApplied
PROPERTIES ScheduleIsHonoured
CHECK_DEADLOCK FALSE
