CONSTANTS
  ann = ann  bob = bob  a1 = a1  a2 = a2  b1 = b1
  Users = {ann, bob}
  Owners = {ann, bob}
  Sessions = {a1}
  UserOf <- Accounts
  Grace = 1
  Limit = 1
  MaxRequests = 0
  Horizon = 2
SPECIFICATION Spec
INVARIANTS AnsweredIsRecorded
CHECK_DEADLOCK FALSE
