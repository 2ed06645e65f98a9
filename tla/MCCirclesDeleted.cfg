CONSTANTS
  ann = ann  bob = bob  eve = eve  a1 = a1  a2 = a2  b1 = b1  b2 = b2  e1 = e1
  Circles = {1, 2}
  Primary = 1
  Users = {ann, bob}
  Founder = ann
  Sessions = {a1, b1, b2}
  UserOf <- Accounts
  MaxOwned = 2
  MaxCircles = 2
  MaxVersion = 1
SPECIFICATION Spec
INVARIANTS ErasedStayOut
CHECK_DEADLOCK FALSE
