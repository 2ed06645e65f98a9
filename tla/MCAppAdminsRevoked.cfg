CONSTANTS
  ann = ann  bob = bob  eve = eve  g1 = g1  g2 = g2
  Users = {ann, bob, eve}
  Founder = ann
  Configured = {eve}
  SignIns = {g1, g2}
  UserOf <- Accounts
SPECIFICATION Spec
PROPERTIES RevokedStaysRevoked
CHECK_DEADLOCK FALSE
