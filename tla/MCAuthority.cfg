CONSTANTS
  ann = ann  bob = bob  cat = cat  eve = eve  a1 = a1  a2 = a2  b1 = b1  g1 = g1  g2 = g2
  s1 = s1  s2 = s2  f1 = f1  f2 = f2  none = none  p1 = p1  p2 = p2  eva = eva
  Circles = {1, 2}
  Primary = 1
  Users = {ann, bob}
  Founder = ann
  Sessions = {a1, b1}
  UserOf <- Accounts
  MaxOwned = 2
  MaxCircles = 2
  MaxVersion = 2
SPECIFICATION AuthoritySpec
INVARIANTS TypeOK EveryLiveCircleHasAnOwner AuthorityFollowsMembership
INVARIANTS PartTypesOK PublicationsAreTrue EntryIsWhole
PROPERTIES VersionsAreNeverReused LosingTheLastCircleSignsOut AdminsRemain PublishedOnce
  EntryIsEarned
SYMMETRY Alike
CHECK_DEADLOCK FALSE
