CONSTANTS
  mail = mail  other = other  bridged = bridged
  w1 = w1  w2 = w2  ann = ann  bob = bob
  pairing = pairing  schedule = schedule
  NoWorker = NoWorker
  Events = {mail, other}
  Workers = {w1}
  Types = {pairing, schedule}
  TypeOf <- TwoTypes
  Accounts = {ann}
  Recipient <- OneAccount
  Legacy = {}
  MaxAttempts = 1
  Lease = 1
  BaseBackoff = 1
  MaxBackoff = 2
  RetryAfters = {0}
  MaxReplays = 1
  Horizon = 2
SPECIFICATION LiveSpec
PROPERTIES EveryMessageIsSettled
CHECK_DEADLOCK FALSE
