CONSTANTS
  mail = mail  bridged = bridged  old = old  w1 = w1  ann = ann  pairing = pairing
  NoWorker = NoWorker
  Types = {pairing}
  TypeOf <- OneType
  Accounts = {ann}
  Recipient <- OneAccount
  Lease = 1
  BaseBackoff = 1
  MaxBackoff = 2
  RetryAfters = {0}
  Events = {old, bridged}
  Workers = {}
  Legacy = {old, bridged}
  MaxAttempts = 1
  MaxReplays = 1
  Horizon = 2
  Personal = {old, bridged}
  Invitations = {}
  DeadLetterWindow = 1
  DeliveredWindow = 0
  Limit = 1
SPECIFICATION RFairSpec
PROPERTIES BridgedWithAddress EveryRowIsRedacted
CHECK_DEADLOCK FALSE
