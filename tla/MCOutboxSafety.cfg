CONSTANTS
  mail = mail  other = other  bridged = bridged
  w1 = w1  w2 = w2  ann = ann  bob = bob
  pairing = pairing  schedule = schedule
  NoWorker = NoWorker
  Events = {mail}
  Workers = {w1, w2}
  Types = {pairing, schedule}
  TypeOf <- OneType
  Accounts = {ann}
  Recipient <- OneAccount
  Legacy = {mail}
  MaxAttempts = 2
  Lease = 1
  BaseBackoff = 1
  MaxBackoff = 2
  RetryAfters = {0, 2}
  MaxReplays = 1
  Horizon = 3
  Personal = {mail}
  Invitations = {mail}
  DeadLetterWindow = 1
  DeliveredWindow = 0
  Limit = 1
SPECIFICATION SafetySpec
SYMMETRY Symmetric
INVARIANTS TypeOK AuditChain OutcomeAnswersItsClaim AttemptsPayForClaims DeliveryAnchors OwedMailIsIntact
PROPERTIES LiveLeaseIsRespected SettledIsFinal KeepsPromise
CHECK_DEADLOCK FALSE
