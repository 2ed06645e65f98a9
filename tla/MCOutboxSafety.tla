--------------------------- MODULE MCOutboxSafety ---------------------------
(* Three instances in one run, one from each initial state: rows that are    *)
(* retried, bridged and abandoned; rows that are replayed under longer      *)
(* leases; and one invitation message beside the redaction pass. The        *)
(* properties of Outbox and OutboxRetention are read in all.                *)
EXTENDS MCOutbox, OutboxRetention

VARIABLE subject

Contended == INSTANCE Outbox WITH MaxReplays <- 0
Replayed  == INSTANCE Outbox WITH
  MaxAttempts <- 1, Lease <- 2, RetryAfters <- {0}, Legacy <- {}
Redacting == INSTANCE OutboxRetention WITH
  MaxAttempts <- 1, RetryAfters <- {0}, Horizon <- 2, Legacy <- {}

ASSUME InstancesAreLegal ==
  /\ Contended!OutboxAssumption /\ Replayed!OutboxAssumption
  /\ Redacting!OutboxAssumption /\ Redacting!RetentionAssumption

(* Bound: beside retention one invocation works at a time.                   *)
Working(w) == sweep[w] # NoSweep \/ \E e \in Events : task[w][e] # NoTask
OneAtATime == Cardinality({w \in Workers : Working(w)}) <= 1

NoRetention == pass = Idle /\ hourFree = FALSE /\ usable = {} /\ address = {}

SafetyInit == \/ subject \in {"contended", "replayed"} /\ Init /\ NoRetention
              \/ subject = "redacting" /\ Redacting!RInit

SafetyNext ==
  /\ UNCHANGED subject
  /\ \/ subject = "contended" /\ Contended!Next /\ UNCHANGED rvars
     \/ subject = "replayed" /\ Replayed!Next /\ UNCHANGED rvars
     \/ subject = "redacting" /\ Redacting!RNext /\ OneAtATime'

SafetySpec == SafetyInit /\ [][SafetyNext]_<<subject, vars, rvars>>
=============================================================================
