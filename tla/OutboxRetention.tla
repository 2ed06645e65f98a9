--------------------------- MODULE OutboxRetention ---------------------------
(***************************************************************************)
(* Personal-data retention of the outbox (api/_outbox-retention.js) beside *)
(* the outbox itself: an hourly pass redacts settled rows class by class,  *)
(* one bounded statement each, while claims, replays, sweeps, account      *)
(* deletions and the bridge of pre-v6 rows go on.                          *)
(***************************************************************************)
EXTENDS Outbox

CONSTANTS
  Personal,     \* rows whose payload holds a field of OUTBOX_PII_FIELDS
  Invitations,  \* rows that carry the only copy of an invitation's credential
  DeadLetterWindow, DeliveredWindow,  \* the retention windows in clock ticks
  Limit         \* rows one statement may redact

ASSUME RetentionAssumption ==
  /\ Personal \subseteq Events /\ Invitations \subseteq Personal
  /\ DeadLetterWindow \in Nat /\ DeliveredWindow \in Nat /\ Limit \in Nat \ {0}

VARIABLES
  pass,      \* what the running pass keeps between its statements
  hourFree,  \* no outbox_pii_retention log row of the last hour
  usable,    \* invitations that can still be accepted
  address    \* pairing_email_outbox rows that still hold their address

rvars == <<pass, hourFree, usable, address>>

Classes == <<"dead_letter", "delivered", "suppressed", "legacy_pairing">>
Idle    == [todo |-> <<>>, instant |-> 0]

RInit ==
  /\ Init
  /\ pass = Idle /\ hourFree = TRUE
  /\ usable = Invitations /\ address = Legacy

(* The hourly claim: INSERT ... WHERE NOT EXISTS a row of the last hour.   *)
StartPass ==
  /\ hourFree /\ pass = Idle
  /\ hourFree' = FALSE
  /\ pass' = [todo |-> Classes, instant |-> now]
  /\ UNCHANGED <<vars, usable, address>>

HourPasses == ~hourFree /\ hourFree' = TRUE /\ UNCHANGED <<vars, pass, usable, address>>

(* The caller's budget is spent, or the class's statement failed: the rest *)
(* of the pass is left to a later hour.                                     *)
StopPass == pass # Idle /\ pass' = Idle /\ UNCHANGED <<vars, hourFree, usable, address>>

Window(class) == IF class = "dead_letter" THEN DeadLetterWindow ELSE DeliveredWindow
Older(t, class) == t + Window(class) < pass.instant \/ pass.instant = Horizon

(* Mutant of HoldsPii: redacted rows stay candidates.                      *)
HoldsPiiEver(e) == e \in Personal
HoldsPii(e) == e \in Personal /\ row[e].payload # "redacted"

Redactable(e, class) ==
  /\ row[e].status = class /\ HoldsPii(e) /\ e \notin usable
  /\ Older(row[e].next, class) /\ Older(row[e].anchor, class)

Earlier(r, s) ==
  \/ r.next < s.next
  \/ r.next = s.next /\ r.notBefore < s.notBefore

(* ORDER BY next_attempt_at,not_before,id LIMIT ?                          *)
Batch(S, class) ==
  LET candidates == {e \in Events : Redactable(e, class)} IN
  /\ S \subseteq candidates
  /\ Cardinality(S) = MinOf(Limit, Cardinality(candidates))
  /\ \A e \in S, f \in candidates \ S : ~Earlier(row[f], row[e])

RedactedRow(r) == [r EXCEPT !.payload = "redacted"]
NextClass == [pass EXCEPT !.todo = Tail(@)]
PassAfter == IF Len(pass.todo) = 1 THEN Idle ELSE NextClass

RedactClass(S) ==
  /\ pass # Idle /\ Head(pass.todo) # "legacy_pairing"
  /\ Batch(S, Head(pass.todo))
  /\ row' = [e \in Events |-> IF e \in S THEN RedactedRow(row[e]) ELSE row[e]]
  /\ pass' = PassAfter
  /\ UNCHANGED <<audit, task, sweep, inFlight, mailbox, deleted, now,
                 hourFree, usable, address>>

(* Mutant of LegacyRedactable: the bridge is not waited for.               *)
LegacyRedactableAny(e) == e \in address
LegacyRedactable(e) == e \in address /\ row[e].status # "absent"

RedactLegacy(S) ==
  LET candidates == {e \in Legacy : LegacyRedactable(e)} IN
  /\ pass # Idle /\ Head(pass.todo) = "legacy_pairing"
  /\ S \subseteq candidates /\ Cardinality(S) = MinOf(Limit, Cardinality(candidates))
  /\ address' = address \ S
  /\ pass' = PassAfter
  /\ UNCHANGED <<vars, hourFree, usable>>

(* An invitation is accepted, revoked or expires.                          *)
InvitationEnds(e) ==
  e \in usable /\ usable' = usable \ {e} /\ UNCHANGED <<vars, pass, hourFree, address>>

RNext ==
  \/ Next /\ UNCHANGED rvars
  \/ StartPass \/ HourPasses \/ StopPass
  \/ \E S \in SUBSET Events : RedactClass(S) \/ RedactLegacy(S)
  \/ \E e \in Invitations : InvitationEnds(e)

RSpec == RInit /\ [][RNext]_<<vars, rvars>>

-----------------------------------------------------------------------------
(* Mail that is still owed keeps its address and credential: no order of   *)
(* dead-lettering, redaction, replay and deletion queues a redacted row.   *)
OwedMailIsIntact ==
  \A e \in Events : row[e].payload = "redacted" => row[e].status \in Terminal

(* The bridge never copies an address that retention already replaced.     *)
BridgedWithAddress ==
  [][\A e \in Legacy :
       row[e].status = "absent" /\ row'[e].status # "absent" => e \in address]_<<vars, rvars>>

(* The hour passes, a pass that is due starts, and its budget does not end *)
(* at the same class every hour.                                           *)
RFairness ==
  /\ WF_vars(Tick)
  /\ WF_<<vars, rvars>>(HourPasses) /\ SF_<<vars, rvars>>(StartPass)
  /\ \A class \in {"dead_letter", "delivered", "suppressed"} :
       SF_<<vars, rvars>>(/\ pass # Idle /\ Head(pass.todo) = class
                          /\ \E S \in SUBSET Events : RedactClass(S))
  /\ SF_<<vars, rvars>>(\E S \in SUBSET Legacy : RedactLegacy(S))

RFairSpec == RSpec /\ RFairness

(* Retention reaches every settled row that holds personal data and whose  *)
(* invitation is over, however many rows are ahead of it and however small *)
(* the batch is, unless it is replayed first.                              *)
EveryRowIsRedacted ==
  \A e \in Personal :
    (row[e].status \in Terminal /\ e \notin usable)
      ~> (row[e].payload = "redacted" \/ row[e].status \notin Terminal)
=============================================================================
