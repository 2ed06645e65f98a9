------------------------------- MODULE Outbox -------------------------------
(***************************************************************************)
(* The durable email outbox (api/_outbox.js): the outbox_events and        *)
(* outbox_audit_events tables, the invocations that claim rows under a     *)
(* lease, call the mail provider and finalize what they own, the sweep of  *)
(* exhausted rows, operator replay, and the two writers outside the core:  *)
(* the bridge of pre-v6 rows and the suppression of a deleted account's    *)
(* mail.  Every SQL statement or write transaction is one step; whatever   *)
(* the code keeps in local variables between two awaits is in task/sweep.  *)
(***************************************************************************)
EXTENDS Naturals, Sequences, FiniteSets

CONSTANTS
  Events,         \* outbox rows, one per idempotency key
  Workers,        \* cron, inline and per-feature invocations
  NoWorker,       \* the system or an operator, where a worker is named otherwise
  Types,          \* event types with a registered handler
  TypeOf,         \* event_type of each row
  Accounts,       \* accounts mail is addressed to
  Recipient,      \* the account each row is addressed to
  Legacy,         \* the rows bridged from pairing_email_outbox
  MaxAttempts,    \* max_attempts of every row
  Lease,          \* leaseDurationMs in clock ticks
  BaseBackoff, MaxBackoff,  \* baseBackoffMs and maxBackoffMs in clock ticks
  RetryAfters,    \* the Retry-After delays the provider may ask for (0: none)
  MaxReplays,     \* bound: replays of one row
  Horizon         \* bound: the clock stops here; later instants count as this one

ASSUME OutboxAssumption ==
  /\ NoWorker \notin Workers
  /\ MaxAttempts \in Nat \ {0} /\ Lease \in Nat \ {0}
  /\ BaseBackoff \in Nat \ {0} /\ MaxBackoff \in Nat
  /\ RetryAfters \subseteq Nat /\ MaxReplays \in Nat /\ Horizon \in Nat
  /\ TypeOf \in [Events -> Types] /\ Recipient \in [Events -> Accounts]
  /\ Legacy \subseteq Events
  /\ \A n \in 0..MaxAttempts : 2^n \in Nat

VARIABLES
  row,       \* outbox_events
  audit,     \* outbox_audit_events of each row, oldest first
  task,      \* what an invocation remembers of a row it claimed
  sweep,     \* what an invocation remembers of its sweep
  inFlight,  \* provider requests sent and not yet settled by the provider
  mailbox,   \* messages the provider accepted (it deduplicates by key)
  deleted,   \* accounts whose deletion committed
  now        \* the database clock

vars == <<row, audit, task, sweep, inFlight, mailbox, deleted, now>>

Terminal == {"delivered", "suppressed", "dead_letter"}
Statuses == {"absent", "pending", "processing", "retry"} \cup Terminal
Phases   == {"idle", "claimed", "held", "calling", "resolved", "finalizing"}
Payloads == {"full", "tombstoned", "redacted"}
NoLease  == [owner |-> NoWorker, token |-> 0]
Instants == 0..Horizon

Clip(t)  == IF t < Horizon THEN t ELSE Horizon
MinOf(a, b) == IF a < b THEN a ELSE b
MaxOf(a, b) == IF a < b THEN b ELSE a

(* outbox_audit_events.  `by' is actor_ref of a worker, NoWorker for the   *)
(* system and for operators.                                                *)
Entry(action, by, from, to, attempt) ==
  [action |-> action, by |-> by, from |-> from, to |-> to, attempt |-> attempt]
WorkerOutcomes == {"retry_scheduled", "delivered", "suppressed", "dead_lettered"}
Actions  == {"claimed", "replayed"} \cup WorkerOutcomes
Entries  == [action : Actions, by : Workers \cup {NoWorker},
             from : Statuses, to : Statuses, attempt : 0..MaxAttempts]

Absent == [status |-> "absent", notBefore |-> 0, next |-> 0, attempts |-> 0,
           lease |-> NoLease, until |-> 0, anchor |-> 0, replays |-> 0,
           payload |-> "full"]
NoTask == [phase |-> "idle", token |-> 0, attempt |-> 0,
           outcome |-> "none", delay |-> 0, instant |-> 0]
NoSweep == [phase |-> "idle", instant |-> 0, found |-> {}]

Init ==
  /\ row   = [e \in Events |-> Absent]
  /\ audit = [e \in Events |-> <<>>]
  /\ task  = [w \in Workers |-> [e \in Events |-> NoTask]]
  /\ sweep = [w \in Workers |-> NoSweep]
  /\ inFlight = {} /\ mailbox = {} /\ deleted = {} /\ now = 0

-----------------------------------------------------------------------------
(* Producers.                                                               *)

(* ON CONFLICT(idempotency_key) DO NOTHING: a key that has a row keeps it. *)
KeyIsFree(e) == row[e].status = "absent"

QueuedRow(at) ==
  [Absent EXCEPT !.status = "pending", !.notBefore = at, !.next = at]

Enqueue(e, at) ==
  /\ KeyIsFree(e) /\ e \notin Legacy /\ Recipient[e] \notin deleted
  /\ row' = [row EXCEPT ![e] = QueuedRow(at)]
  /\ UNCHANGED <<audit, task, sweep, inFlight, mailbox, deleted, now>>

(* The compatibility bridge: a pre-v6 row that already spent its attempts  *)
(* arrives as a dead letter, any other one keeps its count.                *)
BridgedRow(spent) ==
  IF spent = MaxAttempts
    THEN [Absent EXCEPT !.status = "dead_letter", !.attempts = spent,
                        !.next = now, !.anchor = now]
    ELSE [Absent EXCEPT !.status = "pending", !.attempts = spent, !.next = now]

Bridge(e, spent) ==
  /\ KeyIsFree(e) /\ e \in Legacy /\ Recipient[e] \notin deleted
  /\ row' = [row EXCEPT ![e] = BridgedRow(spent)]
  /\ UNCHANGED <<audit, task, sweep, inFlight, mailbox, deleted, now>>

-----------------------------------------------------------------------------
(* Claims.                                                                  *)

LeaseExpired(e) == row[e].until <= now

Claimable(e) ==
  \/ row[e].status \in {"pending", "retry"}
  \/ row[e].status = "processing" /\ LeaseExpired(e)

Due(e) ==
  /\ Claimable(e)
  /\ row[e].attempts < MaxAttempts
  /\ row[e].notBefore <= now /\ row[e].next <= now

(* An invocation starts a new round when the last one is over; only a      *)
(* finalization it stopped waiting for may still be running.               *)
Ready(w) ==
  /\ sweep[w].phase = "idle"
  /\ \A e \in Events : task[w][e].phase \in {"idle", "finalizing"}

(* The token is a fresh UUID: the position of the claim's own audit row    *)
(* names it, as no two claims of a row share one.                          *)
FreshToken(e) == Len(audit[e]) + 1

(* Mutant of ClaimedRow: taking over an expired lease is not an attempt.   *)
ClaimedRowFreeTakeover(r, w, token) ==
  [r EXCEPT !.status = "processing",
            !.attempts = IF r.status = "processing" THEN @ ELSE @ + 1,
            !.lease = [owner |-> w, token |-> token], !.until = Clip(now + Lease)]

ClaimedRow(r, w, token) ==
  [r EXCEPT !.status = "processing", !.attempts = @ + 1,
            !.lease = [owner |-> w, token |-> token], !.until = Clip(now + Lease)]

(* Mutant of ClaimEntry: status is read after the update, in place of      *)
(* claim_from_status.                                                       *)
ClaimEntryOfNewStatus(w, e) ==
  Entry("claimed", w, "processing", "processing", row[e].attempts + 1)

ClaimEntry(w, e) ==
  Entry("claimed", w, row[e].status, "processing", row[e].attempts + 1)

Moved(t, phase) == [t EXCEPT !.phase = phase]
NewTask(token, attempt) ==
  [NoTask EXCEPT !.phase = "claimed", !.token = token, !.attempt = attempt]

(* The guarded UPDATE and the INSERT of its audit rows, one write batch.   *)
ClaimRows(w, S) ==
  /\ Ready(w)
  /\ \A e \in S : task[w][e].phase = "idle"
  /\ row'   = [e \in Events |->
                 IF e \in S THEN ClaimedRow(row[e], w, FreshToken(e)) ELSE row[e]]
  /\ audit' = [e \in Events |-> IF e \in S THEN Append(audit[e], ClaimEntry(w, e))
                                ELSE audit[e]]
  /\ task'  = [task EXCEPT ![w] = [e \in Events |->
                 IF e \in S THEN NewTask(FreshToken(e), row[e].attempts + 1)
                 ELSE task[w][e]]]
  /\ UNCHANGED <<sweep, inFlight, mailbox, deleted, now>>

(* The inline attempt claims the row of the key it just committed.         *)
ClaimByKey(w, e) == Due(e) /\ ClaimRows(w, {e})

(* One due row per type, the one that has waited longest; a worker bound   *)
(* to a single type is a round of one.                                     *)
IsRound(S) ==
  /\ S # {}
  /\ \A e \in S : Due(e)
  /\ \A e \in S : \A f \in Events \ {e} :
       (Due(f) /\ TypeOf[f] = TypeOf[e]) =>
          f \notin S /\ row[e].next <= row[f].next

ClaimRound(w, S) == IsRound(S) /\ ClaimRows(w, S)

(* The claimed rows are read back by owner and token in a later statement; *)
(* when one is gone the whole round is abandoned and its leases expire.    *)
Claimed(w) == {e \in Events : task[w][e].phase = "claimed"}

StillLeased(w, e) ==
  row[e].status = "processing"
    /\ row[e].lease = [owner |-> w, token |-> task[w][e].token]

ReadClaim(w) ==
  /\ Claimed(w) # {}
  /\ task' = [task EXCEPT ![w] = [e \in Events |->
                IF e \notin Claimed(w) THEN task[w][e]
                ELSE IF \A f \in Claimed(w) : StillLeased(w, f)
                     THEN Moved(task[w][e], "held") ELSE NoTask]]
  /\ UNCHANGED <<row, audit, sweep, inFlight, mailbox, deleted, now>>

-----------------------------------------------------------------------------
(* Delivery of one claimed row.                                             *)

(* Mutant of OwnsLive: the lease token is not compared.                    *)
OwnsLiveAnyToken(w, e) == row[e].status = "processing" /\ ~LeaseExpired(e)

(* UPDATE ... WHERE status='processing' AND lease_owner=? AND lease_token=? *)
(*   AND leased_until > now, the guard of heartbeat and of finalization.    *)
OwnsLive(w, e) == StillLeased(w, e) /\ ~LeaseExpired(e)

SetTask(w, e, t) == task' = [task EXCEPT ![w] = [@ EXCEPT ![e] = t]]
Forget(w, e) == SetTask(w, e, NoTask)

RenewedRow(r) == [r EXCEPT !.until = MaxOf(@, Clip(now + Lease))]

(* A heartbeat that finds the lease gone (or fails) aborts the delivery:   *)
(* nothing of it is written any more.                                      *)
Heartbeat(w, e) ==
  /\ task[w][e].phase \in {"held", "calling", "resolved", "finalizing"}
  /\ IF OwnsLive(w, e)
       THEN /\ row' = [row EXCEPT ![e] = RenewedRow(row[e])]
            /\ UNCHANGED task
       ELSE /\ task[w][e].phase # "finalizing"
            /\ Forget(w, e)
            /\ UNCHANGED row
  /\ UNCHANGED <<audit, sweep, inFlight, mailbox, deleted, now>>

Resolved(t, outcome, delay) ==
  [t EXCEPT !.phase = "resolved", !.outcome = outcome, !.delay = delay]
Resolve(w, e, outcome, delay) ==
  SetTask(w, e, Resolved(task[w][e], outcome, delay))

Backoff(attempt, retryAfter) ==
  LET doublings   == IF attempt = 0 THEN 0 ELSE attempt - 1
      exponential == MinOf(MaxBackoff, BaseBackoff * 2^doublings)
  IN  MinOf(MaxBackoff, MaxOf(exponential, retryAfter))

(* The outcome a delivery that failed is finalized with.                   *)
FailureOutcome(attempt, retryable) ==
  IF ~retryable \/ attempt >= MaxAttempts THEN "dead_letter" ELSE "retry"

CallProvider(w, e) ==
  /\ task[w][e].phase = "held"
  /\ inFlight' = inFlight \cup {e}
  /\ SetTask(w, e, Moved(task[w][e], "calling"))
  /\ UNCHANGED <<row, audit, sweep, mailbox, deleted, now>>

(* The provider acts on a request at any time, also after the caller gave  *)
(* it up; a second request with the same key is the same message to it.    *)
ProviderAccept(e) ==
  /\ e \in inFlight
  /\ inFlight' = inFlight \ {e} /\ mailbox' = mailbox \cup {e}
  /\ UNCHANGED <<row, audit, task, sweep, deleted, now>>

(* Mutant of ProviderAnswers: the response is not looked at.               *)
ProviderAnswersUnread(w, e) ==
  /\ task[w][e].phase = "calling"
  /\ Resolve(w, e, "delivered", 0)
  /\ UNCHANGED <<row, audit, sweep, inFlight, mailbox, deleted, now>>

ProviderAnswers(w, e) ==
  /\ task[w][e].phase = "calling" /\ e \in mailbox
  /\ Resolve(w, e, "delivered", 0)
  /\ UNCHANGED <<row, audit, sweep, inFlight, mailbox, deleted, now>>

(* The handler finds the recipient no longer eligible and sends nothing.   *)
HandlerSuppresses(w, e) ==
  /\ task[w][e].phase = "held"
  /\ Resolve(w, e, "suppressed", 0)
  /\ UNCHANGED <<row, audit, sweep, inFlight, mailbox, deleted, now>>

(* The handler throws, the call times out, the provider refuses, or the    *)
(* invocation's deadline leaves no time for the call at all.               *)
DeliveryFails(w, e, retryable, retryAfter) ==
  /\ task[w][e].phase \in {"held", "calling"}
  /\ Resolve(w, e, FailureOutcome(task[w][e].attempt, retryable),
             IF FailureOutcome(task[w][e].attempt, retryable) = "retry"
             THEN Backoff(task[w][e].attempt, retryAfter) ELSE 0)
  /\ UNCHANGED <<row, audit, sweep, inFlight, mailbox, deleted, now>>

(* finalizeOutcome reads the instant in one statement ...                  *)
Stamped(t) == [t EXCEPT !.phase = "finalizing", !.instant = now]
ReadFinalInstant(w, e) ==
  /\ task[w][e].phase = "resolved"
  /\ SetTask(w, e, Stamped(task[w][e]))
  /\ UNCHANGED <<row, audit, sweep, inFlight, mailbox, deleted, now>>

OutcomeAction(outcome) ==
  CASE outcome = "dead_letter" -> "dead_lettered"
    [] outcome = "retry"       -> "retry_scheduled"
    [] OTHER                   -> outcome

FinalNext(t) == IF t.outcome = "retry" THEN Clip(t.instant + t.delay) ELSE t.instant
FinalAnchor(t) == IF t.outcome = "retry" THEN 0 ELSE t.instant

(* Mutants of FinalRow: the lease columns are not cleared; the next attempt*)
(* is stamped by the UPDATE's clock and the outcome by the instant read    *)
(* before it.                                                               *)
FinalRowLeaseKept(r, t) ==
  [r EXCEPT !.status = t.outcome, !.next = FinalNext(t), !.anchor = FinalAnchor(t)]
FinalRowTwoClocks(r, t) ==
  [r EXCEPT !.status = t.outcome, !.lease = NoLease, !.until = 0,
            !.next = IF t.outcome = "retry" THEN FinalNext(t) ELSE now,
            !.anchor = FinalAnchor(t)]

FinalRow(r, t) ==
  [r EXCEPT !.status = t.outcome, !.lease = NoLease, !.until = 0,
            !.next = FinalNext(t), !.anchor = FinalAnchor(t)]

(* ... and writes row and audit in one transaction that changes nothing    *)
(* unless the lease is still its own.                                      *)
FinalizeWrite(w, e) ==
  /\ task[w][e].phase = "finalizing"
  /\ IF OwnsLive(w, e)
       THEN /\ row' = [row EXCEPT ![e] = FinalRow(row[e], task[w][e])]
            /\ audit' = [audit EXCEPT ![e] = Append(@,
                 Entry(OutcomeAction(task[w][e].outcome), w, "processing",
                       task[w][e].outcome, task[w][e].attempt))]
       ELSE UNCHANGED <<row, audit>>
  /\ Forget(w, e)
  /\ UNCHANGED <<sweep, inFlight, mailbox, deleted, now>>

-----------------------------------------------------------------------------
(* The sweep of exhausted rows: read the instant, select, then one guarded *)
(* transaction per selected row.                                           *)

(* Mutant of Exhausted: a crashed last attempt is not looked for.          *)
ExhaustedQueued(e, instant) ==
  /\ row[e].attempts >= MaxAttempts
  /\ row[e].status \in {"pending", "retry"}

Exhausted(e, instant) ==
  /\ row[e].attempts >= MaxAttempts
  /\ \/ row[e].status \in {"pending", "retry"}
     \/ row[e].status = "processing" /\ row[e].until <= instant

StartSweep(w) ==
  /\ Ready(w)
  /\ sweep' = [sweep EXCEPT ![w] = [NoSweep EXCEPT !.phase = "clock", !.instant = now]]
  /\ UNCHANGED <<row, audit, task, inFlight, mailbox, deleted, now>>

SweepSelect(w) ==
  /\ sweep[w].phase = "clock"
  /\ LET found == {e \in Events : Exhausted(e, sweep[w].instant)} IN
     sweep' = [sweep EXCEPT ![w] = IF found = {} THEN NoSweep
                 ELSE [@ EXCEPT !.phase = "rows",
                                !.found = {<<e, row[e].status>> : e \in found}]]
  /\ UNCHANGED <<row, audit, task, inFlight, mailbox, deleted, now>>

(* Mutant of SweepGuard: the lease is only checked by the SELECT.          *)
SweepGuardOldLease(e, previous, instant) ==
  row[e].status = previous /\ row[e].attempts >= MaxAttempts

(* WHERE status=previous AND attempt_count>=max_attempts                   *)
(*   AND (previous<>'processing' OR leased_until<=instant)                 *)
SweepGuard(e, previous, instant) ==
  /\ row[e].status = previous /\ row[e].attempts >= MaxAttempts
  /\ previous = "processing" => row[e].until <= instant

SweptRow(r, instant) ==
  [r EXCEPT !.status = "dead_letter", !.lease = NoLease, !.until = 0,
            !.anchor = instant]

Without(s, candidate) == [s EXCEPT !.found = @ \ {candidate}]

SweepRow(w, e, previous) ==
  /\ sweep[w].phase = "rows" /\ <<e, previous>> \in sweep[w].found
  /\ IF SweepGuard(e, previous, sweep[w].instant)
       THEN /\ row' = [row EXCEPT ![e] = SweptRow(row[e], sweep[w].instant)]
            /\ audit' = [audit EXCEPT ![e] = Append(@,
                 Entry("dead_lettered", NoWorker, previous, "dead_letter", MaxAttempts))]
       ELSE UNCHANGED <<row, audit>>
  /\ sweep' = [sweep EXCEPT ![w] =
       IF sweep[w].found = {<<e, previous>>} THEN NoSweep
       ELSE Without(sweep[w], <<e, previous>>)]
  /\ UNCHANGED <<task, inFlight, mailbox, deleted, now>>

-----------------------------------------------------------------------------
(* Replay, account deletion, crashes and time.                             *)

(* Mutant of Replayable: a redacted dead letter can be replayed.           *)
ReplayableRedacted(e) == row[e].status = "dead_letter"

Replayable(e) == row[e].status = "dead_letter" /\ row[e].payload # "redacted"

ReplayedRow(r, at) ==
  [r EXCEPT !.status = "pending", !.notBefore = at, !.next = at,
            !.attempts = 0, !.anchor = 0, !.replays = @ + 1]

(* replayDeadLetter: `at' is the instant it read before its transaction or *)
(* the later instant the operator asked for.                               *)
Replay(e, at) ==
  /\ Replayable(e)
  /\ row[e].replays < MaxReplays
  /\ row' = [row EXCEPT ![e] = ReplayedRow(row[e], at)]
  /\ audit' = [audit EXCEPT ![e] = Append(@,
                 Entry("replayed", NoWorker, "dead_letter", "pending", 0))]
  /\ UNCHANGED <<task, sweep, inFlight, mailbox, deleted, now>>

(* deletionStatements: queued and dead-lettered mail to the account is     *)
(* suppressed, every row addressed to it loses the address.                *)
(* Mutant of Suppressible: everything not in flight is suppressed.         *)
SuppressibleAll(r) == r.status # "processing"

Suppressible(r) == r.status \in {"pending", "retry", "dead_letter"}

SuppressedRow(r) ==
  IF Suppressible(r) \/ r.status = "suppressed"
    THEN [r EXCEPT !.status = "suppressed", !.anchor = now] ELSE r
ScrubbedRow(r) ==
  IF r.payload = "full" THEN [r EXCEPT !.payload = "tombstoned"] ELSE r

DeleteAccount(a) ==
  LET addressed == {e \in Events : Recipient[e] = a /\ ~KeyIsFree(e)} IN
  /\ a \notin deleted
  /\ deleted' = deleted \cup {a}
  /\ row' = [e \in Events |-> IF e \in addressed THEN ScrubbedRow(SuppressedRow(row[e]))
                             ELSE row[e]]
  /\ audit' = [e \in Events |-> IF e \in addressed /\ Suppressible(row[e])
                 THEN Append(audit[e], Entry("suppressed", NoWorker, row[e].status,
                                             "suppressed", row[e].attempts))
                 ELSE audit[e]]
  /\ UNCHANGED <<task, sweep, inFlight, mailbox, now>>

(* The platform ends an invocation, or a statement of it throws: whatever  *)
(* it held in memory is gone, its leases run out.                          *)
Crash(w) ==
  /\ \/ sweep[w].phase # "idle"
     \/ \E e \in Events : task[w][e].phase # "idle"
  /\ task'  = [task EXCEPT ![w] = [e \in Events |-> NoTask]]
  /\ sweep' = [sweep EXCEPT ![w] = NoSweep]
  /\ UNCHANGED <<row, audit, inFlight, mailbox, deleted, now>>

Tick ==
  /\ now < Horizon
  /\ now' = now + 1
  /\ UNCHANGED <<row, audit, task, sweep, inFlight, mailbox, deleted>>

-----------------------------------------------------------------------------
Produce ==
  \/ \E e \in Events, at \in now..Horizon : Enqueue(e, at)
  \/ \E e \in Legacy, spent \in 0..MaxAttempts : Bridge(e, spent)

Claim(w) ==
  \/ \E e \in Events : ClaimByKey(w, e)
  \/ \E S \in SUBSET Events : ClaimRound(w, S)

Deliver(w) ==
  \E e \in Events :
    \/ Heartbeat(w, e)
    \/ CallProvider(w, e)
    \/ ProviderAnswers(w, e)
    \/ HandlerSuppresses(w, e)
    \/ \E retryable \in BOOLEAN, after \in RetryAfters :
         DeliveryFails(w, e, retryable, after)
    \/ ReadFinalInstant(w, e)
    \/ FinalizeWrite(w, e)

Sweep(w) ==
  \/ StartSweep(w)
  \/ SweepSelect(w)
  \/ \E e \in Events, previous \in Statuses : SweepRow(w, e, previous)

Next ==
  \/ Produce
  \/ \E w \in Workers : Claim(w) \/ ReadClaim(w) \/ Deliver(w) \/ Sweep(w) \/ Crash(w)
  \/ \E e \in Events : ProviderAccept(e)
  \/ \E e \in Events, at \in Instants : Replay(e, at)
  \/ \E a \in Accounts : DeleteAccount(a)
  \/ Tick

Spec == Init /\ [][Next]_vars

-----------------------------------------------------------------------------
(* Types of the tables and of the invocations' memory; a row is under a    *)
(* lease exactly while it is processing (the CHECK of outbox_events).      *)
RowType ==
  [status : Statuses, notBefore : Instants, next : Instants,
   attempts : 0..MaxAttempts, lease : [owner : Workers \cup {NoWorker}, token : Nat],
   until : Instants, anchor : Instants, replays : 0..MaxReplays, payload : Payloads]

TypeOK ==
  /\ row \in [Events -> RowType]
  /\ audit \in [Events -> Seq(Entries)]
  /\ task \in [Workers -> [Events ->
       [phase : Phases, token : Nat, attempt : 0..MaxAttempts,
        outcome : {"none", "retry"} \cup Terminal, delay : Nat, instant : Instants]]]
  /\ sweep \in [Workers -> [phase : {"idle", "clock", "rows"}, instant : Instants,
                            found : SUBSET (Events \X Statuses)]]
  /\ inFlight \subseteq Events /\ mailbox \subseteq Events
  /\ deleted \subseteq Accounts /\ now \in Instants
  /\ \A e \in Events : row[e].status = "processing" <=> row[e].lease # NoLease

(* The audit trail of a row is one unbroken path that ends in its status:  *)
(* no transition is missing from it and none is recorded that did not      *)
(* happen, whichever invocations, sweeps and operators raced.              *)
AuditChain ==
  \A e \in Events : LET trail == audit[e] IN
    /\ \A i \in 1..Len(trail) - 1 : trail[i].to = trail[i + 1].from
    /\ trail # <<>> => trail[Len(trail)].to = row[e].status

(* An outcome an invocation records answers its own latest claim: between  *)
(* a claim and the outcome finalized for it nothing else touched the row,  *)
(* so an invocation that outlived its lease never records anything.        *)
OutcomeAnswersItsClaim ==
  \A e \in Events : \A i \in 1..Len(audit[e]) :
    (audit[e][i].action \in WorkerOutcomes /\ audit[e][i].by # NoWorker) =>
      /\ i > 1 /\ audit[e][i - 1].action = "claimed"
      /\ audit[e][i - 1].by = audit[e][i].by
      /\ audit[e][i - 1].attempt = audit[e][i].attempt

(* Every claim since the last replay is an attempt the row has paid for,   *)
(* so a row is handed to a handler at most max_attempts times per replay.  *)
ClaimsSinceReplay(e) ==
  {i \in 1..Len(audit[e]) : /\ audit[e][i].action = "claimed"
                            /\ \A j \in i..Len(audit[e]) : audit[e][j].action # "replayed"}
AttemptsPayForClaims ==
  \A e \in Events : /\ Cardinality(ClaimsSinceReplay(e)) <= row[e].attempts
                    /\ row[e].attempts <= MaxAttempts

(* A row marked delivered is one the provider accepted, although answers   *)
(* are lost, late, or meant for an earlier attempt.                        *)
DeliveredWasAccepted ==
  \A e \in Events : row[e].status = "delivered" => e \in mailbox

(* While a lease is live only its owner ends it: claims, sweeps, replays   *)
(* and account deletions leave the row to the invocation working on it.    *)
LiveLeaseIsRespected ==
  [][\A e \in Events :
       (row[e].status = "processing" /\ ~LeaseExpired(e)
          /\ (row'[e].status # "processing" \/ row'[e].lease # row[e].lease))
       => FinalizeWrite(row[e].lease.owner, e)]_vars

(* A settled row stays settled: only an operator's replay reopens a dead   *)
(* letter, and only an account deletion turns one into a suppression.      *)
SettledIsFinal ==
  [][\A e \in Events :
       row[e].status \in Terminal /\ row'[e].status # row[e].status =>
         /\ row[e].status = "dead_letter"
         /\ \/ row'[e].status = "pending" /\ row'[e].replays = row[e].replays + 1
            \/ row'[e].status = "suppressed" /\ Recipient[e] \in deleted']_vars

(* api/_outbox-retention.js:31-40: a settled row's next_attempt_at is      *)
(* never later than the instant its retention window counts from, by every *)
(* path but account deletion.                                               *)
DeliveryAnchors ==
  \A e \in Events : row[e].status \in {"delivered", "dead_letter"} =>
                      row[e].next <= row[e].anchor

-----------------------------------------------------------------------------
(* Fairness: cron runs for ever, each of its invocations claims and sweeps,*)
(* the platform does not end every one of them at the same step, provider  *)
(* calls are bounded by a timeout, and time passes.                        *)
Fairness ==
  /\ WF_vars(Tick)
  /\ \A w \in Workers :
       /\ SF_vars(\E S \in SUBSET Events : ClaimRound(w, S))
       /\ SF_vars(StartSweep(w)) /\ SF_vars(SweepSelect(w))
       /\ SF_vars(\E e \in Events, previous \in Statuses : SweepRow(w, e, previous))
       /\ WF_vars(ReadClaim(w))
       /\ \A e \in Events :
            /\ WF_vars(\E after \in RetryAfters : DeliveryFails(w, e, TRUE, after))
            /\ WF_vars(ReadFinalInstant(w, e)) /\ WF_vars(FinalizeWrite(w, e))

FairSpec == Spec /\ Fairness

(* Every queued message is settled: no crash, lost lease or provider       *)
(* failure leaves a row neither delivered, suppressed nor dead-lettered.   *)
EveryMessageIsSettled ==
  \A e \in Events : row[e].status # "absent" ~> row[e].status \in Terminal

-----------------------------------------------------------------------------
(* The outbox implements what it promises its producers.                   *)
Standing(e) ==
  CASE row[e].status = "absent" -> "unknown"
    [] row[e].status \in {"pending", "processing", "retry"} -> "owed"
    [] OTHER -> row[e].status

Promise == INSTANCE MailPromise WITH
  Messages <- Events, standing <- [e \in Events |-> Standing(e)], mail <- mailbox

(* Every step of the delivery machinery is a step of the promise or none.  *)
KeepsPromise == Promise!Safety
=============================================================================
