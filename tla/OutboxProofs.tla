---------------------------- MODULE OutboxProofs ----------------------------
(* What holds of the outbox for every set of rows, invocations and          *)
(* accounts and every lease, backoff and attempt limit, in four layers:     *)
(* types, the audit trail, the promise, and the accounts; then of the outbox *)
(* beside retention.                                                         *)
EXTENDS OutboxRetention, FiniteSetTheorems, TLAPS

(* A delivery that came to an end has an outcome to finalize.              *)
OutcomeKnown ==
  \A w \in Workers, e \in Events :
    task[w][e].phase \in {"resolved", "finalizing"} => task[w][e].outcome # "none"

Shape == TypeOK /\ OutcomeKnown

TaskType == [phase : Phases, token : Nat, attempt : 0..MaxAttempts,
             outcome : {"none", "retry"} \cup Terminal, delay : Nat,
             instant : Instants]

LEMMA ClipIsInstant == ASSUME NEW t \in Nat PROVE Clip(t) \in Instants
  BY OutboxAssumption DEF Clip, Instants

LEMMA BackoffIsNat ==
  ASSUME NEW attempt \in 0..MaxAttempts, NEW after \in RetryAfters
  PROVE  Backoff(attempt, after) \in Nat
<1> DEFINE doublings == IF attempt = 0 THEN 0 ELSE attempt - 1
<1>1. doublings \in 0..MaxAttempts
  BY OutboxAssumption
<1>2. 2^doublings \in Nat
  BY <1>1, OutboxAssumption
<1> HIDE DEF doublings
<1>3. BaseBackoff * 2^doublings \in Nat
  BY <1>2, OutboxAssumption
<1>4. MinOf(MaxBackoff, BaseBackoff * 2^doublings) \in Nat
  BY <1>3, OutboxAssumption DEF MinOf
<1>5. after \in Nat
  BY OutboxAssumption
<1> QED
  BY <1>4, <1>5, OutboxAssumption DEF Backoff, doublings, MinOf, MaxOf

LEMMA InitShape == Init => Shape
  BY OutboxAssumption
  DEF Init, Shape, TypeOK, OutcomeKnown, RowType, Absent, NoTask, NoSweep, NoLease,
      Statuses, Terminal, Payloads, Phases, Instants

(* The record transformers the actions are built from.                     *)
LEMMA TaskShapes ==
  ASSUME NEW t \in TaskType
  PROVE  /\ NoTask \in TaskType
         /\ \A token \in Nat, n \in 0..MaxAttempts : NewTask(token, n) \in TaskType
         /\ \A p \in Phases : Moved(t, p) \in TaskType
         /\ \A o \in {"retry"} \cup Terminal, d \in Nat : Resolved(t, o, d) \in TaskType
         /\ now \in Instants => Stamped(t) \in TaskType
<1>1. /\ {"idle", "claimed", "resolved", "finalizing"} \subseteq Phases
      /\ 0 \in Instants /\ 0 \in 0..MaxAttempts
  BY OutboxAssumption DEF Phases, Instants
<1>2. NoTask \in TaskType
  BY <1>1 DEF TaskType, NoTask
<1>3. \A token \in Nat, n \in 0..MaxAttempts, s \in TaskType :
        [s EXCEPT !.phase = "claimed", !.token = token, !.attempt = n] \in TaskType
  BY <1>1 DEF TaskType
<1>4. \A token \in Nat, n \in 0..MaxAttempts : NewTask(token, n) \in TaskType
  <2> HIDE DEF NoTask
  <2> QED BY <1>2, <1>3 DEF NewTask
<1>5. \A p \in Phases : Moved(t, p) \in TaskType
  BY DEF TaskType, Moved
<1>6. \A o \in {"retry"} \cup Terminal, d \in Nat : Resolved(t, o, d) \in TaskType
  BY <1>1 DEF TaskType, Resolved
<1>7. now \in Instants => Stamped(t) \in TaskType
  BY <1>1 DEF TaskType, Stamped
<1> QED
  BY <1>2, <1>4, <1>5, <1>6, <1>7

LEMMA RowLiterals ==
  /\ {"pending", "retry", "processing", "dead_letter", "suppressed", "delivered"} \subseteq Statuses
  /\ {"full", "tombstoned"} \subseteq Payloads
  /\ 0 \in Instants /\ 0 \in 0..MaxReplays /\ 0 \in 0..MaxAttempts
  /\ NoLease \in [owner : Workers \cup {NoWorker}, token : Nat]
  BY OutboxAssumption DEF Statuses, Terminal, Payloads, Instants, NoLease

IsLeased(r) == r.lease # NoLease
Consistent(r) == r.status = "processing" <=> IsLeased(r)

LEMMA FreshRows ==
  /\ \A at \in Instants : QueuedRow(at) \in RowType /\ Consistent(QueuedRow(at))
  /\ now \in Instants => \A n \in 0..MaxAttempts :
       BridgedRow(n) \in RowType /\ Consistent(BridgedRow(n))
<1>1. Absent \in RowType /\ ~IsLeased(Absent)
  BY RowLiterals DEF Absent, RowType, IsLeased, Statuses
<1>2. \A r \in RowType : ~IsLeased(r) =>
        \A at \in Instants :
          LET q == [r EXCEPT !.status = "pending", !.notBefore = at, !.next = at]
          IN  q \in RowType /\ Consistent(q)
  BY RowLiterals DEF RowType, Consistent, IsLeased
<1>3. \A r \in RowType : ~IsLeased(r) =>
        \A n \in 0..MaxAttempts, t \in Instants :
          LET q == [r EXCEPT !.status = "pending", !.attempts = n, !.next = t]
          IN  q \in RowType /\ Consistent(q)
  BY RowLiterals DEF RowType, Consistent, IsLeased
<1>4. \A r \in RowType : ~IsLeased(r) =>
        \A n \in 0..MaxAttempts, t \in Instants :
          LET q == [r EXCEPT !.status = "dead_letter", !.attempts = n, !.next = t, !.anchor = t]
          IN  q \in RowType /\ Consistent(q)
  BY RowLiterals DEF RowType, Consistent, IsLeased
<1> HIDE DEF Absent
<1> QED
  BY <1>1, <1>2, <1>3, <1>4 DEF QueuedRow, BridgedRow

LEMMA ClaimedRowShape ==
  ASSUME now \in Instants, NEW r \in RowType, r.attempts < MaxAttempts,
         NEW w \in Workers, NEW token \in Nat
  PROVE  ClaimedRow(r, w, token) \in RowType /\ Consistent(ClaimedRow(r, w, token))
<1>1. Clip(now + Lease) \in Instants
  BY ClipIsInstant, OutboxAssumption DEF Instants
<1>2. r.attempts + 1 \in 0..MaxAttempts
  BY OutboxAssumption DEF RowType
<1> QED
  BY <1>1, <1>2, OutboxAssumption
  DEF RowType, ClaimedRow, Consistent, IsLeased, NoLease, Statuses

LEMMA LeasedRowShapes ==
  ASSUME now \in Instants, NEW r \in RowType, Consistent(r)
  PROVE  /\ r.status = "processing" =>
              RenewedRow(r) \in RowType /\ Consistent(RenewedRow(r))
         /\ \A t \in TaskType : t.outcome # "none" =>
              FinalRow(r, t) \in RowType /\ Consistent(FinalRow(r, t))
         /\ \A instant \in Instants :
              SweptRow(r, instant) \in RowType /\ Consistent(SweptRow(r, instant))
<1>1. Clip(now + Lease) \in Instants
  BY ClipIsInstant, OutboxAssumption DEF Instants
<1>2. MaxOf(r.until, Clip(now + Lease)) \in Instants
  BY <1>1 DEF RowType, MaxOf
<1>3. ASSUME r.status = "processing"
      PROVE  RenewedRow(r) \in RowType /\ Consistent(RenewedRow(r))
  BY <1>2, <1>3 DEF RenewedRow, RowType, Consistent, IsLeased
<1>4. ASSUME NEW t \in TaskType, t.outcome # "none"
      PROVE  FinalRow(r, t) \in RowType /\ Consistent(FinalRow(r, t))
  <2>1. FinalNext(t) \in Instants /\ FinalAnchor(t) \in Instants
    BY ClipIsInstant, OutboxAssumption DEF FinalNext, FinalAnchor, TaskType, Instants
  <2>2. t.outcome \in Statuses /\ t.outcome # "processing"
    BY <1>4 DEF TaskType, Statuses, Terminal
  <2>3. NoLease \in [owner : Workers \cup {NoWorker}, token : Nat] /\ 0 \in Instants
    BY OutboxAssumption DEF NoLease, Instants
  <2> QED
    BY <2>1, <2>2, <2>3 DEF FinalRow, RowType, Consistent, IsLeased
<1>5. ASSUME NEW instant \in Instants
      PROVE  SweptRow(r, instant) \in RowType /\ Consistent(SweptRow(r, instant))
  BY <1>5, RowLiterals DEF SweptRow, RowType, Consistent, IsLeased
<1> QED
  BY <1>3, <1>4, <1>5

LEMMA ReleasedRowShapes ==
  ASSUME now \in Instants, NEW r \in RowType, Consistent(r)
  PROVE  /\ \A at \in Instants : r.status = "dead_letter" /\ r.replays < MaxReplays =>
              ReplayedRow(r, at) \in RowType /\ Consistent(ReplayedRow(r, at))
         /\ ScrubbedRow(SuppressedRow(r)) \in RowType
         /\ Consistent(ScrubbedRow(SuppressedRow(r)))
<1>1. ASSUME NEW at \in Instants, r.status = "dead_letter", r.replays < MaxReplays
      PROVE  ReplayedRow(r, at) \in RowType /\ Consistent(ReplayedRow(r, at))
  <2>1. r.replays + 1 \in 0..MaxReplays
    BY <1>1, OutboxAssumption DEF RowType
  <2> QED
    BY <1>1, <2>1, RowLiterals DEF ReplayedRow, RowType, Consistent, IsLeased
<1>2. SuppressedRow(r) \in RowType /\ Consistent(SuppressedRow(r))
  BY RowLiterals DEF SuppressedRow, Suppressible, RowType, Consistent, IsLeased
<1>3. \A s \in RowType : Consistent(s) => ScrubbedRow(s) \in RowType /\ Consistent(ScrubbedRow(s))
  BY DEF ScrubbedRow, RowType, Consistent, IsLeased, Payloads
<1> QED
  BY <1>1, <1>2, <1>3

(* Each step keeps the shape, one lemma per group of actions.              *)
LEMMA RowsHaveShape ==
  ASSUME Shape
  PROVE  /\ now \in Instants
         /\ \A e \in Events : row[e] \in RowType /\ Consistent(row[e])
         /\ \A w \in Workers, e \in Events : task[w][e] \in TaskType
  BY DEF Shape, TypeOK, TaskType, Consistent, IsLeased

LEMMA ProduceShape == ASSUME Shape, Produce PROVE Shape'
<1>1. \E e \in Events : \E r \in RowType :
        Consistent(r) /\ row' = [row EXCEPT ![e] = r]
  <2>1. CASE \E e \in Events, at \in now..Horizon : Enqueue(e, at)
    <3>1. now..Horizon \subseteq Instants
      BY RowsHaveShape, OutboxAssumption DEF Instants
    <3> QED BY <2>1, <3>1, FreshRows, RowsHaveShape DEF Enqueue
  <2>2. CASE \E e \in Legacy, spent \in 0..MaxAttempts : Bridge(e, spent)
    BY <2>2, FreshRows, RowsHaveShape, OutboxAssumption DEF Bridge
  <2> QED BY <2>1, <2>2 DEF Produce
<1>2. UNCHANGED <<audit, task, sweep, inFlight, mailbox, deleted, now>>
  BY DEF Produce, Enqueue, Bridge
<1> QED
  BY <1>1, <1>2 DEF Shape, TypeOK, OutcomeKnown, Consistent, IsLeased

LEMMA ClaimShape ==
  ASSUME Shape, NEW w \in Workers, NEW S \in SUBSET Events,
         \A e \in S : Due(e), ClaimRows(w, S)
  PROVE  Shape'
<1>1. \A e \in S : /\ row[e].attempts < MaxAttempts
                   /\ row[e].attempts + 1 \in 0..MaxAttempts
                   /\ FreshToken(e) \in Nat
  BY OutboxAssumption DEF Shape, TypeOK, RowType, Due, FreshToken
<1>2. \A e \in S : /\ ClaimedRow(row[e], w, FreshToken(e)) \in RowType
                   /\ Consistent(ClaimedRow(row[e], w, FreshToken(e)))
  BY <1>1, ClaimedRowShape, RowsHaveShape
<1>3. row' \in [Events -> RowType] /\ \A e \in Events : Consistent(row'[e])
  BY <1>2, RowsHaveShape DEF ClaimRows
<1>4. \A e \in S : ClaimEntry(w, e) \in Entries
  BY <1>1, RowLiterals, RowsHaveShape DEF ClaimEntry, Entry, Entries, Actions, RowType
<1>5. audit' \in [Events -> Seq(Entries)]
  BY <1>4 DEF ClaimRows, Shape, TypeOK
<1>6. \A e \in S : /\ NewTask(FreshToken(e), row[e].attempts + 1) \in TaskType
                   /\ NewTask(FreshToken(e), row[e].attempts + 1).phase = "claimed"
  BY <1>1, TaskShapes, RowsHaveShape DEF NewTask, NoTask
<1>7. task' \in [Workers -> [Events -> TaskType]] /\ OutcomeKnown'
  BY <1>6 DEF ClaimRows, Shape, TypeOK, TaskType, OutcomeKnown
<1> QED
  BY <1>3, <1>5, <1>7 DEF ClaimRows, Shape, TypeOK, TaskType, Consistent, IsLeased

(* A step of one invocation on one row it claimed.                         *)
LEMMA SetTaskShape ==
  ASSUME Shape, NEW w \in Workers, NEW e \in Events, NEW t \in TaskType,
         t.phase \in {"resolved", "finalizing"} => t.outcome # "none",
         SetTask(w, e, t)
  PROVE  task' \in [Workers -> [Events -> TaskType]] /\ OutcomeKnown'
  BY DEF Shape, TypeOK, TaskType, OutcomeKnown, SetTask

LEMMA ReadClaimShape == ASSUME Shape, NEW w \in Workers, ReadClaim(w) PROVE Shape'
<1>1. \A e \in Events : \A t \in {NoTask, Moved(task[w][e], "held")} :
        t \in TaskType /\ t.phase \notin {"resolved", "finalizing"}
  <2> TAKE e \in Events
  <2>1. NoTask \in TaskType /\ Moved(task[w][e], "held") \in TaskType
    BY TaskShapes, RowsHaveShape DEF Phases
  <2>2. Moved(task[w][e], "held").phase = "held" /\ NoTask.phase = "idle"
    BY RowsHaveShape DEF Moved, NoTask, TaskType
  <2> QED BY <2>1, <2>2
<1>2. task' \in [Workers -> [Events -> TaskType]] /\ OutcomeKnown'
  <2> HIDE DEF NoTask
  <2> QED BY <1>1 DEF ReadClaim, Shape, TypeOK, TaskType, OutcomeKnown
<1> QED
  BY <1>2 DEF ReadClaim, Shape, TypeOK, TaskType

LEMMA DeliverShape == ASSUME Shape, NEW w \in Workers, Deliver(w) PROVE Shape'
<1>1. PICK e \in Events :
        \/ Heartbeat(w, e) \/ CallProvider(w, e) \/ ProviderAnswers(w, e)
        \/ HandlerSuppresses(w, e)
        \/ \E retryable \in BOOLEAN, after \in RetryAfters :
             DeliveryFails(w, e, retryable, after)
        \/ ReadFinalInstant(w, e) \/ FinalizeWrite(w, e)
  BY DEF Deliver
<1> DEFINE t == task[w][e]
           r == row[e]
<1>2. now \in Instants /\ t \in TaskType /\ r \in RowType /\ Consistent(r)
  BY RowsHaveShape
<1>3. NoTask \in TaskType /\ NoTask.phase = "idle"
  BY <1>2, TaskShapes DEF NoTask
<1>4. /\ \A p \in Phases : Moved(t, p).phase = p
      /\ \A o, d : Resolved(t, o, d).phase = "resolved" /\ Resolved(t, o, d).outcome = o
      /\ Stamped(t).phase = "finalizing" /\ Stamped(t).outcome = t.outcome
  <2> HIDE DEF t
  <2> QED BY <1>2 DEF Moved, Resolved, Stamped, TaskType
<1>5. t.phase \in {"resolved", "finalizing"} => t.outcome # "none"
  BY DEF Shape, OutcomeKnown
<1>6. CASE Heartbeat(w, e)
  <2>1. r.status = "processing" => RenewedRow(r) \in RowType /\ Consistent(RenewedRow(r))
    BY <1>2, LeasedRowShapes
  <2>2. CASE OwnsLive(w, e)
    BY <1>6, <2>1, <2>2 DEF Heartbeat, OwnsLive, StillLeased, Shape, TypeOK, Consistent,
       IsLeased, OutcomeKnown
  <2>3. CASE ~OwnsLive(w, e)
    <3>1. task' \in [Workers -> [Events -> TaskType]] /\ OutcomeKnown'
      BY <1>3, <1>6, <2>3, SetTaskShape DEF Heartbeat, Forget
    <3> QED BY <1>6, <2>3, <3>1 DEF Heartbeat, Shape, TypeOK, TaskType
  <2> QED BY <2>2, <2>3
<1>7. CASE CallProvider(w, e)
  <2>1. task' \in [Workers -> [Events -> TaskType]] /\ OutcomeKnown'
    BY <1>2, <1>4, <1>7, TaskShapes, SetTaskShape DEF CallProvider, Phases
  <2> QED BY <1>7, <2>1 DEF CallProvider, Shape, TypeOK, TaskType
<1>8. CASE ProviderAnswers(w, e) \/ HandlerSuppresses(w, e)
  <2>1. PICK o \in Terminal : Resolve(w, e, o, 0)
    BY <1>8 DEF ProviderAnswers, HandlerSuppresses, Terminal
  <2>2. o # "none" /\ Resolved(t, o, 0) \in TaskType
    BY <1>2, TaskShapes DEF Terminal
  <2>3. task' \in [Workers -> [Events -> TaskType]] /\ OutcomeKnown'
    BY <1>2, <1>4, <2>1, <2>2, TaskShapes, SetTaskShape DEF Resolve
  <2> QED BY <1>8, <2>3 DEF ProviderAnswers, HandlerSuppresses, Shape, TypeOK, TaskType
<1>9. CASE \E retryable \in BOOLEAN, after \in RetryAfters :
             DeliveryFails(w, e, retryable, after)
  <2>1. PICK o \in {"retry", "dead_letter"}, d \in Nat : Resolve(w, e, o, d)
    <3>1. PICK retryable \in BOOLEAN, after \in RetryAfters :
            DeliveryFails(w, e, retryable, after)
      BY <1>9
    <3>2. t.attempt \in 0..MaxAttempts
      BY <1>2 DEF TaskType
    <3>3. Backoff(t.attempt, after) \in Nat
      BY <3>2, BackoffIsNat
    <3>4. FailureOutcome(t.attempt, retryable) \in {"retry", "dead_letter"}
      BY DEF FailureOutcome
    <3> QED BY <3>1, <3>3, <3>4 DEF DeliveryFails
  <2>2. o # "none" /\ o \in {"retry"} \cup Terminal
    BY <2>1 DEF Terminal
  <2>3. task' \in [Workers -> [Events -> TaskType]] /\ OutcomeKnown'
    BY <1>2, <1>4, <2>1, <2>2, TaskShapes, SetTaskShape DEF Resolve
  <2> QED BY <1>9, <2>3 DEF DeliveryFails, Shape, TypeOK, TaskType
<1>10. CASE ReadFinalInstant(w, e)
  <2>1. task' \in [Workers -> [Events -> TaskType]] /\ OutcomeKnown'
    BY <1>2, <1>4, <1>5, <1>10, TaskShapes, SetTaskShape DEF ReadFinalInstant
  <2> QED BY <1>10, <2>1 DEF ReadFinalInstant, Shape, TypeOK, TaskType
<1>11. CASE FinalizeWrite(w, e)
  <2>1. FinalRow(r, t) \in RowType /\ Consistent(FinalRow(r, t))
    BY <1>2, <1>5, <1>11, LeasedRowShapes DEF FinalizeWrite
  <2>2. row' \in [Events -> RowType] /\ \A f \in Events : Consistent(row'[f])
    BY <1>11, <2>1, RowsHaveShape DEF FinalizeWrite, Shape, TypeOK
  <2>3. Entry(OutcomeAction(t.outcome), w, "processing", t.outcome, t.attempt) \in Entries
    BY <1>2, <1>5, <1>11
    DEF FinalizeWrite, Entry, Entries, OutcomeAction, Actions, WorkerOutcomes, TaskType,
        Statuses, Terminal
  <2>4. audit' \in [Events -> Seq(Entries)]
    <3> DEFINE outcome ==
          Entry(OutcomeAction(t.outcome), w, "processing", t.outcome, t.attempt)
    <3>1. audit' = IF OwnsLive(w, e)
                     THEN [audit EXCEPT ![e] = Append(audit[e], outcome)] ELSE audit
      BY <1>11 DEF FinalizeWrite, Shape, TypeOK
    <3>2. outcome \in Entries
      BY <2>3
    <3> HIDE DEF outcome
    <3> QED BY <3>1, <3>2 DEF Shape, TypeOK
  <2>5. task' \in [Workers -> [Events -> TaskType]] /\ OutcomeKnown'
    BY <1>3, <1>11, SetTaskShape DEF FinalizeWrite, Forget
  <2> QED BY <1>11, <2>2, <2>4, <2>5 DEF FinalizeWrite, Shape, TypeOK, TaskType,
       Consistent, IsLeased
<1> QED
  BY <1>1, <1>6, <1>7, <1>8, <1>9, <1>10, <1>11

LEMMA SweepShape == ASSUME Shape, NEW w \in Workers, Sweep(w) PROVE Shape'
<1>1. CASE StartSweep(w)
  BY <1>1 DEF StartSweep, NoSweep, Shape, TypeOK, OutcomeKnown
<1>2. CASE SweepSelect(w)
  <2>1. \A e \in Events : row[e].status \in Statuses
    BY RowsHaveShape DEF RowType
  <2>2. {<<e, row[e].status>> : e \in {f \in Events : Exhausted(f, sweep[w].instant)}}
          \in SUBSET (Events \X Statuses)
    BY <2>1
  <2>3. sweep'[w] \in [phase : {"idle", "clock", "rows"}, instant : Instants,
                       found : SUBSET (Events \X Statuses)]
    BY <1>2, <2>2, RowLiterals DEF SweepSelect, NoSweep, Shape, TypeOK
  <2> QED BY <1>2, <2>3 DEF SweepSelect, Shape, TypeOK, OutcomeKnown
<1>3. CASE \E e \in Events, previous \in Statuses : SweepRow(w, e, previous)
  <2>1. PICK e \in Events, previous \in Statuses : SweepRow(w, e, previous)
    BY <1>3
  <2> DEFINE entry == Entry("dead_lettered", NoWorker, previous, "dead_letter", MaxAttempts)
             swept == SweptRow(row[e], sweep[w].instant)
  <2>2. entry \in Entries
    BY RowLiterals, OutboxAssumption DEF Entry, Entries, Actions, WorkerOutcomes
  <2>3. swept \in RowType /\ Consistent(swept)
    BY RowsHaveShape, LeasedRowShapes DEF Shape, TypeOK
  <2>4. /\ \/ row' = [row EXCEPT ![e] = swept] /\ audit' = [audit EXCEPT ![e] = Append(audit[e], entry)]
           \/ UNCHANGED <<row, audit>>
        /\ UNCHANGED <<task, inFlight, mailbox, deleted, now>>
    BY <2>1 DEF SweepRow, Shape, TypeOK
  <2>5. sweep' \in [Workers -> [phase : {"idle", "clock", "rows"}, instant : Instants,
                                found : SUBSET (Events \X Statuses)]]
    <3> DEFINE memory == [phase : {"idle", "clock", "rows"}, instant : Instants,
                          found : SUBSET (Events \X Statuses)]
               left == Without(sweep[w], <<e, previous>>)
    <3>1. NoSweep \in memory
      BY RowLiterals DEF NoSweep
    <3>2. \A s \in memory : \A x : Without(s, x) \in memory
      BY DEF Without
    <3>3. sweep \in [Workers -> memory]
      BY DEF Shape, TypeOK
    <3>4. left \in memory
      BY <3>2, <3>3
    <3>5. sweep' = [sweep EXCEPT ![w] =
                      IF sweep[w].found = {<<e, previous>>} THEN NoSweep ELSE left]
      BY <2>1 DEF SweepRow
    <3> HIDE DEF memory, left
    <3>6. sweep' \in [Workers -> memory]
      BY <3>1, <3>3, <3>4, <3>5
    <3> QED BY <3>6 DEF memory
  <2> HIDE DEF entry, swept
  <2>6. row' \in [Events -> RowType] /\ \A f \in Events : Consistent(row'[f])
    BY <2>3, <2>4, RowsHaveShape DEF Shape, TypeOK
  <2>7. audit' \in [Events -> Seq(Entries)]
    <3>1. audit \in [Events -> Seq(Entries)]
      BY DEF Shape, TypeOK
    <3>2. audit' = audit \/ audit' = [audit EXCEPT ![e] = Append(audit[e], entry)]
      BY <2>4
    <3>3. \A s \in Seq(Entries) : Append(s, entry) \in Seq(Entries)
      BY <2>2
    <3>4. Append(audit[e], entry) \in Seq(Entries)
      BY <3>1, <3>3
    <3> QED BY <3>1, <3>2, <3>4
  <2> QED BY <2>4, <2>5, <2>6, <2>7 DEF Shape, TypeOK, OutcomeKnown, Consistent, IsLeased
<1> QED
  BY <1>1, <1>2, <1>3 DEF Sweep

LEMMA ReplayShape ==
  ASSUME Shape, NEW e \in Events, NEW at \in Instants, Replay(e, at) PROVE Shape'
<1> DEFINE entry == Entry("replayed", NoWorker, "dead_letter", "pending", 0)
           replayed == ReplayedRow(row[e], at)
<1>1. entry \in Entries
  BY RowLiterals DEF Entry, Entries, Actions
<1>2. replayed \in RowType /\ Consistent(replayed)
  BY RowsHaveShape, ReleasedRowShapes DEF Replay, Replayable
<1>3. row' = [row EXCEPT ![e] = replayed] /\ audit' = [audit EXCEPT ![e] = Append(audit[e], entry)]
  BY DEF Replay, Shape, TypeOK
<1> HIDE DEF entry, replayed
<1>4. row' \in [Events -> RowType] /\ \A f \in Events : Consistent(row'[f])
  BY <1>2, <1>3, RowsHaveShape DEF Shape, TypeOK
<1>5. audit' \in [Events -> Seq(Entries)]
  BY <1>1, <1>3 DEF Shape, TypeOK
<1> QED
  BY <1>4, <1>5 DEF Replay, Shape, TypeOK, OutcomeKnown, Consistent, IsLeased

LEMMA DeleteAccountShape ==
  ASSUME Shape, NEW a \in Accounts, DeleteAccount(a) PROVE Shape'
<1>1. \A e \in Events : /\ ScrubbedRow(SuppressedRow(row[e])) \in RowType
                        /\ Consistent(ScrubbedRow(SuppressedRow(row[e])))
  BY RowsHaveShape, ReleasedRowShapes
<1>2. row' \in [Events -> RowType] /\ \A e \in Events : Consistent(row'[e])
  BY <1>1, RowsHaveShape DEF DeleteAccount
<1>3. \A e \in Events : Entry("suppressed", NoWorker, row[e].status, "suppressed",
                              row[e].attempts) \in Entries
  BY RowsHaveShape, RowLiterals DEF Entry, Entries, Actions, WorkerOutcomes, RowType
<1>4. audit' \in [Events -> Seq(Entries)]
  BY <1>3 DEF DeleteAccount, Shape, TypeOK
<1> QED
  BY <1>2, <1>4 DEF DeleteAccount, Shape, TypeOK, OutcomeKnown, Consistent, IsLeased

LEMMA CrashShape == ASSUME Shape, NEW w \in Workers, Crash(w) PROVE Shape'
  BY RowLiterals DEF Crash, NoTask, NoSweep, Shape, TypeOK, OutcomeKnown, Phases

LEMMA NextShape == Shape /\ [Next]_vars => Shape'
<1> SUFFICES ASSUME Shape, [Next]_vars PROVE Shape'
  OBVIOUS
<1>1. CASE Produce
  BY <1>1, ProduceShape
<1>2. ASSUME NEW w \in Workers, Claim(w) \/ ReadClaim(w) \/ Deliver(w) \/ Sweep(w) \/ Crash(w)
      PROVE  Shape'
  <2>1. CASE Claim(w)
    <3>1. PICK S \in SUBSET Events : (\A e \in S : Due(e)) /\ ClaimRows(w, S)
      BY <2>1 DEF Claim, ClaimByKey, ClaimRound, IsRound
    <3> QED BY <3>1, ClaimShape
  <2> QED
    BY <1>2, <2>1, ReadClaimShape, DeliverShape, SweepShape, CrashShape
<1>3. ASSUME NEW e \in Events, ProviderAccept(e) PROVE Shape'
  BY <1>3 DEF ProviderAccept, Shape, TypeOK, OutcomeKnown
<1>4. ASSUME NEW e \in Events, NEW at \in Instants, Replay(e, at) PROVE Shape'
  BY <1>4, ReplayShape
<1>5. ASSUME NEW a \in Accounts, DeleteAccount(a) PROVE Shape'
  BY <1>5, DeleteAccountShape
<1>6. CASE Tick
  BY <1>6, OutboxAssumption DEF Tick, Shape, TypeOK, OutcomeKnown, Instants
<1>7. CASE UNCHANGED vars
  BY <1>7 DEF vars, Shape, TypeOK, OutcomeKnown
<1> QED
  BY <1>1, <1>2, <1>3, <1>4, <1>5, <1>6, <1>7 DEF Next

(* The tables keep their types, and a row is under a lease exactly while   *)
(* it is processing, for any number of rows, workers and attempts.         *)
THEOREM TypeCorrect == Spec => []TypeOK
<1>1. Shape => TypeOK
  BY DEF Shape
<1> QED
  BY <1>1, InitShape, NextShape, PTL DEF Spec

-----------------------------------------------------------------------------
(* The audit trail and the leases.                                           *)

Chained(trail) == \A i \in 1..Len(trail) - 1 : trail[i].to = trail[i + 1].from
Answered(trail) ==
  \A i \in 1..Len(trail) :
    (trail[i].action \in WorkerOutcomes /\ trail[i].by # NoWorker) =>
      /\ i > 1 /\ trail[i - 1].action = "claimed"
      /\ trail[i - 1].by = trail[i].by /\ trail[i - 1].attempt = trail[i].attempt

(* A row and its trail agree; the trail of a leased row ends in the claim  *)
(* that took the lease.                                                     *)
Agree(trail, r) ==
  /\ Chained(trail) /\ Answered(trail)
  /\ trail # <<>> => trail[Len(trail)].to = r.status
  /\ r.status = "absent" => trail = <<>>
  /\ r.status = "processing" =>
       /\ Len(trail) > 0 /\ r.lease.token = Len(trail)
       /\ trail[Len(trail)].action = "claimed"
       /\ trail[Len(trail)].by = r.lease.owner

(* What an invocation remembers of a row names the claim it comes from.    *)
Remembers(w, trail, t) ==
  t.phase # "idle" =>
    /\ t.token \in 1..Len(trail) /\ trail[t.token].action = "claimed"
    /\ trail[t.token].by = w /\ trail[t.token].attempt = t.attempt

TrailInv ==
  /\ Shape
  /\ \A e \in Events : Agree(audit[e], row[e])
  /\ \A w \in Workers, e \in Events : Remembers(w, audit[e], task[w][e])

LEMMA AppendKeepsMemory ==
  ASSUME NEW trail \in Seq(Entries), NEW x \in Entries, NEW w, NEW t \in TaskType,
         Remembers(w, trail, t)
  PROVE  Remembers(w, Append(trail, x), t)
  BY DEF Remembers, TaskType

LEMMA AppendAgrees ==
  ASSUME NEW trail \in Seq(Entries), NEW x \in Entries, NEW r, NEW q,
         Agree(trail, r), x.from = r.status, x.to = q.status, q.status # "absent",
         q.status = "processing" => /\ q.lease.token = Len(trail) + 1
                                    /\ x.action = "claimed" /\ x.by = q.lease.owner,
         x.action \in WorkerOutcomes /\ x.by # NoWorker =>
           /\ trail # <<>> /\ trail[Len(trail)].action = "claimed"
           /\ trail[Len(trail)].by = x.by /\ trail[Len(trail)].attempt = x.attempt
  PROVE  Agree(Append(trail, x), q)
<1> DEFINE longer == Append(trail, x)
           n == Len(trail)
<1>1. /\ n \in Nat /\ Len(longer) = n + 1 /\ longer[n + 1] = x
      /\ \A i \in 1..n : longer[i] = trail[i]
      /\ longer # <<>>
  OBVIOUS
<1>2. trail # <<>> => n > 0
  OBVIOUS
<1> HIDE DEF longer, n
<1>3. ASSUME NEW i \in 1..Len(longer) - 1 PROVE longer[i].to = longer[i + 1].from
  <2>1. CASE i = n
    BY <1>1, <2>1 DEF Agree, n
  <2>2. CASE i # n
    <3>1. i \in 1..n - 1 /\ i + 1 \in 1..n /\ i \in 1..n
      BY <1>1, <1>3, <2>2
    <3> QED BY <1>1, <3>1 DEF Agree, Chained, n
  <2> QED BY <2>1, <2>2
<1>4. ASSUME NEW i \in 1..Len(longer),
             longer[i].action \in WorkerOutcomes, longer[i].by # NoWorker
      PROVE  /\ i > 1 /\ longer[i - 1].action = "claimed"
             /\ longer[i - 1].by = longer[i].by /\ longer[i - 1].attempt = longer[i].attempt
  <2>1. CASE i = n + 1
    <3>1. n > 0 /\ n \in 1..n
      BY <1>1, <1>2, <1>4, <2>1
    <3> QED BY <1>1, <1>4, <2>1, <3>1 DEF n
  <2>2. CASE i # n + 1
    <3>1. i \in 1..n
      BY <1>1, <1>4, <2>2
    <3>2. /\ i > 1 /\ trail[i - 1].action = "claimed"
          /\ trail[i - 1].by = trail[i].by /\ trail[i - 1].attempt = trail[i].attempt
      BY <1>1, <1>4, <3>1 DEF Agree, Answered, n
    <3>3. i - 1 \in 1..n
      BY <1>1, <3>1, <3>2
    <3> QED BY <1>1, <3>1, <3>2, <3>3
  <2> QED BY <2>1, <2>2
<1>5. Chained(longer) /\ Answered(longer)
  BY <1>3, <1>4 DEF Chained, Answered
<1> QED
  BY <1>1, <1>5 DEF Agree, longer, n

LEMMA InvFacts ==
  ASSUME TrailInv
  PROVE  /\ now \in Instants
         /\ row \in [Events -> RowType] /\ audit \in [Events -> Seq(Entries)]
         /\ task \in [Workers -> [Events -> TaskType]]
         /\ \A e \in Events : Agree(audit[e], row[e])
         /\ \A w \in Workers, e \in Events : Remembers(w, audit[e], task[w][e])
  BY RowsHaveShape DEF TrailInv, Shape, TypeOK, TaskType

(* Entries the actions append.                                             *)
LEMMA EntryFields ==
  ASSUME NEW a, NEW b, NEW f, NEW t, NEW n
  PROVE  LET x == Entry(a, b, f, t, n) IN
         x.action = a /\ x.by = b /\ x.from = f /\ x.to = t /\ x.attempt = n
  BY DEF Entry

LEMMA ProduceTrails == ASSUME TrailInv, Produce PROVE TrailInv'
<1>1. Shape'
  BY ProduceShape DEF TrailInv
<1>2. UNCHANGED <<audit, task>>
  BY DEF Produce, Enqueue, Bridge
<1>3. \E e \in Events : \E r :
        /\ row[e].status = "absent" /\ row' = [row EXCEPT ![e] = r]
        /\ r.status \notin {"absent", "processing"}
  <2>1. \A at : QueuedRow(at).status = "pending"
    BY DEF QueuedRow, Absent
  <2>2. \A n : BridgedRow(n).status \in {"pending", "dead_letter"}
    BY DEF BridgedRow, Absent
  <2> QED
    BY <2>1, <2>2, OutboxAssumption DEF Produce, Enqueue, Bridge, KeyIsFree
<1>4. \A e \in Events : Agree(audit[e], row'[e])
  BY <1>3, InvFacts DEF Agree
<1> QED
  BY <1>1, <1>2, <1>4 DEF TrailInv

LEMMA ClaimTrails ==
  ASSUME TrailInv, NEW w \in Workers, NEW S \in SUBSET Events,
         \A e \in S : Due(e), ClaimRows(w, S)
  PROVE  TrailInv'
<1>1. Shape'
  BY ClaimShape DEF TrailInv
<1>2. ASSUME NEW e \in S
      PROVE  /\ Agree(audit'[e], row'[e])
             /\ \A v \in Workers : Remembers(v, audit'[e], task'[v][e])
  <2> DEFINE x == ClaimEntry(w, e)
             q == ClaimedRow(row[e], w, FreshToken(e))
             t == NewTask(FreshToken(e), row[e].attempts + 1)
  <2>1. /\ x.from = row[e].status /\ x.to = "processing" /\ x.action = "claimed"
        /\ x.by = w /\ x.attempt = row[e].attempts + 1
    BY EntryFields DEF ClaimEntry
  <2>2. /\ q.status = "processing" /\ q.lease.owner = w /\ q.lease.token = Len(audit[e]) + 1
    <3> DEFINE r == row[e]
    <3>1. r \in RowType
      BY InvFacts
    <3> HIDE DEF r
    <3> QED BY <3>1 DEF ClaimedRow, FreshToken, RowType
  <2>3. t.token = Len(audit[e]) + 1 /\ t.attempt = row[e].attempts + 1
    BY DEF NewTask, NoTask, FreshToken
  <2>4. x \in Entries
    <3>1. row[e].attempts + 1 \in 0..MaxAttempts
      BY InvFacts, OutboxAssumption DEF Due, RowType
    <3> QED BY <3>1, RowLiterals, InvFacts DEF ClaimEntry, Entry, Entries, Actions, RowType
  <2>5. /\ audit'[e] = Append(audit[e], x) /\ row'[e] = q
        /\ task'[w][e] = t /\ \A v \in Workers \ {w} : task'[v][e] = task[v][e]
    BY InvFacts DEF ClaimRows
  <2>6. audit[e] \in Seq(Entries)
    BY InvFacts
  <2> HIDE DEF x, q, t
  <2>7. "claimed" \notin WorkerOutcomes
    BY DEF WorkerOutcomes
  <2>8. Agree(audit'[e], row'[e])
    BY <2>1, <2>2, <2>4, <2>5, <2>6, <2>7, InvFacts, AppendAgrees
  <2>9. \A v \in Workers \ {w} : Remembers(v, audit'[e], task'[v][e])
    BY <2>4, <2>5, <2>6, InvFacts, AppendKeepsMemory
  <2>10. Remembers(w, audit'[e], task'[w][e])
    BY <2>1, <2>3, <2>4, <2>5, <2>6 DEF Remembers
  <2> QED BY <2>8, <2>9, <2>10
<1>3. ASSUME NEW e \in Events \ S
      PROVE  /\ Agree(audit'[e], row'[e])
             /\ \A v \in Workers : Remembers(v, audit'[e], task'[v][e])
  <2>1. /\ audit'[e] = audit[e] /\ row'[e] = row[e]
        /\ \A v \in Workers : task'[v][e] = task[v][e]
    BY InvFacts DEF ClaimRows
  <2> QED BY <2>1, InvFacts
<1> QED
  BY <1>1, <1>2, <1>3 DEF TrailInv

(* Steps that only change what one invocation remembers of one row.        *)
SameClaim(s, t) == s.phase # "idle" => /\ t.phase # "idle"
                                       /\ s.token = t.token /\ s.attempt = t.attempt

LEMMA MovesKeepClaim ==
  ASSUME NEW t \in TaskType, t.phase # "idle"
  PROVE  /\ SameClaim(NoTask, t) /\ SameClaim(Stamped(t), t)
         /\ \A p : SameClaim(Moved(t, p), t)
         /\ \A o, d : SameClaim(Resolved(t, o, d), t)
  BY DEF SameClaim, NoTask, Stamped, Moved, Resolved, TaskType

LEMMA TaskStepTrails ==
  ASSUME TrailInv, Shape', UNCHANGED <<row, audit>>,
         \A w \in Workers, e \in Events : SameClaim(task'[w][e], task[w][e])
  PROVE  TrailInv'
  BY InvFacts DEF TrailInv, Remembers, SameClaim

LEMMA SetTaskKeepsOthers ==
  ASSUME TrailInv, NEW w \in Workers, NEW e \in Events, NEW t,
         SetTask(w, e, t), SameClaim(t, task[w][e])
  PROVE  \A v \in Workers, f \in Events : SameClaim(task'[v][f], task[v][f])
  BY InvFacts DEF SetTask, SameClaim

LEMMA ReadClaimTrails == ASSUME TrailInv, NEW w \in Workers, ReadClaim(w) PROVE TrailInv'
<1>1. Shape'
  BY ReadClaimShape DEF TrailInv
<1>2. ASSUME NEW v \in Workers, NEW e \in Events
      PROVE  SameClaim(task'[v][e], task[v][e])
  <2>1. \/ task'[v][e] = task[v][e]
        \/ task[v][e].phase = "claimed" /\ task'[v][e] \in {NoTask, Moved(task[v][e], "held")}
    <3> HIDE DEF NoTask
    <3> QED BY InvFacts DEF ReadClaim, Claimed
  <2> QED BY <2>1, InvFacts, MovesKeepClaim DEF SameClaim
<1> QED
  BY <1>1, <1>2, TaskStepTrails DEF ReadClaim

(* Steps that end a claim or reopen a row: one entry, one row.             *)
LEMMA RowStepTrails ==
  ASSUME TrailInv, Shape', NEW e \in Events, NEW x \in Entries, NEW q,
         audit' = [audit EXCEPT ![e] = Append(audit[e], x)],
         row' = [row EXCEPT ![e] = q],
         \A w \in Workers, f \in Events : SameClaim(task'[w][f], task[w][f]),
         x.from = row[e].status, x.to = q.status,
         q.status \notin {"absent", "processing"},
         x.action \in WorkerOutcomes /\ x.by # NoWorker =>
           /\ audit[e] # <<>> /\ audit[e][Len(audit[e])].action = "claimed"
           /\ audit[e][Len(audit[e])].by = x.by
           /\ audit[e][Len(audit[e])].attempt = x.attempt
  PROVE  TrailInv'
<1>1. audit[e] \in Seq(Entries) /\ Agree(audit[e], row[e])
  BY InvFacts
<1>2. Agree(Append(audit[e], x), q)
  BY <1>1, AppendAgrees
<1>3. \A f \in Events : Agree(audit'[f], row'[f])
  BY <1>2, InvFacts
<1>4. \A w \in Workers, f \in Events : Remembers(w, audit'[f], task[w][f])
  BY InvFacts, AppendKeepsMemory
<1>5. \A w \in Workers, f \in Events : Remembers(w, audit'[f], task'[w][f])
  BY <1>4 DEF Remembers, SameClaim
<1> QED
  BY <1>3, <1>5 DEF TrailInv

LEMMA DeliverTrails == ASSUME TrailInv, NEW w \in Workers, Deliver(w) PROVE TrailInv'
<1>1. Shape'
  BY DeliverShape DEF TrailInv
<1>2. PICK e \in Events :
        \/ Heartbeat(w, e) \/ CallProvider(w, e) \/ ProviderAnswers(w, e)
        \/ HandlerSuppresses(w, e)
        \/ \E retryable \in BOOLEAN, after \in RetryAfters :
             DeliveryFails(w, e, retryable, after)
        \/ ReadFinalInstant(w, e) \/ FinalizeWrite(w, e)
  BY DEF Deliver
<1> DEFINE t == task[w][e]
<1>3. t \in TaskType
  BY InvFacts
<1>4. CASE Heartbeat(w, e) /\ OwnsLive(w, e)
  <2>1. row' = [row EXCEPT ![e] = RenewedRow(row[e])] /\ UNCHANGED <<audit, task>>
    BY <1>4 DEF Heartbeat
  <2>2. RenewedRow(row[e]).status = row[e].status /\ RenewedRow(row[e]).lease = row[e].lease
    <3> DEFINE r == row[e]
    <3>1. r \in RowType
      BY InvFacts
    <3> HIDE DEF r
    <3> QED BY <3>1 DEF RenewedRow, RowType
  <2>3. \A f \in Events : row'[f].status = row[f].status /\ row'[f].lease = row[f].lease
    BY <2>1, <2>2, InvFacts
  <2>4. \A f \in Events : Agree(audit[f], row'[f])
    BY <2>3, InvFacts DEF Agree
  <2> QED BY <1>1, <2>1, <2>4 DEF TrailInv
<1>5. CASE \/ Heartbeat(w, e) /\ ~OwnsLive(w, e)
           \/ CallProvider(w, e) \/ ProviderAnswers(w, e) \/ HandlerSuppresses(w, e)
           \/ \E retryable \in BOOLEAN, after \in RetryAfters :
                DeliveryFails(w, e, retryable, after)
           \/ ReadFinalInstant(w, e)
  <2>1. t.phase # "idle" /\ UNCHANGED <<row, audit>>
    BY <1>5 DEF Heartbeat, CallProvider, ProviderAnswers, HandlerSuppresses,
       DeliveryFails, ReadFinalInstant
  <2>2. \E s : SetTask(w, e, s) /\ SameClaim(s, t)
    <3>1. \E s : /\ SetTask(w, e, s)
                 /\ \/ s = NoTask \/ s = Stamped(t)
                    \/ \E p : s = Moved(t, p)
                    \/ \E o, d : s = Resolved(t, o, d)
      BY <1>5 DEF Heartbeat, CallProvider, ProviderAnswers, HandlerSuppresses,
         DeliveryFails, ReadFinalInstant, Forget, Resolve
    <3> HIDE DEF t
    <3> QED BY <1>3, <2>1, <3>1, MovesKeepClaim
  <2>3. \A v \in Workers, f \in Events : SameClaim(task'[v][f], task[v][f])
    BY <2>2, SetTaskKeepsOthers
  <2> QED BY <1>1, <2>1, <2>3, TaskStepTrails
<1>6. CASE FinalizeWrite(w, e)
  <2>1. t.phase = "finalizing" /\ SetTask(w, e, NoTask)
    BY <1>6 DEF FinalizeWrite, Forget
  <2>2. SameClaim(NoTask, t)
    BY <1>3, <2>1, MovesKeepClaim
  <2>3. \A v \in Workers, f \in Events : SameClaim(task'[v][f], task[v][f])
    BY <2>1, <2>2, SetTaskKeepsOthers
  <2>4. CASE OwnsLive(w, e)
    <3> DEFINE x == Entry(OutcomeAction(t.outcome), w, "processing", t.outcome, t.attempt)
               q == FinalRow(row[e], t)
    <3>1. row' = [row EXCEPT ![e] = q] /\ audit' = [audit EXCEPT ![e] = Append(audit[e], x)]
      BY <1>6, <2>4 DEF FinalizeWrite
    <3>2. x.from = "processing" /\ x.to = t.outcome /\ x.by = w /\ x.attempt = t.attempt
      BY EntryFields
    <3>3. q.status = t.outcome
      <4> DEFINE r == row[e]
      <4>1. r \in RowType
        BY InvFacts
      <4> HIDE DEF r, t
      <4> QED BY <4>1 DEF FinalRow, RowType
    <3>4. t.outcome \in {"retry"} \cup Terminal
      BY <1>3, <2>1 DEF TrailInv, Shape, OutcomeKnown, TaskType
    <3>5. x \in Entries
      BY <1>3, <3>4 DEF Entry, Entries, OutcomeAction, Actions, WorkerOutcomes, TaskType,
         Statuses, Terminal
    <3>6. row[e].status = "processing" /\ row[e].lease = [owner |-> w, token |-> t.token]
      BY <2>4 DEF OwnsLive, StillLeased
    <3>7. /\ audit[e] # <<>> /\ t.token = Len(audit[e])
          /\ audit[e][Len(audit[e])].action = "claimed"
      BY <3>6, InvFacts DEF Agree
    <3>8. audit[e][Len(audit[e])].by = w /\ audit[e][Len(audit[e])].attempt = t.attempt
      BY <2>1, <3>7, InvFacts DEF Remembers
    <3> HIDE DEF x, q, t
    <3>9. q.status \notin {"absent", "processing"}
      BY <3>3, <3>4 DEF Terminal
    <3> QED BY <1>1, <2>3, <3>1, <3>2, <3>3, <3>5, <3>6, <3>7, <3>8, <3>9, RowStepTrails
  <2>5. CASE ~OwnsLive(w, e)
    BY <1>1, <1>6, <2>3, <2>5, TaskStepTrails DEF FinalizeWrite
  <2> QED BY <2>4, <2>5
<1> QED
  BY <1>2, <1>4, <1>5, <1>6

LEMMA SweepTrails == ASSUME TrailInv, NEW w \in Workers, Sweep(w) PROVE TrailInv'
<1>1. Shape'
  BY SweepShape DEF TrailInv
<1>2. \A v \in Workers, f \in Events : SameClaim(task[v][f], task[v][f])
  BY DEF SameClaim
<1>3. CASE UNCHANGED <<row, audit>>
  BY <1>1, <1>2, <1>3, TaskStepTrails DEF Sweep, StartSweep, SweepSelect, SweepRow
<1>4. ASSUME NEW e \in Events, NEW previous \in Statuses, SweepRow(w, e, previous),
             SweepGuard(e, previous, sweep[w].instant)
      PROVE  TrailInv'
  <2> DEFINE x == Entry("dead_lettered", NoWorker, previous, "dead_letter", MaxAttempts)
             q == SweptRow(row[e], sweep[w].instant)
  <2>1. /\ row' = [row EXCEPT ![e] = q] /\ audit' = [audit EXCEPT ![e] = Append(audit[e], x)]
        /\ UNCHANGED task /\ row[e].status = previous
    BY <1>4 DEF SweepRow, SweepGuard
  <2>2. x.from = previous /\ x.to = "dead_letter" /\ x.by = NoWorker
    BY EntryFields
  <2>3. x \in Entries
    BY RowLiterals, OutboxAssumption DEF Entry, Entries, Actions, WorkerOutcomes
  <2>4. q.status = "dead_letter"
    <3> DEFINE r == row[e]
    <3>1. r \in RowType
      BY InvFacts
    <3> HIDE DEF r
    <3> QED BY <3>1 DEF SweptRow, RowType
  <2> HIDE DEF x, q
  <2> QED BY <1>1, <1>2, <2>1, <2>2, <2>3, <2>4, RowStepTrails
<1> QED
  BY <1>3, <1>4 DEF Sweep, StartSweep, SweepSelect, SweepRow

LEMMA ReplayTrails ==
  ASSUME TrailInv, NEW e \in Events, NEW at \in Instants, Replay(e, at) PROVE TrailInv'
<1> DEFINE x == Entry("replayed", NoWorker, "dead_letter", "pending", 0)
           q == ReplayedRow(row[e], at)
<1>1. Shape'
  BY ReplayShape DEF TrailInv
<1>2. \A v \in Workers, f \in Events : SameClaim(task[v][f], task[v][f])
  BY DEF SameClaim
<1>3. /\ row' = [row EXCEPT ![e] = q] /\ audit' = [audit EXCEPT ![e] = Append(audit[e], x)]
      /\ UNCHANGED task /\ row[e].status = "dead_letter"
  BY DEF Replay, Replayable
<1>4. x \in Entries /\ x.from = "dead_letter" /\ x.to = "pending" /\ x.by = NoWorker
  BY RowLiterals DEF Entry, Entries, Actions
<1>5. q.status = "pending"
  <2> DEFINE r == row[e]
  <2>1. r \in RowType
    BY InvFacts
  <2> HIDE DEF r
  <2> QED BY <2>1 DEF ReplayedRow, RowType
<1> HIDE DEF x, q
<1> QED
  BY <1>1, <1>2, <1>3, <1>4, <1>5, RowStepTrails

LEMMA DeleteAccountTrails ==
  ASSUME TrailInv, NEW a \in Accounts, DeleteAccount(a) PROVE TrailInv'
<1>1. Shape' /\ UNCHANGED task
  BY DeleteAccountShape DEF TrailInv, DeleteAccount
<1>2. ASSUME NEW e \in Events
      PROVE  Agree(audit'[e], row'[e]) /\ \A w \in Workers : Remembers(w, audit'[e], task[w][e])
  <2> DEFINE r == row[e]
             x == Entry("suppressed", NoWorker, r.status, "suppressed", r.attempts)
             q == ScrubbedRow(SuppressedRow(r))
  <2>1. r \in RowType /\ audit[e] \in Seq(Entries) /\ Agree(audit[e], r)
    BY InvFacts
  <2>2. CASE row'[e] = q /\ Suppressible(r) /\ audit'[e] = Append(audit[e], x)
    <3>1. x \in Entries /\ x.from = r.status /\ x.to = "suppressed" /\ x.by = NoWorker
      BY <2>1, RowLiterals DEF Entry, Entries, Actions, WorkerOutcomes, RowType
    <3>2. q.status = "suppressed"
      <4> HIDE DEF r
      <4> QED BY <2>1, <2>2 DEF ScrubbedRow, SuppressedRow, RowType
    <3> HIDE DEF x, q, r
    <3>3. Agree(audit'[e], row'[e])
      BY <2>1, <2>2, <3>1, <3>2, AppendAgrees
    <3>4. \A w \in Workers : Remembers(w, audit'[e], task[w][e])
      BY <2>1, <2>2, <3>1, InvFacts, AppendKeepsMemory
    <3> QED BY <3>3, <3>4
  <2>3. CASE row'[e] = q /\ ~Suppressible(r) /\ audit'[e] = audit[e]
    <3>1. q.status = r.status /\ q.lease = r.lease
      <4> HIDE DEF r
      <4> QED BY <2>1, <2>3 DEF ScrubbedRow, SuppressedRow, RowType
    <3> HIDE DEF q
    <3> QED BY <2>1, <2>3, <3>1, InvFacts DEF Agree
  <2>4. CASE row'[e] = row[e] /\ audit'[e] = audit[e]
    BY <2>4, InvFacts
  <2> QED BY <2>2, <2>3, <2>4 DEF DeleteAccount
<1> QED
  BY <1>1, <1>2 DEF TrailInv

LEMMA NextTrails == TrailInv /\ [Next]_vars => TrailInv'
<1> SUFFICES ASSUME TrailInv, [Next]_vars PROVE TrailInv'
  OBVIOUS
<1>1. Shape'
  BY NextShape DEF TrailInv
<1>2. \A v \in Workers, f \in Events : SameClaim(task[v][f], task[v][f])
  BY DEF SameClaim
<1>3. CASE Produce
  BY <1>3, ProduceTrails
<1>4. ASSUME NEW w \in Workers, Claim(w) PROVE TrailInv'
  <2>1. PICK S \in SUBSET Events : (\A e \in S : Due(e)) /\ ClaimRows(w, S)
    BY <1>4 DEF Claim, ClaimByKey, ClaimRound, IsRound
  <2> QED BY <2>1, ClaimTrails
<1>5. ASSUME NEW w \in Workers, ReadClaim(w) \/ Deliver(w) \/ Sweep(w) PROVE TrailInv'
  BY <1>5, ReadClaimTrails, DeliverTrails, SweepTrails
<1>6. ASSUME NEW w \in Workers, Crash(w) PROVE TrailInv'
  <2>1. \A v \in Workers, f \in Events : SameClaim(task'[v][f], task[v][f])
    BY <1>6, InvFacts DEF Crash, NoTask, SameClaim
  <2> QED BY <1>1, <1>6, <2>1, TaskStepTrails DEF Crash
<1>7. ASSUME NEW e \in Events, NEW at \in Instants, Replay(e, at) PROVE TrailInv'
  BY <1>7, ReplayTrails
<1>8. ASSUME NEW a \in Accounts, DeleteAccount(a) PROVE TrailInv'
  BY <1>8, DeleteAccountTrails
<1>9. CASE (\E e \in Events : ProviderAccept(e)) \/ Tick \/ UNCHANGED vars
  BY <1>1, <1>2, <1>9, TaskStepTrails DEF ProviderAccept, Tick, vars
<1> QED
  BY <1>3, <1>4, <1>5, <1>6, <1>7, <1>8, <1>9 DEF Next

LEMMA InitTrails == Init => TrailInv
<1> SUFFICES ASSUME Init PROVE TrailInv
  OBVIOUS
<1>1. \A e \in Events : Agree(audit[e], row[e])
  BY DEF Init, Agree, Chained, Answered, Absent
<1>2. \A w \in Workers, e \in Events : Remembers(w, audit[e], task[w][e])
  BY DEF Init, Remembers, NoTask
<1> QED
  BY <1>1, <1>2, InitShape DEF TrailInv

(* The audit trail of every row is an unbroken path to its present status, *)
(* however many invocations, sweeps, replays and deletions interleave.     *)
THEOREM AuditIsUnbroken == Spec => []AuditChain
<1>1. TrailInv => AuditChain
  BY DEF TrailInv, AuditChain, Agree, Chained
<1> QED
  BY <1>1, InitTrails, NextTrails, PTL DEF Spec

(* An invocation that lost its lease records no outcome: each outcome in   *)
(* the trail follows the claim it answers with nothing in between.         *)
THEOREM StaleInvocationsRecordNothing == Spec => []OutcomeAnswersItsClaim
<1>1. TrailInv => OutcomeAnswersItsClaim
  BY DEF TrailInv, OutcomeAnswersItsClaim, Agree, Answered
<1> QED
  BY <1>1, InitTrails, NextTrails, PTL DEF Spec

-----------------------------------------------------------------------------
(* The promise: the delivery machinery refines MailPromise, leases are       *)
(* respected, and what is settled stays settled.                             *)
Queued == {"pending", "processing", "retry"}

(* A handler reports success, and a row says delivered, only of mail that  *)
(* the provider has.                                                        *)
Accepted ==
  /\ \A e \in Events : row[e].status = "delivered" => e \in mailbox
  /\ \A w \in Workers, e \in Events : task[w][e].outcome = "delivered" => e \in mailbox

(* Only mail that was recorded is ever on its way.                         *)
KnownInFlight == \A e \in inFlight : row[e].status # "absent"

(* What a sweep selected was queued, at an instant that is past.           *)
SweepIsSound ==
  \A w \in Workers : /\ sweep[w].instant <= now
                     /\ \A c \in sweep[w].found : c[2] \in Queued

PromiseInv == TrailInv /\ Accepted /\ KnownInFlight /\ SweepIsSound

LEMMA PromiseFacts ==
  ASSUME PromiseInv
  PROVE  /\ TrailInv /\ now \in Instants
         /\ row \in [Events -> RowType]
         /\ task \in [Workers -> [Events -> TaskType]]
         /\ sweep \in [Workers -> [phase : {"idle", "clock", "rows"}, instant : Instants,
                                   found : SUBSET (Events \X Statuses)]]
         /\ inFlight \subseteq Events /\ mailbox \subseteq Events
  BY InvFacts DEF PromiseInv, TrailInv, Shape, TypeOK

(* A row an invocation remembers exists.                                   *)
LEMMA RememberedRowExists ==
  ASSUME PromiseInv, NEW w \in Workers, NEW e \in Events, task[w][e].phase # "idle"
  PROVE  row[e].status # "absent"
<1>1. Agree(audit[e], row[e]) /\ Remembers(w, audit[e], task[w][e]) /\ audit[e] \in Seq(Entries)
  BY PromiseFacts, InvFacts
<1>2. Len(audit[e]) # 0
  BY <1>1 DEF Remembers
<1> QED
  BY <1>1, <1>2 DEF Agree

(* The fields of the rows each transformer returns.                        *)
LEMMA RowFields ==
  ASSUME NEW r \in RowType
  PROVE  /\ \A w, token : ClaimedRow(r, w, token).status = "processing"
         /\ RenewedRow(r).status = r.status /\ RenewedRow(r).lease = r.lease
         /\ \A t : FinalRow(r, t).status = t.outcome
         /\ \A i : SweptRow(r, i).status = "dead_letter"
         /\ \A at : /\ ReplayedRow(r, at).status = "pending"
                    /\ ReplayedRow(r, at).replays = r.replays + 1
         /\ Suppressible(r) => ScrubbedRow(SuppressedRow(r)).status = "suppressed"
         /\ ~Suppressible(r) => /\ ScrubbedRow(SuppressedRow(r)).status = r.status
                                /\ ScrubbedRow(SuppressedRow(r)).lease = r.lease
<1>1. /\ \A w, token : ClaimedRow(r, w, token).status = "processing"
      /\ RenewedRow(r).status = r.status /\ RenewedRow(r).lease = r.lease
      /\ \A t : FinalRow(r, t).status = t.outcome
  BY DEF ClaimedRow, RenewedRow, FinalRow, RowType
<1>2. /\ \A i : SweptRow(r, i).status = "dead_letter"
      /\ \A at : /\ ReplayedRow(r, at).status = "pending"
                 /\ ReplayedRow(r, at).replays = r.replays + 1
  BY DEF SweptRow, ReplayedRow, RowType
<1>3. /\ Suppressible(r) => ScrubbedRow(SuppressedRow(r)).status = "suppressed"
      /\ ~Suppressible(r) => /\ ScrubbedRow(SuppressedRow(r)).status = r.status
                             /\ ScrubbedRow(SuppressedRow(r)).lease = r.lease
  BY DEF ScrubbedRow, SuppressedRow, RowType
<1> QED
  BY <1>1, <1>2, <1>3

(* What one step can do to a row.                                          *)
RowKept(e)   == row'[e].status = row[e].status /\ row'[e].lease = row[e].lease
RowMade(e)   == row[e].status = "absent" /\ row'[e].status \in {"pending", "dead_letter"}
RowTaken(e)  == Due(e) /\ row'[e].status = "processing"
RowEnded(e)  == \E w \in Workers : /\ FinalizeWrite(w, e) /\ OwnsLive(w, e)
                                   /\ row'[e].status = task[w][e].outcome
RowSwept(e)  == /\ row[e].status \in Queued /\ row'[e].status = "dead_letter"
                /\ row[e].status = "processing" => LeaseExpired(e)
RowReopened(e) == /\ row[e].status = "dead_letter" /\ row'[e].status = "pending"
                  /\ row'[e].replays = row[e].replays + 1
RowWithdrawn(e) == /\ Suppressible(row[e]) /\ row'[e].status = "suppressed"
                   /\ Recipient[e] \in deleted'

LEMMA RowSteps ==
  ASSUME PromiseInv, [Next]_vars, NEW e \in Events
  PROVE  \/ RowKept(e) \/ RowMade(e) \/ RowTaken(e) \/ RowEnded(e)
         \/ RowSwept(e) \/ RowReopened(e) \/ RowWithdrawn(e)
<1> DEFINE r == row[e]
<1>0. r \in RowType /\ row \in [Events -> RowType]
  BY PromiseFacts
<1>1. CASE row'[e] = r
  BY <1>1 DEF RowKept
<1>2. CASE Produce
  <2>1. \A at : QueuedRow(at).status = "pending"
    BY DEF QueuedRow, Absent
  <2>2. \A n : BridgedRow(n).status \in {"pending", "dead_letter"}
    BY DEF BridgedRow, Absent
  <2> QED BY <1>0, <1>1, <1>2, <2>1, <2>2, OutboxAssumption
       DEF Produce, Enqueue, Bridge, KeyIsFree, RowMade
<1>3. ASSUME NEW w \in Workers, Claim(w) PROVE RowKept(e) \/ RowTaken(e)
  <2>1. PICK S \in SUBSET Events : (\A f \in S : Due(f)) /\ ClaimRows(w, S)
    BY <1>3 DEF Claim, ClaimByKey, ClaimRound, IsRound
  <2>2. e \in S => row'[e] = ClaimedRow(r, w, FreshToken(e))
    BY <2>1 DEF ClaimRows
  <2>3. e \notin S => row'[e] = r
    BY <2>1 DEF ClaimRows
  <2> QED BY <1>0, <2>1, <2>2, <2>3, RowFields DEF RowKept, RowTaken
<1>4. ASSUME NEW w \in Workers, Deliver(w) PROVE RowKept(e) \/ RowEnded(e)
  <2>1. PICK f \in Events :
        \/ Heartbeat(w, f) \/ CallProvider(w, f) \/ ProviderAnswers(w, f)
        \/ HandlerSuppresses(w, f)
        \/ \E retryable \in BOOLEAN, after \in RetryAfters :
             DeliveryFails(w, f, retryable, after)
        \/ ReadFinalInstant(w, f) \/ FinalizeWrite(w, f)
    BY <1>4 DEF Deliver
  <2>2. CASE Heartbeat(w, f)
    <3>1. row'[e] = row[e] \/ row'[e] = RenewedRow(row[e])
      BY <1>0, <2>2 DEF Heartbeat
    <3>2. RenewedRow(row[e]).status = row[e].status /\ RenewedRow(row[e]).lease = row[e].lease
      BY <1>0, RowFields
    <3> QED BY <3>1, <3>2 DEF RowKept
  <2>3. CASE FinalizeWrite(w, f)
    <3>1. \/ row'[e] = row[e]
          \/ f = e /\ OwnsLive(w, e) /\ row'[e] = FinalRow(row[e], task[w][e])
      BY <1>0, <2>3 DEF FinalizeWrite
    <3>2. FinalRow(row[e], task[w][e]).status = task[w][e].outcome
      BY <1>0, RowFields
    <3> QED BY <2>3, <3>1, <3>2 DEF RowKept, RowEnded
  <2> QED BY <1>1, <2>1, <2>2, <2>3
       DEF CallProvider, ProviderAnswers, HandlerSuppresses, DeliveryFails, ReadFinalInstant, RowKept
<1>5. ASSUME NEW w \in Workers, Sweep(w) PROVE RowKept(e) \/ RowSwept(e)
  <2>1. CASE row' = row
    BY <2>1 DEF RowKept
  <2>2. ASSUME NEW f \in Events, NEW previous \in Statuses, SweepRow(w, f, previous),
               SweepGuard(f, previous, sweep[w].instant)
        PROVE  RowKept(e) \/ RowSwept(e)
    <3>1. \/ row'[e] = row[e]
          \/ f = e /\ row'[e] = SweptRow(row[e], sweep[w].instant)
      <4>1. row' = [row EXCEPT ![f] = SweptRow(row[f], sweep[w].instant)]
        BY <2>2 DEF SweepRow
      <4> QED BY <1>0, <4>1
    <3>2. previous \in Queued
      BY <2>2 DEF SweepRow, PromiseInv, SweepIsSound
    <3>3. row[f].status = "processing" => LeaseExpired(f)
      <4>1. sweep[w].instant <= now /\ sweep[w].instant \in Nat /\ now \in Nat
        BY PromiseFacts, OutboxAssumption DEF PromiseInv, SweepIsSound, Instants
      <4>2. row[f].until \in Nat
        BY <1>0, OutboxAssumption DEF RowType, Instants
      <4> QED BY <2>2, <4>1, <4>2 DEF SweepGuard, LeaseExpired
    <3>4. SweptRow(row[e], sweep[w].instant).status = "dead_letter"
      BY <1>0, RowFields
    <3> QED BY <2>2, <3>1, <3>2, <3>3, <3>4 DEF SweepGuard, RowKept, RowSwept
  <2> QED BY <1>5, <2>1, <2>2 DEF Sweep, StartSweep, SweepSelect, SweepRow
<1>6. ASSUME NEW f \in Events, NEW at \in Instants, Replay(f, at)
      PROVE  RowKept(e) \/ RowReopened(e)
  <2>1. \/ row'[e] = row[e]
        \/ row[e].status = "dead_letter" /\ row'[e] = ReplayedRow(row[e], at)
    BY <1>0, <1>6 DEF Replay, Replayable
  <2>2. /\ ReplayedRow(row[e], at).status = "pending"
        /\ ReplayedRow(row[e], at).replays = row[e].replays + 1
    BY <1>0, RowFields
  <2> QED BY <2>1, <2>2 DEF RowKept, RowReopened
<1>7. ASSUME NEW a \in Accounts, DeleteAccount(a) PROVE RowKept(e) \/ RowWithdrawn(e)
  <2>1. \/ row'[e] = r
        \/ row'[e] = ScrubbedRow(SuppressedRow(r)) /\ Recipient[e] = a /\ a \in deleted'
    BY <1>7 DEF DeleteAccount
  <2> HIDE DEF r
  <2>2. r = row[e]
    BY DEF r
  <2> QED BY <1>0, <2>1, <2>2, RowFields DEF RowKept, RowWithdrawn
<1>8. CASE \/ \E w \in Workers : ReadClaim(w) \/ Crash(w)
           \/ \E f \in Events : ProviderAccept(f)
           \/ Tick \/ UNCHANGED vars
  BY <1>1, <1>8 DEF ReadClaim, Crash, ProviderAccept, Tick, vars
<1> QED
  BY <1>2, <1>3, <1>4, <1>5, <1>6, <1>7, <1>8 DEF Next

-----------------------------------------------------------------------------
LEMMA InitPromise == Init => PromiseInv
<1> SUFFICES ASSUME Init PROVE PromiseInv
  OBVIOUS
<1>1. Accepted /\ KnownInFlight
  BY DEF Init, Accepted, KnownInFlight, Absent, NoTask
<1>2. SweepIsSound
  BY DEF Init, SweepIsSound, NoSweep
<1> QED
  BY <1>1, <1>2, InitTrails DEF PromiseInv

(* Which steps touch the provider, the mailbox or the clock.               *)
LEMMA Frames ==
  ASSUME [Next]_vars
  PROVE  \/ UNCHANGED <<inFlight, mailbox, now>>
         \/ /\ \E w \in Workers, e \in Events : CallProvider(w, e)
            /\ UNCHANGED <<mailbox, now>>
         \/ (\E e \in Events : ProviderAccept(e)) /\ UNCHANGED now
         \/ Tick
<1>1. CASE Produce \/ UNCHANGED vars
  BY <1>1 DEF Produce, Enqueue, Bridge, vars
<1>2. ASSUME NEW w \in Workers, Claim(w) \/ ReadClaim(w) \/ Crash(w)
      PROVE  UNCHANGED <<inFlight, mailbox, now>>
  BY <1>2 DEF Claim, ClaimByKey, ClaimRound, ClaimRows, ReadClaim, Crash
<1>3. ASSUME NEW w \in Workers, Sweep(w) PROVE UNCHANGED <<inFlight, mailbox, now>>
  BY <1>3 DEF Sweep, StartSweep, SweepSelect, SweepRow
<1>4. ASSUME NEW w \in Workers, Deliver(w)
      PROVE  \/ UNCHANGED <<inFlight, mailbox, now>>
             \/ (\E e \in Events : CallProvider(w, e)) /\ UNCHANGED <<mailbox, now>>
  BY <1>4 DEF Deliver, Heartbeat, CallProvider, ProviderAnswers, HandlerSuppresses,
     DeliveryFails, ReadFinalInstant, FinalizeWrite
<1>5. ASSUME NEW e \in Events, ProviderAccept(e) PROVE UNCHANGED now
  BY <1>5 DEF ProviderAccept
<1>6. ASSUME NEW e \in Events, NEW at \in Instants, Replay(e, at)
      PROVE  UNCHANGED <<inFlight, mailbox, now>>
  BY <1>6 DEF Replay
<1>7. ASSUME NEW a \in Accounts, DeleteAccount(a) PROVE UNCHANGED <<inFlight, mailbox, now>>
  BY <1>7 DEF DeleteAccount
<1> QED
  BY <1>1, <1>2, <1>3, <1>4, <1>5, <1>6, <1>7 DEF Next

LEMMA KnownInFlightKept ==
  ASSUME PromiseInv, [Next]_vars PROVE KnownInFlight'
<1>1. \A e \in Events : row[e].status # "absent" => row'[e].status # "absent"
  <2> TAKE e \in Events
  <2>1. \A w \in Workers : FinalizeWrite(w, e) => task[w][e].outcome # "absent"
    BY PromiseFacts DEF TaskType, Terminal
  <2> QED BY <2>1, RowSteps DEF RowKept, RowMade, RowTaken, RowEnded, RowSwept,
       RowReopened, RowWithdrawn
<1>2. \A e \in inFlight' : e \in inFlight \/ \E w \in Workers : CallProvider(w, e)
  BY Frames DEF ProviderAccept, CallProvider, Tick
<1>3. \A w \in Workers, e \in Events : CallProvider(w, e) => row[e].status # "absent"
  BY RememberedRowExists DEF CallProvider
<1>4. inFlight' \subseteq Events
  BY PromiseFacts, NextShape DEF TrailInv, Shape, TypeOK
<1> QED
  BY <1>1, <1>2, <1>3, <1>4 DEF PromiseInv, KnownInFlight

(* What an invocation's memory of one row becomes in one step.             *)
LEMMA OutcomeSteps ==
  ASSUME PromiseInv, [Next]_vars, NEW w \in Workers, NEW e \in Events,
         task'[w][e].outcome = "delivered"
  PROVE  task[w][e].outcome = "delivered" \/ e \in mailbox
<1>0. task \in [Workers -> [Events -> TaskType]]
  BY PromiseFacts
<1>1. CASE task' = task
  BY <1>1
<1>2. ASSUME NEW v \in Workers, Claim(v)
      PROVE  task'[w][e].outcome \in {"none", task[w][e].outcome}
  <2>1. PICK S \in SUBSET Events : ClaimRows(v, S)
    BY <1>2 DEF Claim, ClaimByKey, ClaimRound
  <2>2. \A token, n : NewTask(token, n).outcome = "none"
    BY DEF NewTask, NoTask
  <2> QED BY <1>0, <2>1, <2>2 DEF ClaimRows
<1>3. ASSUME NEW v \in Workers, ReadClaim(v)
      PROVE  task'[w][e].outcome \in {"none", task[w][e].outcome}
  <2>1. task'[w][e] \in {task[w][e], NoTask, Moved(task[w][e], "held")}
    <3> HIDE DEF NoTask
    <3> QED BY <1>0, <1>3 DEF ReadClaim
  <2>2. NoTask.outcome = "none" /\ Moved(task[w][e], "held").outcome = task[w][e].outcome
    BY <1>0 DEF NoTask, Moved, TaskType
  <2> QED BY <2>1, <2>2
<1>4. ASSUME NEW v \in Workers, Crash(v)
      PROVE  task'[w][e].outcome \in {"none", task[w][e].outcome}
  BY <1>0, <1>4 DEF Crash, NoTask
<1>5. ASSUME NEW v \in Workers, Deliver(v) PROVE \/ task'[w][e].outcome # "delivered"
                                                \/ task[w][e].outcome = "delivered"
                                                \/ e \in mailbox
  <2>1. PICK f \in Events :
        \/ Heartbeat(v, f) \/ CallProvider(v, f) \/ ProviderAnswers(v, f)
        \/ HandlerSuppresses(v, f)
        \/ \E retryable \in BOOLEAN, after \in RetryAfters :
             DeliveryFails(v, f, retryable, after)
        \/ ReadFinalInstant(v, f) \/ FinalizeWrite(v, f)
    BY <1>5 DEF Deliver
  <2> DEFINE t == task[v][f]
  <2>2. t \in TaskType
    BY <1>0
  <2>3. \/ UNCHANGED task
        \/ \E s : /\ SetTask(v, f, s)
                  /\ \/ s \in {NoTask, Moved(t, "calling"), Stamped(t)}
                     \/ s = Resolved(t, "delivered", 0) /\ f \in mailbox
                     \/ s = Resolved(t, "suppressed", 0)
                     \/ \E o \in {"retry", "dead_letter"} : \E d : s = Resolved(t, o, d)
    <3> HIDE DEF NoTask
    <3>1. \A n, b : FailureOutcome(n, b) \in {"retry", "dead_letter"}
      BY DEF FailureOutcome
    <3> QED BY <2>1, <3>1 DEF Heartbeat, CallProvider, ProviderAnswers, HandlerSuppresses,
         DeliveryFails, ReadFinalInstant, FinalizeWrite, Forget, Resolve
  <2>4. /\ NoTask.outcome = "none" /\ Moved(t, "calling").outcome = t.outcome
        /\ Stamped(t).outcome = t.outcome
        /\ \A o, d : Resolved(t, o, d).outcome = o
    <3> HIDE DEF t
    <3> QED BY <2>2 DEF NoTask, Moved, Stamped, Resolved, TaskType
  <2>5. \A s : SetTask(v, f, s) => task'[w][e] = IF v = w /\ f = e THEN s ELSE task[w][e]
    BY <1>0 DEF SetTask
  <2> HIDE DEF t, NoTask
  <2>6. t = task[v][f]
    BY DEF t
  <2> QED BY <2>3, <2>4, <2>5, <2>6
<1>6. CASE \/ Produce \/ (\E v \in Workers : Sweep(v)) \/ (\E f \in Events : ProviderAccept(f))
           \/ (\E f \in Events, at \in Instants : Replay(f, at))
           \/ (\E a \in Accounts : DeleteAccount(a)) \/ Tick \/ UNCHANGED vars
  BY <1>1, <1>6 DEF Produce, Enqueue, Bridge, Sweep, StartSweep, SweepSelect, SweepRow,
     ProviderAccept, Replay, DeleteAccount, Tick, vars
<1> QED
  BY <1>2, <1>3, <1>4, <1>5, <1>6 DEF Next

LEMMA AcceptedKept == ASSUME PromiseInv, [Next]_vars PROVE Accepted'
<1>1. mailbox \subseteq mailbox'
  BY Frames DEF ProviderAccept, Tick
<1>2. ASSUME NEW e \in Events, row'[e].status = "delivered" PROVE e \in mailbox
  <2>1. \A w \in Workers : task[w][e].outcome = "delivered" => e \in mailbox
    BY DEF PromiseInv, Accepted
  <2>2. row[e].status = "delivered" => e \in mailbox
    BY DEF PromiseInv, Accepted
  <2> QED BY <1>2, <2>1, <2>2, RowSteps DEF RowKept, RowMade, RowTaken, RowEnded, RowSwept,
       RowReopened, RowWithdrawn
<1>3. ASSUME NEW w \in Workers, NEW e \in Events, task'[w][e].outcome = "delivered"
      PROVE  e \in mailbox
  BY <1>3, OutcomeSteps DEF PromiseInv, Accepted
<1> QED
  BY <1>1, <1>2, <1>3 DEF Accepted

LEMMA SweepIsSoundKept == ASSUME PromiseInv, [Next]_vars PROVE SweepIsSound'
<1>0. /\ now \in Nat /\ now' \in Nat /\ now <= now'
      /\ \A w \in Workers : sweep[w].instant \in Nat
  <2>1. \A w \in Workers : sweep[w].instant \in Instants
    BY PromiseFacts
  <2>2. now' = now \/ now' = now + 1
    BY Frames DEF Tick
  <2> QED BY <2>1, <2>2, PromiseFacts, OutboxAssumption DEF Instants
<1>1. CASE UNCHANGED sweep
  BY <1>0, <1>1 DEF PromiseInv, SweepIsSound
<1>2. ASSUME NEW w \in Workers, Crash(w) PROVE SweepIsSound'
  BY <1>0, <1>2, PromiseFacts DEF Crash, NoSweep, PromiseInv, SweepIsSound
<1>3. ASSUME NEW w \in Workers, StartSweep(w) PROVE SweepIsSound'
  BY <1>0, <1>3, PromiseFacts DEF StartSweep, NoSweep, PromiseInv, SweepIsSound
<1>4. ASSUME NEW w \in Workers, SweepSelect(w) PROVE SweepIsSound'
  <2>1. \A e \in Events : Exhausted(e, sweep[w].instant) => row[e].status \in Queued
    BY DEF Exhausted, Queued
  <2>2. \A c \in sweep'[w].found : c[2] \in Queued
    BY <1>4, <2>1, PromiseFacts DEF SweepSelect, NoSweep
  <2>3. sweep'[w].instant \in {0, sweep[w].instant}
    BY <1>4, PromiseFacts DEF SweepSelect, NoSweep
  <2>4. \A v \in Workers \ {w} : sweep'[v] = sweep[v]
    BY <1>4, PromiseFacts DEF SweepSelect
  <2> QED BY <1>0, <2>2, <2>3, <2>4 DEF PromiseInv, SweepIsSound
<1>5. ASSUME NEW w \in Workers, NEW e \in Events, NEW p \in Statuses, SweepRow(w, e, p)
      PROVE  SweepIsSound'
  <2>1. sweep'[w] \in {NoSweep, Without(sweep[w], <<e, p>>)}
    BY <1>5, PromiseFacts DEF SweepRow
  <2>2. /\ Without(sweep[w], <<e, p>>).instant = sweep[w].instant
        /\ Without(sweep[w], <<e, p>>).found \subseteq sweep[w].found
    BY PromiseFacts DEF Without
  <2>3. NoSweep.instant = 0 /\ NoSweep.found = {}
    BY DEF NoSweep
  <2>4. \A v \in Workers \ {w} : sweep'[v] = sweep[v]
    BY <1>5, PromiseFacts DEF SweepRow
  <2> HIDE DEF NoSweep
  <2> QED BY <1>0, <2>1, <2>2, <2>3, <2>4 DEF PromiseInv, SweepIsSound
<1> QED
  BY <1>1, <1>2, <1>3, <1>4, <1>5
  DEF Next, vars, Produce, Enqueue, Bridge, Claim, ClaimByKey, ClaimRound, ClaimRows,
      ReadClaim, Deliver, Heartbeat, CallProvider, ProviderAnswers, HandlerSuppresses,
      DeliveryFails, ReadFinalInstant, FinalizeWrite, Sweep, Replay, DeleteAccount, Tick,
      ProviderAccept

LEMMA NextPromise == PromiseInv /\ [Next]_vars => PromiseInv'
<1> SUFFICES ASSUME PromiseInv, [Next]_vars PROVE PromiseInv'
  OBVIOUS
<1> QED
  BY NextTrails, AcceptedKept, KnownInFlightKept, SweepIsSoundKept DEF PromiseInv

-----------------------------------------------------------------------------
(* The provider has every message that is marked delivered.                *)
THEOREM DeliveredMeansAccepted == Spec => []DeliveredWasAccepted
<1>1. PromiseInv => DeliveredWasAccepted
  BY DEF PromiseInv, Accepted, DeliveredWasAccepted
<1> QED
  BY <1>1, InitPromise, NextPromise, PTL DEF Spec

LEMMA StepRespectsLeases ==
  ASSUME PromiseInv, [Next]_vars, NEW e \in Events, row[e].status = "processing",
         ~LeaseExpired(e), row'[e].status # "processing" \/ row'[e].lease # row[e].lease
  PROVE  FinalizeWrite(row[e].lease.owner, e)
<1>1. RowEnded(e)
  BY RowSteps DEF RowKept, RowMade, RowTaken, RowSwept, RowReopened, RowWithdrawn, Due,
     Claimable, Suppressible
<1>2. PICK w \in Workers : FinalizeWrite(w, e) /\ OwnsLive(w, e)
  BY <1>1 DEF RowEnded
<1>3. row[e].lease.owner = w
  BY <1>2 DEF OwnsLive, StillLeased
<1> QED
  BY <1>2, <1>3

(* While its lease runs, a row is the owner's: no claim, sweep, replay or   *)
(* account deletion takes it away.                                          *)
THEOREM LeasesAreRespected == Spec => LiveLeaseIsRespected
<1>1. PromiseInv /\ [Next]_vars =>
        [\A e \in Events :
           (row[e].status = "processing" /\ ~LeaseExpired(e)
              /\ (row'[e].status # "processing" \/ row'[e].lease # row[e].lease))
           => FinalizeWrite(row[e].lease.owner, e)]_vars
  BY StepRespectsLeases
<1> QED
  BY <1>1, InitPromise, NextPromise, PTL DEF Spec, LiveLeaseIsRespected

LEMMA StepKeepsSettled ==
  ASSUME PromiseInv, [Next]_vars, NEW e \in Events,
         row[e].status \in Terminal, row'[e].status # row[e].status
  PROVE  /\ row[e].status = "dead_letter"
         /\ \/ row'[e].status = "pending" /\ row'[e].replays = row[e].replays + 1
            \/ row'[e].status = "suppressed" /\ Recipient[e] \in deleted'
  BY RowSteps DEF RowKept, RowMade, RowTaken, RowEnded, RowSwept, RowReopened, RowWithdrawn,
     Due, Claimable, OwnsLive, StillLeased, Suppressible, Terminal, Queued

(* A settled row changes only by an operator's replay of a dead letter or  *)
(* by the deletion of its recipient's account.                             *)
THEOREM SettledStaysSettled == Spec => SettledIsFinal
<1>1. PromiseInv /\ [Next]_vars =>
        [\A e \in Events :
           row[e].status \in Terminal /\ row'[e].status # row[e].status =>
             /\ row[e].status = "dead_letter"
             /\ \/ row'[e].status = "pending" /\ row'[e].replays = row[e].replays + 1
                \/ row'[e].status = "suppressed" /\ Recipient[e] \in deleted']_vars
  BY StepKeepsSettled
<1> QED
  BY <1>1, InitPromise, NextPromise, PTL DEF Spec, SettledIsFinal

-----------------------------------------------------------------------------
(* Refinement.                                                              *)
StandingOf(status) ==
  CASE status = "absent" -> "unknown"
    [] status \in {"pending", "processing", "retry"} -> "owed"
    [] OTHER -> status

LEMMA StandingFacts ==
  /\ \A e \in Events : Standing(e) = StandingOf(row[e].status)
  /\ \A e \in Events : Standing(e)' = StandingOf(row'[e].status)
  /\ StandingOf("absent") = "unknown"
  /\ \A s \in Queued : StandingOf(s) = "owed"
  /\ \A s \in Terminal : StandingOf(s) = s
  BY DEF Standing, StandingOf, Queued, Terminal

LEMMA InitRefines == Init => Promise!Init
  BY StandingFacts DEF Init, Promise!Init, Absent

(* A step that changes the row of one message and no mail.                 *)
LEMMA OneRowRefines ==
  ASSUME PromiseInv, [Next]_vars, NEW m \in Events, UNCHANGED mailbox,
         \A f \in Events \ {m} : row'[f] = row[f],
         ~RowTaken(m), ~RowWithdrawn(m)
  PROVE  [Promise!Next]_<<[e \in Events |-> Standing(e)], mailbox>>
<1> DEFINE st == [e \in Events |-> Standing(e)]
<1>1. st' = [st EXCEPT ![m] = StandingOf(row'[m].status)]
  <2>1. st' = [f \in Events |-> StandingOf(row'[f].status)]
    BY StandingFacts
  <2>2. \A f \in Events \ {m} : StandingOf(row'[f].status) = st[f]
    BY StandingFacts
  <2> HIDE DEF st
  <2>3. st = [f \in Events |-> st[f]]
    BY DEF st
  <2> QED BY <2>1, <2>2, <2>3
<1>2. st[m] = StandingOf(row[m].status)
  BY StandingFacts
<1>3. CASE RowKept(m)
  BY <1>1, <1>2, <1>3 DEF RowKept
<1>4. CASE RowMade(m)
  <2>1. st[m] = "unknown" /\ StandingOf(row'[m].status) \in {"owed", "dead_letter"}
    BY <1>2, <1>4, StandingFacts DEF RowMade, Queued, Terminal
  <2> QED BY <1>1, <2>1 DEF Promise!Next, Promise!Record
<1>5. CASE RowEnded(m)
  <2>1. PICK w \in Workers : /\ FinalizeWrite(w, m) /\ OwnsLive(w, m)
                             /\ row'[m].status = task[w][m].outcome
    BY <1>5 DEF RowEnded
  <2>2. row[m].status = "processing" /\ task[w][m].outcome \in {"retry"} \cup Terminal
    BY <2>1, PromiseFacts
    DEF OwnsLive, StillLeased, FinalizeWrite, PromiseInv, TrailInv, Shape, OutcomeKnown, TaskType
  <2>3. st[m] = "owed"
    BY <1>2, <2>2, StandingFacts DEF Queued
  <2>4. CASE task[w][m].outcome = "retry"
    BY <1>1, <1>2, <2>1, <2>3, <2>4, StandingFacts DEF Queued
  <2>5. CASE task[w][m].outcome \in Terminal
    <3>1. StandingOf(row'[m].status) = row'[m].status /\ row'[m].status \in Promise!Settlements
      BY <2>1, <2>5, StandingFacts DEF Terminal, Promise!Settlements
    <3>2. row'[m].status = "delivered" => m \in mailbox
      BY <2>1 DEF PromiseInv, Accepted
    <3> QED BY <1>1, <2>3, <3>1, <3>2 DEF Promise!Next, Promise!Settle
  <2> QED BY <2>2, <2>4, <2>5
<1>6. CASE RowSwept(m)
  <2>1. st[m] = "owed" /\ StandingOf(row'[m].status) = "dead_letter"
    BY <1>2, <1>6, StandingFacts DEF RowSwept, Terminal
  <2> QED BY <1>1, <2>1 DEF Promise!Next, Promise!Settle, Promise!Settlements
<1>7. CASE RowReopened(m)
  <2>1. st[m] = "dead_letter" /\ StandingOf(row'[m].status) = "owed"
    BY <1>2, <1>7, StandingFacts DEF RowReopened, Terminal, Queued
  <2> QED BY <1>1, <2>1 DEF Promise!Next, Promise!Reopen
<1> QED
  BY <1>3, <1>4, <1>5, <1>6, <1>7, RowSteps

LEMMA NextRefines ==
  ASSUME PromiseInv, [Next]_vars
  PROVE  [Promise!Next]_<<[e \in Events |-> Standing(e)], mailbox>>
<1> DEFINE st == [e \in Events |-> Standing(e)]
<1>0. row \in [Events -> RowType]
  BY PromiseFacts
<1>1. CASE UNCHANGED <<row, mailbox>>
  BY <1>1, StandingFacts
<1>2. ASSUME NEW e \in Events, \E at \in now..Horizon : Enqueue(e, at)
      PROVE  [Promise!Next]_<<st, mailbox>>
  <2>1. UNCHANGED mailbox /\ \A f \in Events \ {e} : row'[f] = row[f]
    BY <1>2 DEF Enqueue
  <2>2. ~RowTaken(e) /\ ~RowWithdrawn(e)
    BY <1>2 DEF Enqueue, KeyIsFree, RowTaken, RowWithdrawn, Due, Claimable, Suppressible
  <2> QED BY <2>1, <2>2, OneRowRefines
<1>3. ASSUME NEW e \in Events, \E n \in 0..MaxAttempts : Bridge(e, n)
      PROVE  [Promise!Next]_<<st, mailbox>>
  <2>1. UNCHANGED mailbox /\ \A f \in Events \ {e} : row'[f] = row[f]
    BY <1>3 DEF Bridge
  <2>2. ~RowTaken(e) /\ ~RowWithdrawn(e)
    BY <1>3 DEF Bridge, KeyIsFree, RowTaken, RowWithdrawn, Due, Claimable, Suppressible
  <2> QED BY <2>1, <2>2, OneRowRefines
<1>4. ASSUME NEW w \in Workers, Claim(w) PROVE [Promise!Next]_<<st, mailbox>>
  <2>1. PICK S \in SUBSET Events : (\A f \in S : Due(f)) /\ ClaimRows(w, S)
    BY <1>4 DEF Claim, ClaimByKey, ClaimRound, IsRound
  <2>2. \A e \in S : row[e].status \in Queued /\ row'[e].status = "processing"
    <3> TAKE e \in S
    <3>1. row'[e] = ClaimedRow(row[e], w, FreshToken(e))
      BY <2>1 DEF ClaimRows
    <3> QED BY <1>0, <2>1, <3>1, RowFields DEF Due, Claimable, Queued
  <2>3. \A e \in Events \ S : row'[e] = row[e]
    BY <2>1 DEF ClaimRows
  <2>4. \A e \in Events : StandingOf(row'[e].status) = StandingOf(row[e].status)
    BY <2>2, <2>3, StandingFacts DEF Queued
  <2>5. st' = st /\ UNCHANGED mailbox
    BY <2>1, <2>4, StandingFacts DEF ClaimRows
  <2> QED BY <2>5
<1>5. ASSUME NEW w \in Workers, NEW e \in Events, Heartbeat(w, e) \/ FinalizeWrite(w, e)
      PROVE  [Promise!Next]_<<st, mailbox>>
  <2>1. UNCHANGED mailbox /\ \A f \in Events \ {e} : row'[f] = row[f]
    BY <1>0, <1>5 DEF Heartbeat, FinalizeWrite
  <2>2. UNCHANGED row \/ RowKept(e) \/ RowEnded(e)
    <3>1. CASE Heartbeat(w, e)
      <4>1. row'[e] = row[e] \/ row'[e] = RenewedRow(row[e])
        BY <1>0, <3>1 DEF Heartbeat
      <4> QED BY <1>0, <4>1, RowFields DEF RowKept
    <3>2. CASE FinalizeWrite(w, e)
      <4>1. \/ row' = row
            \/ OwnsLive(w, e) /\ row'[e] = FinalRow(row[e], task[w][e])
        BY <1>0, <3>2 DEF FinalizeWrite
      <4> QED BY <1>0, <3>2, <4>1, RowFields DEF RowEnded
    <3> QED BY <1>5, <3>1, <3>2
  <2>3. CASE UNCHANGED row
    BY <1>1, <2>1, <2>3
  <2>4. CASE RowKept(e) \/ RowEnded(e)
    <3>1. ~RowTaken(e) \/ RowKept(e)
      <4>1. ASSUME RowEnded(e) PROVE row'[e].status # "processing"
        <5>1. PICK v \in Workers : FinalizeWrite(v, e) /\ row'[e].status = task[v][e].outcome
          BY <4>1 DEF RowEnded
        <5>2. task[v][e].outcome \in {"none", "retry"} \cup Terminal
          BY PromiseFacts DEF TaskType
        <5> QED BY <5>1, <5>2 DEF Terminal
      <4> QED BY <2>4, <4>1 DEF RowTaken
    <3>2. CASE RowKept(e)
      <4>1. \A f \in Events : row'[f].status = row[f].status
        BY <2>1, <3>2 DEF RowKept
      <4> QED BY <2>1, <4>1, StandingFacts
    <3>3. CASE RowEnded(e) /\ ~RowTaken(e)
      <4>1. ~RowWithdrawn(e)
        BY <3>3 DEF RowEnded, RowWithdrawn, OwnsLive, StillLeased, Suppressible
      <4> QED BY <2>1, <3>3, <4>1, OneRowRefines
    <3> QED BY <2>4, <3>1, <3>2, <3>3
  <2> QED BY <2>2, <2>3, <2>4
<1>6. ASSUME NEW w \in Workers, Sweep(w) PROVE [Promise!Next]_<<st, mailbox>>
  <2>1. UNCHANGED mailbox
    BY <1>6 DEF Sweep, StartSweep, SweepSelect, SweepRow
  <2>2. CASE UNCHANGED row
    BY <1>1, <2>1, <2>2
  <2>3. ASSUME NEW e \in Events, NEW p \in Statuses, SweepRow(w, e, p),
               SweepGuard(e, p, sweep[w].instant)
        PROVE  [Promise!Next]_<<st, mailbox>>
    <3>1. row' = [row EXCEPT ![e] = SweptRow(row[e], sweep[w].instant)]
      BY <2>3 DEF SweepRow
    <3>2. row'[e].status = "dead_letter" /\ \A f \in Events \ {e} : row'[f] = row[f]
      BY <1>0, <3>1, RowFields
    <3>3. ~RowTaken(e) /\ ~RowWithdrawn(e)
      BY <3>2 DEF RowTaken, RowWithdrawn
    <3> QED BY <2>1, <3>2, <3>3, OneRowRefines
  <2> QED BY <1>6, <2>2, <2>3 DEF Sweep, StartSweep, SweepSelect, SweepRow
<1>7. ASSUME NEW e \in Events, NEW at \in Instants, Replay(e, at)
      PROVE  [Promise!Next]_<<st, mailbox>>
  <2>1. UNCHANGED mailbox /\ \A f \in Events \ {e} : row'[f] = row[f]
    BY <1>7 DEF Replay
  <2>2. row'[e] = ReplayedRow(row[e], at)
    BY <1>0, <1>7 DEF Replay
  <2>3. row'[e].status = "pending"
    BY <1>0, <2>2, RowFields
  <2>4. ~RowTaken(e) /\ ~RowWithdrawn(e)
    BY <2>3 DEF RowTaken, RowWithdrawn
  <2> QED BY <2>1, <2>4, OneRowRefines
<1>8. ASSUME NEW a \in Accounts, DeleteAccount(a) PROVE [Promise!Next]_<<st, mailbox>>
  <2> DEFINE S == {e \in Events : RowWithdrawn(e) /\ row'[e] # row[e]}
  <2>1. ASSUME NEW e \in S PROVE st[e] \in {"owed", "dead_letter"} /\ st'[e] = "suppressed"
    BY <2>1, StandingFacts DEF RowWithdrawn, Suppressible, Queued, Terminal
  <2>2. ASSUME NEW e \in Events \ S PROVE st'[e] = st[e]
    <3>1. \/ row'[e] = row[e]
          \/ row'[e] = ScrubbedRow(SuppressedRow(row[e])) /\ Recipient[e] = a /\ a \in deleted'
      BY <1>8 DEF DeleteAccount
    <3>2. row'[e].status = row[e].status
      BY <1>0, <2>2, <3>1, RowFields DEF RowWithdrawn
    <3> QED BY <3>2, StandingFacts
  <2>3. st' = [e \in Events |-> IF e \in S THEN "suppressed" ELSE st[e]]
    BY <2>1, <2>2
  <2>4. UNCHANGED mailbox
    BY <1>8 DEF DeleteAccount
  <2>5. S \in SUBSET Events /\ \A e \in S : st[e] \in {"owed", "dead_letter"}
    BY <2>1
  <2> HIDE DEF S
  <2>6. Promise!Withdraw(S)
    BY <2>3, <2>4, <2>5 DEF Promise!Withdraw
  <2> QED BY <2>5, <2>6 DEF Promise!Next
<1>9. ASSUME NEW e \in Events, ProviderAccept(e) PROVE [Promise!Next]_<<st, mailbox>>
  <2>1. row' = row /\ mailbox' = mailbox \cup {e}
    BY <1>9 DEF ProviderAccept
  <2>2. st' = st
    BY <2>1, StandingFacts
  <2>3. row[e].status # "absent"
    BY <1>9 DEF ProviderAccept, PromiseInv, KnownInFlight
  <2>4. st[e] # "unknown"
    BY <1>0, <2>3, StandingFacts DEF RowType, Statuses, Queued, Terminal
  <2> QED BY <2>1, <2>2, <2>4 DEF Promise!Next, Promise!Carry
<1> QED
  <2>1. CASE \/ Tick \/ UNCHANGED vars \/ \E w \in Workers : ReadClaim(w) \/ Crash(w)
    BY <1>1, <2>1 DEF Tick, vars, ReadClaim, Crash
  <2>2. ASSUME NEW w \in Workers, Deliver(w) PROVE [Promise!Next]_<<st, mailbox>>
    <3>1. PICK e \in Events :
        \/ Heartbeat(w, e) \/ CallProvider(w, e) \/ ProviderAnswers(w, e)
        \/ HandlerSuppresses(w, e)
        \/ \E retryable \in BOOLEAN, after \in RetryAfters :
             DeliveryFails(w, e, retryable, after)
        \/ ReadFinalInstant(w, e) \/ FinalizeWrite(w, e)
      BY <2>2 DEF Deliver
    <3>2. \/ UNCHANGED <<row, mailbox>>
          \/ Heartbeat(w, e) \/ FinalizeWrite(w, e)
      BY <3>1 DEF CallProvider, ProviderAnswers, HandlerSuppresses, DeliveryFails,
         ReadFinalInstant
    <3> QED BY <1>1, <1>5, <3>2
  <2>3. CASE Produce
    <3>1. Legacy \subseteq Events
      BY OutboxAssumption
    <3>2. \/ \E e \in Events : \E at \in now..Horizon : Enqueue(e, at)
          \/ \E e \in Events : \E n \in 0..MaxAttempts : Bridge(e, n)
      BY <2>3, <3>1 DEF Produce
    <3> QED BY <1>2, <1>3, <3>2
  <2> QED BY <1>4, <1>6, <1>7, <1>8, <1>9, <2>1, <2>2, <2>3 DEF Next

(* The outbox with its leases, retries, sweeps and crashes implements the  *)
(* promise it makes: every step is a step of MailPromise or changes        *)
(* nothing a producer can see.                                              *)
THEOREM OutboxKeepsPromise == Spec => KeepsPromise
<1>1. PromiseInv /\ [Next]_vars => [Promise!Next]_(Promise!promiseVars)
  BY NextRefines DEF Promise!promiseVars
<1> QED
  BY <1>1, InitRefines, InitPromise, NextPromise, PTL DEF Spec, KeepsPromise, Promise!Safety

-----------------------------------------------------------------------------
(* The accounts: claims are paid for in attempts, and retention counts from  *)
(* an instant that is not before the row was due.                            *)
(* What one step writes to a row and to its trail.                           *)
Appends(e, action) ==
  \E x \in Entries : x.action = action /\ audit'[e] = Append(audit[e], x)
Quietly(e) == audit'[e] = audit[e]

Kept(e)     == row'[e] = row[e] /\ Quietly(e)
Made(e)     == /\ row[e].status = "absent" /\ Quietly(e)
               /\ \/ \E at \in Instants : row'[e] = QueuedRow(at)
                  \/ \E n \in 0..MaxAttempts : row'[e] = BridgedRow(n)
Taken(e)    == /\ Due(e) /\ Appends(e, "claimed")
               /\ \E w \in Workers :
                    /\ row'[e] = ClaimedRow(row[e], w, FreshToken(e))
                    /\ task'[w][e] = NewTask(FreshToken(e), row[e].attempts + 1)
Renewed(e)  == row[e].status = "processing" /\ row'[e] = RenewedRow(row[e]) /\ Quietly(e)
Ended(e)    == \E w \in Workers :
                 /\ StillLeased(w, e) /\ task[w][e].phase = "finalizing"
                 /\ row'[e] = FinalRow(row[e], task[w][e])
                 /\ Appends(e, OutcomeAction(task[w][e].outcome))
Swept(e)    == \E w \in Workers, p \in Queued :
                 /\ SweepGuard(e, p, sweep[w].instant)
                 /\ row'[e] = SweptRow(row[e], sweep[w].instant)
                 /\ Appends(e, "dead_lettered")
Reopened(e) == /\ Replayable(e) /\ Appends(e, "replayed")
               /\ \E at \in Instants : row'[e] = ReplayedRow(row[e], at)
Withdrawn(e) == /\ row'[e] = ScrubbedRow(SuppressedRow(row[e]))
                /\ Quietly(e) \/ Appends(e, "suppressed")

LEMMA ClaimWrites ==
  ASSUME PromiseInv, PromiseInv', NEW w \in Workers, Claim(w), NEW e \in Events
  PROVE  Kept(e) \/ Taken(e)
<1>1. PICK S \in SUBSET Events : (\A f \in S : Due(f)) /\ ClaimRows(w, S)
  BY DEF Claim, ClaimByKey, ClaimRound, IsRound
<1>2. CASE e \notin S
  BY <1>1, <1>2 DEF ClaimRows, Kept, Quietly
<1>3. CASE e \in S
  <2>1. ClaimEntry(w, e).action = "claimed"
    BY EntryFields DEF ClaimEntry
  <2>2. ClaimEntry(w, e) \in Entries
    <3>1. row[e].attempts + 1 \in 0..MaxAttempts /\ row[e].status \in Statuses
      BY <1>1, <1>3, PromiseFacts, OutboxAssumption DEF Due, RowType
    <3> QED BY <3>1, RowLiterals DEF ClaimEntry, Entry, Entries, Actions
  <2>3. task'[w][e] = NewTask(FreshToken(e), row[e].attempts + 1)
    BY <1>1, <1>3, PromiseFacts DEF ClaimRows
  <2> QED BY <1>1, <1>3, <2>1, <2>2, <2>3 DEF ClaimRows, Taken, Appends
<1> QED BY <1>2, <1>3

LEMMA DeliverWrites ==
  ASSUME PromiseInv, NEW w \in Workers, Deliver(w), NEW e \in Events
  PROVE  Kept(e) \/ Renewed(e) \/ Ended(e)
<1>0. row \in [Events -> RowType] /\ audit \in [Events -> Seq(Entries)]
  BY PromiseFacts, InvFacts
<1>1. PICK f \in Events :
        \/ Heartbeat(w, f) \/ CallProvider(w, f) \/ ProviderAnswers(w, f)
        \/ HandlerSuppresses(w, f)
        \/ \E retryable \in BOOLEAN, after \in RetryAfters :
             DeliveryFails(w, f, retryable, after)
        \/ ReadFinalInstant(w, f) \/ FinalizeWrite(w, f)
  BY DEF Deliver
<1>2. CASE UNCHANGED <<row, audit>>
  BY <1>2 DEF Kept, Quietly
<1>3. CASE Heartbeat(w, f)
  BY <1>0, <1>3 DEF Heartbeat, OwnsLive, StillLeased, Kept, Renewed, Quietly
<1>4. CASE FinalizeWrite(w, f) /\ OwnsLive(w, f)
  <2> DEFINE x == Entry(OutcomeAction(task[w][f].outcome), w, "processing",
                        task[w][f].outcome, task[w][f].attempt)
  <2>1. /\ row' = [row EXCEPT ![f] = FinalRow(row[f], task[w][f])]
        /\ audit' = [audit EXCEPT ![f] = Append(audit[f], x)]
        /\ task[w][f].phase = "finalizing" /\ StillLeased(w, f)
    BY <1>4 DEF FinalizeWrite, OwnsLive
  <2>2. x.action = OutcomeAction(task[w][f].outcome)
    BY EntryFields
  <2>3. x \in Entries
    <3>1. task[w][f].outcome \in {"retry"} \cup Terminal /\ task[w][f].attempt \in 0..MaxAttempts
      BY <2>1, PromiseFacts DEF PromiseInv, TrailInv, Shape, OutcomeKnown, TaskType
    <3>2. OutcomeAction(task[w][f].outcome) \in Actions
      BY <3>1 DEF OutcomeAction, Actions, WorkerOutcomes, Terminal
    <3> QED BY <3>1, <3>2, RowLiterals DEF Entry, Entries, Statuses
  <2> HIDE DEF x
  <2>4. CASE e = f
    BY <1>0, <2>1, <2>2, <2>3, <2>4 DEF Ended, Appends
  <2>5. CASE e # f
    BY <1>0, <2>1, <2>5 DEF Kept, Quietly
  <2> QED BY <2>4, <2>5
<1> QED BY <1>1, <1>2, <1>3, <1>4 DEF CallProvider, ProviderAnswers, HandlerSuppresses,
     DeliveryFails, ReadFinalInstant, FinalizeWrite

LEMMA SweepWrites ==
  ASSUME PromiseInv, NEW w \in Workers, Sweep(w), NEW e \in Events
  PROVE  Kept(e) \/ Swept(e)
<1>0. row \in [Events -> RowType] /\ audit \in [Events -> Seq(Entries)]
  BY PromiseFacts, InvFacts
<1>1. CASE UNCHANGED <<row, audit>>
  BY <1>1 DEF Kept, Quietly
<1>2. ASSUME NEW f \in Events, NEW p \in Statuses, SweepRow(w, f, p),
             SweepGuard(f, p, sweep[w].instant)
      PROVE  Kept(e) \/ Swept(e)
  <2> DEFINE x == Entry("dead_lettered", NoWorker, p, "dead_letter", MaxAttempts)
  <2>1. /\ row' = [row EXCEPT ![f] = SweptRow(row[f], sweep[w].instant)]
        /\ audit' = [audit EXCEPT ![f] = Append(audit[f], x)]
        /\ p \in Queued
    BY <1>2 DEF SweepRow, PromiseInv, SweepIsSound
  <2>2. x.action = "dead_lettered"
    BY EntryFields
  <2>3. x \in Entries
    BY RowLiterals, OutboxAssumption DEF Entry, Entries, Actions, WorkerOutcomes
  <2> HIDE DEF x
  <2>4. CASE e = f
    BY <1>0, <1>2, <2>1, <2>2, <2>3, <2>4 DEF Swept, Appends
  <2>5. CASE e # f
    BY <1>0, <2>1, <2>5 DEF Kept, Quietly
  <2> QED BY <2>4, <2>5
<1> QED BY <1>1, <1>2 DEF Sweep, StartSweep, SweepSelect, SweepRow

LEMMA OutsideWrites ==
  ASSUME PromiseInv, NEW e \in Events,
         \/ Produce \/ \E f \in Events, at \in Instants : Replay(f, at)
         \/ \E a \in Accounts : DeleteAccount(a)
  PROVE  Kept(e) \/ Made(e) \/ Reopened(e) \/ Withdrawn(e)
<1>0. /\ row \in [Events -> RowType] /\ audit \in [Events -> Seq(Entries)]
      /\ now..Horizon \subseteq Instants
  BY PromiseFacts, InvFacts, OutboxAssumption DEF Instants
<1>1. CASE Produce
  BY <1>0, <1>1, OutboxAssumption DEF Produce, Enqueue, Bridge, KeyIsFree, Kept, Made, Quietly
<1>2. ASSUME NEW f \in Events, NEW at \in Instants, Replay(f, at)
      PROVE  Kept(e) \/ Reopened(e)
  <2> DEFINE x == Entry("replayed", NoWorker, "dead_letter", "pending", 0)
  <2>1. /\ row' = [row EXCEPT ![f] = ReplayedRow(row[f], at)]
        /\ audit' = [audit EXCEPT ![f] = Append(audit[f], x)]
        /\ Replayable(f)
    BY <1>2 DEF Replay
  <2>2. x.action = "replayed"
    BY EntryFields
  <2>3. x \in Entries
    BY RowLiterals DEF Entry, Entries, Actions
  <2> HIDE DEF x
  <2>4. CASE e = f
    BY <1>0, <2>1, <2>2, <2>3, <2>4 DEF Reopened, Appends
  <2>5. CASE e # f
    BY <1>0, <2>1, <2>5 DEF Kept, Quietly
  <2> QED BY <2>4, <2>5
<1>3. ASSUME NEW a \in Accounts, DeleteAccount(a) PROVE Kept(e) \/ Withdrawn(e)
  <2> DEFINE x == Entry("suppressed", NoWorker, row[e].status, "suppressed", row[e].attempts)
  <2>1. \/ row'[e] = row[e] /\ audit'[e] = audit[e]
        \/ /\ row'[e] = ScrubbedRow(SuppressedRow(row[e]))
           /\ audit'[e] = audit[e] \/ audit'[e] = Append(audit[e], x)
    BY <1>3 DEF DeleteAccount
  <2>2. x.action = "suppressed"
    BY EntryFields
  <2>3. x \in Entries
    BY <1>0, RowLiterals DEF Entry, Entries, Actions, WorkerOutcomes, RowType
  <2> HIDE DEF x
  <2> QED BY <2>1, <2>2, <2>3 DEF Kept, Withdrawn, Quietly, Appends
<1> QED BY <1>1, <1>2, <1>3

LEMMA Writes ==
  ASSUME PromiseInv, [Next]_vars, NEW e \in Events
  PROVE  \/ Kept(e) \/ Made(e) \/ Taken(e) \/ Renewed(e) \/ Ended(e)
         \/ Swept(e) \/ Reopened(e) \/ Withdrawn(e)
<1>1. CASE UNCHANGED <<row, audit>>
  BY <1>1 DEF Kept, Quietly
<1> QED BY <1>1, NextPromise, ClaimWrites, DeliverWrites, SweepWrites, OutsideWrites
     DEF Next, ReadClaim, Crash, ProviderAccept, Tick, vars

-----------------------------------------------------------------------------
(* Attempts and due instants.  A queued row has attempts left, so the sweep  *)
(* finds only processing rows; a row is claimed once it is due, and its      *)
(* lease ends no earlier; a retry is only decided below the limit.           *)
RowInOrder(r) ==
  /\ r.status \in {"pending", "retry"} => r.attempts < MaxAttempts
  /\ r.status = "processing" => r.next <= r.until
  /\ r.status \in {"delivered", "dead_letter"} => r.next <= r.anchor

RetriesAreLeft ==
  \A w \in Workers, e \in Events :
    task[w][e].outcome = "retry" => task[w][e].attempt < MaxAttempts

(* Who still holds the lease of its claim knows the row's attempt count.     *)
AttemptsAreKnown ==
  \A w \in Workers, e \in Events :
    task[w][e].phase # "idle" /\ StillLeased(w, e) => task[w][e].attempt = row[e].attempts

OrderInv ==
  /\ \A e \in Events : RowInOrder(row[e])
  /\ RetriesAreLeft /\ AttemptsAreKnown

LEMMA InitOrder == Init => OrderInv
  BY OutboxAssumption DEF Init, OrderInv, RowInOrder, RetriesAreLeft, AttemptsAreKnown, Absent,
     NoTask

(* The rows each transformer returns are in order.                           *)
LEMMA ClipIsLater ==
  ASSUME NEW t \in Instants, NEW d \in Nat
  PROVE  t <= Clip(t + d)
  BY OutboxAssumption DEF Instants, Clip

LEMMA ClaimedInOrder ==
  ASSUME PromiseInv, NEW e \in Events, Due(e), NEW w, NEW token
  PROVE  RowInOrder(ClaimedRow(row[e], w, token))
<1>1. row[e] \in RowType /\ now \in Instants
  BY PromiseFacts
<1>2. /\ ClaimedRow(row[e], w, token).status = "processing"
      /\ ClaimedRow(row[e], w, token).next = row[e].next
      /\ ClaimedRow(row[e], w, token).until = Clip(now + Lease)
  BY <1>1 DEF ClaimedRow, RowType
<1>3. row[e].next <= now /\ now <= Clip(now + Lease) /\ Clip(now + Lease) \in Instants
  BY <1>1, ClipIsLater, ClipIsInstant, OutboxAssumption DEF Due, Instants
<1>4. row[e].next \in Nat /\ now \in Nat /\ Clip(now + Lease) \in Nat
  BY <1>1, <1>3, OutboxAssumption DEF RowType, Instants
<1> QED BY <1>2, <1>3, <1>4 DEF RowInOrder

LEMMA RenewedInOrder ==
  ASSUME now \in Instants, NEW r \in RowType, RowInOrder(r), r.status = "processing"
  PROVE  RowInOrder(RenewedRow(r))
<1>1. /\ RenewedRow(r).status = "processing" /\ RenewedRow(r).next = r.next
      /\ RenewedRow(r).until = MaxOf(r.until, Clip(now + Lease))
  BY DEF RenewedRow, RowType
<1>2. r.next \in Nat /\ r.until \in Nat /\ Clip(now + Lease) \in Nat
  BY ClipIsInstant, OutboxAssumption DEF RowType, Instants
<1> QED BY <1>1, <1>2 DEF RowInOrder, MaxOf

LEMMA FinalInOrder ==
  ASSUME NEW r \in RowType, NEW t \in TaskType, t.outcome # "none",
         t.outcome = "retry" => r.attempts < MaxAttempts
  PROVE  RowInOrder(FinalRow(r, t))
<1>1. /\ FinalRow(r, t).status = t.outcome /\ FinalRow(r, t).attempts = r.attempts
      /\ FinalRow(r, t).next = FinalNext(t) /\ FinalRow(r, t).anchor = FinalAnchor(t)
  BY DEF FinalRow, RowType
<1>2. t.instant \in Nat /\ t.outcome \in {"retry", "delivered", "suppressed", "dead_letter"}
  BY OutboxAssumption DEF TaskType, Instants, Terminal
<1>3. t.outcome # "retry" => FinalNext(t) = t.instant /\ FinalAnchor(t) = t.instant
  BY DEF FinalNext, FinalAnchor
<1> QED BY <1>1, <1>2, <1>3 DEF RowInOrder

LEMMA SweptInOrder ==
  ASSUME PromiseInv, NEW e \in Events, NEW w \in Workers, NEW p \in Queued,
         RowInOrder(row[e]), SweepGuard(e, p, sweep[w].instant)
  PROVE  RowInOrder(SweptRow(row[e], sweep[w].instant))
<1>1. row[e] \in RowType /\ sweep[w].instant \in Instants
  BY PromiseFacts
<1>2. row[e].next \in Nat /\ row[e].until \in Nat /\ row[e].attempts \in Nat
  BY <1>1, OutboxAssumption DEF RowType, Instants
<1>3. p = "processing"
  BY <1>2, OutboxAssumption DEF SweepGuard, RowInOrder, Queued
<1>4. row[e].next <= row[e].until /\ row[e].until <= sweep[w].instant
  BY <1>3 DEF SweepGuard, RowInOrder
<1>5. /\ SweptRow(row[e], sweep[w].instant).status = "dead_letter"
      /\ SweptRow(row[e], sweep[w].instant).next = row[e].next
      /\ SweptRow(row[e], sweep[w].instant).anchor = sweep[w].instant
  BY <1>1 DEF SweptRow, RowType
<1> QED BY <1>1, <1>2, <1>4, <1>5, OutboxAssumption DEF RowInOrder, Instants

LEMMA OutsideInOrder ==
  ASSUME now \in Instants
  PROVE  /\ \A at : RowInOrder(QueuedRow(at))
         /\ \A n \in 0..MaxAttempts : RowInOrder(BridgedRow(n))
         /\ \A r \in RowType, at \in Instants : RowInOrder(ReplayedRow(r, at))
         /\ \A r \in RowType : RowInOrder(r) => RowInOrder(ScrubbedRow(SuppressedRow(r)))
<1>1. \A at : RowInOrder(QueuedRow(at))
  BY OutboxAssumption DEF QueuedRow, Absent, RowInOrder
<1>2. \A n \in 0..MaxAttempts : RowInOrder(BridgedRow(n))
  BY OutboxAssumption DEF BridgedRow, Absent, RowInOrder, Instants
<1>3. \A r \in RowType, at \in Instants : RowInOrder(ReplayedRow(r, at))
  BY OutboxAssumption DEF ReplayedRow, RowType, RowInOrder
<1>4. ASSUME NEW r \in RowType, RowInOrder(r)
      PROVE  RowInOrder(ScrubbedRow(SuppressedRow(r)))
  BY <1>4 DEF ScrubbedRow, SuppressedRow, RowType, RowInOrder
<1> QED BY <1>1, <1>2, <1>3, <1>4

LEMMA RowsStayInOrder ==
  ASSUME PromiseInv, OrderInv, [Next]_vars, NEW e \in Events
  PROVE  RowInOrder(row'[e])
<1>0. /\ now \in Instants /\ row[e] \in RowType /\ RowInOrder(row[e])
      /\ \A w \in Workers : task[w][e] \in TaskType
  BY PromiseFacts DEF OrderInv
<1>1. CASE Taken(e)
  BY <1>1, ClaimedInOrder DEF Taken
<1>2. CASE Ended(e)
  <2>1. PICK w \in Workers : /\ StillLeased(w, e) /\ task[w][e].phase = "finalizing"
                             /\ row'[e] = FinalRow(row[e], task[w][e])
    BY <1>2 DEF Ended
  <2>2. task[w][e].outcome # "none"
    BY <2>1 DEF PromiseInv, TrailInv, Shape, OutcomeKnown
  <2>3. task[w][e].outcome = "retry" => row[e].attempts < MaxAttempts
    BY <2>1 DEF OrderInv, RetriesAreLeft, AttemptsAreKnown
  <2> QED BY <1>0, <2>1, <2>2, <2>3, FinalInOrder
<1>3. CASE Swept(e)
  BY <1>0, <1>3, SweptInOrder DEF Swept
<1>4. CASE Kept(e) \/ Renewed(e)
  BY <1>0, <1>4, RenewedInOrder DEF Kept, Renewed
<1>5. CASE Made(e)
  BY <1>0, <1>5, OutsideInOrder DEF Made
<1>6. CASE Reopened(e)
  BY <1>0, <1>6, OutsideInOrder DEF Reopened
<1>7. CASE Withdrawn(e)
  BY <1>0, <1>7, OutsideInOrder DEF Withdrawn
<1> QED BY <1>1, <1>2, <1>3, <1>4, <1>5, <1>6, <1>7, Writes

(* What one step does to the memory an invocation has of a row: it keeps the *)
(* claim and adds an outcome at most, forgets it, or remembers a new claim.  *)
Carried(w, e) ==
  /\ task[w][e].phase # "idle"
  /\ task'[w][e].token = task[w][e].token /\ task'[w][e].attempt = task[w][e].attempt
  /\ task'[w][e].outcome = "retry" =>
       task[w][e].outcome = "retry" \/ task[w][e].attempt < MaxAttempts
Reclaimed(w, e) ==
  /\ Due(e) /\ task'[w][e] = NewTask(FreshToken(e), row[e].attempts + 1)
  /\ row'[e] = ClaimedRow(row[e], w, FreshToken(e))
TaskMoves(w, e) == \/ task'[w][e] \in {task[w][e], NoTask}
                   \/ Carried(w, e) \/ Reclaimed(w, e)

LEMMA MovesCarry ==
  ASSUME NEW t \in TaskType
  PROVE  /\ \A q \in {Stamped(t), Moved(t, "held"), Moved(t, "calling")} :
              q.token = t.token /\ q.attempt = t.attempt /\ q.outcome = t.outcome
         /\ \A o, d : LET q == Resolved(t, o, d) IN
              q.token = t.token /\ q.attempt = t.attempt /\ q.outcome = o
  BY DEF Stamped, Moved, Resolved, TaskType

LEMMA DeliverMoves ==
  ASSUME PromiseInv, NEW v \in Workers, Deliver(v), NEW w \in Workers, NEW e \in Events
  PROVE  TaskMoves(w, e)
<1>0. task \in [Workers -> [Events -> TaskType]]
  BY PromiseFacts
<1>1. PICK f \in Events :
        \/ Heartbeat(v, f) \/ CallProvider(v, f) \/ ProviderAnswers(v, f)
        \/ HandlerSuppresses(v, f)
        \/ \E retryable \in BOOLEAN, after \in RetryAfters :
             DeliveryFails(v, f, retryable, after)
        \/ ReadFinalInstant(v, f) \/ FinalizeWrite(v, f)
  BY DEF Deliver
<1> DEFINE t == task[v][f]
<1>2. \/ UNCHANGED task
      \/ SetTask(v, f, NoTask)
      \/ \E s : /\ SetTask(v, f, s) /\ t.phase # "idle"
                /\ s.token = t.token /\ s.attempt = t.attempt
                /\ s.outcome = "retry" => t.outcome = "retry" \/ t.attempt < MaxAttempts
  <2> HIDE DEF NoTask
  <2>1. t \in TaskType
    BY <1>0
  <2>2. \A b : FailureOutcome(t.attempt, b) = "retry" => t.attempt < MaxAttempts
    BY <2>1, OutboxAssumption DEF FailureOutcome, TaskType
  <2>3. CASE \E retryable \in BOOLEAN, after \in RetryAfters : DeliveryFails(v, f, retryable, after)
    BY <2>1, <2>2, <2>3, MovesCarry DEF DeliveryFails, Resolve
  <2>4. CASE CallProvider(v, f) \/ ReadFinalInstant(v, f)
    BY <2>1, <2>4, MovesCarry DEF CallProvider, ReadFinalInstant
  <2>5. CASE ProviderAnswers(v, f) \/ HandlerSuppresses(v, f)
    BY <2>1, <2>5, MovesCarry DEF ProviderAnswers, HandlerSuppresses, Resolve
  <2> QED BY <1>1, <2>3, <2>4, <2>5 DEF Heartbeat, FinalizeWrite, Forget
<1>3. \A s : SetTask(v, f, s) => task'[w][e] = IF v = w /\ f = e THEN s ELSE task[w][e]
  BY <1>0 DEF SetTask
<1> HIDE DEF NoTask
<1> QED BY <1>2, <1>3 DEF TaskMoves, Carried

LEMMA TaskSteps ==
  ASSUME PromiseInv, [Next]_vars, NEW w \in Workers, NEW e \in Events
  PROVE  TaskMoves(w, e)
<1>0. task \in [Workers -> [Events -> TaskType]]
  BY PromiseFacts
<1>1. CASE UNCHANGED task
  BY <1>1 DEF TaskMoves
<1>2. ASSUME NEW v \in Workers, Claim(v) PROVE TaskMoves(w, e)
  <2>1. PICK S \in SUBSET Events : (\A f \in S : Due(f)) /\ ClaimRows(v, S)
    BY <1>2 DEF Claim, ClaimByKey, ClaimRound, IsRound
  <2>2. v # w \/ e \notin S => task'[w][e] = task[w][e]
    BY <1>0, <2>1 DEF ClaimRows
  <2>3. v = w /\ e \in S => Reclaimed(w, e)
    BY <1>0, <2>1 DEF ClaimRows, Reclaimed
  <2> QED BY <2>2, <2>3 DEF TaskMoves
<1>3. ASSUME NEW v \in Workers, ReadClaim(v) PROVE TaskMoves(w, e)
  <2>1. \/ task'[w][e] \in {task[w][e], NoTask}
        \/ /\ task'[w][e] = Moved(task[w][e], "held")
           /\ task[w][e].phase = "claimed"
    <3> HIDE DEF NoTask
    <3> QED BY <1>0, <1>3 DEF ReadClaim, Claimed
  <2> QED BY <1>0, <2>1, MovesCarry DEF TaskMoves, Carried
<1>4. ASSUME NEW v \in Workers, Crash(v) PROVE TaskMoves(w, e)
  BY <1>0, <1>4 DEF Crash, TaskMoves
<1> QED BY <1>1, <1>2, <1>3, <1>4, DeliverMoves
     DEF Next, vars, Produce, Enqueue, Bridge, Sweep, StartSweep, SweepSelect, SweepRow,
         ProviderAccept, Replay, DeleteAccount, Tick

(* A row that is still leased after a step that did not claim it kept its    *)
(* lease and its attempts.                                                   *)
LEMMA LeaseIsCarried ==
  ASSUME PromiseInv, [Next]_vars, NEW e \in Events, row'[e].status = "processing", ~Taken(e)
  PROVE  /\ row[e].status = "processing"
         /\ row'[e].lease = row[e].lease /\ row'[e].attempts = row[e].attempts
<1>0. row[e] \in RowType /\ \A w \in Workers : task[w][e] \in TaskType
  BY PromiseFacts
<1>1. CASE Renewed(e) \/ Kept(e)
  BY <1>0, <1>1 DEF Renewed, Kept, RenewedRow, RowType
<1>2. CASE Withdrawn(e)
  BY <1>0, <1>2 DEF Withdrawn, ScrubbedRow, SuppressedRow, Suppressible, RowType
<1>3. ~Made(e)
  BY DEF Made, QueuedRow, BridgedRow, Absent
<1>4. ASSUME Ended(e) PROVE FALSE
  <2>1. PICK w \in Workers : row'[e] = FinalRow(row[e], task[w][e])
    BY <1>4 DEF Ended
  <2>2. row'[e].status = task[w][e].outcome
    BY <1>0, <2>1, RowFields
  <2> QED BY <1>0, <2>2 DEF TaskType, Terminal
<1>5. ~Swept(e) /\ ~Reopened(e)
  BY <1>0, RowFields DEF Swept, Reopened
<1> QED BY <1>1, <1>2, <1>3, <1>4, <1>5, Writes

LEMMA AttemptsStayKnown ==
  ASSUME PromiseInv, OrderInv, [Next]_vars, NEW w \in Workers, NEW e \in Events,
         task'[w][e].phase # "idle", StillLeased(w, e)'
  PROVE  task'[w][e].attempt = row'[e].attempts
<1>0. row[e] \in RowType /\ task[w][e] \in TaskType
  BY PromiseFacts
<1>1. ASSUME NEW v \in Workers, row'[e] = ClaimedRow(row[e], v, FreshToken(e)),
             task'[v][e] = NewTask(FreshToken(e), row[e].attempts + 1)
      PROVE  task'[w][e].attempt = row'[e].attempts
  <2>1. /\ row'[e].lease = [owner |-> v, token |-> FreshToken(e)]
        /\ row'[e].attempts = row[e].attempts + 1
    BY <1>0, <1>1 DEF ClaimedRow, RowType
  <2>2. v = w
    BY <2>1 DEF StillLeased
  <2> QED BY <1>1, <2>1, <2>2 DEF NewTask, NoTask
<1>2. CASE Taken(e) \/ Reclaimed(w, e)
  BY <1>1, <1>2 DEF Taken, Reclaimed
<1>3. CASE ~Taken(e) /\ ~Reclaimed(w, e)
  <2>1. /\ row[e].status = "processing"
        /\ row'[e].lease = row[e].lease /\ row'[e].attempts = row[e].attempts
    BY <1>3, LeaseIsCarried DEF StillLeased
  <2>2. task'[w][e] # NoTask
    BY DEF NoTask
  <2>3. /\ task[w][e].phase # "idle" /\ task'[w][e].token = task[w][e].token
        /\ task'[w][e].attempt = task[w][e].attempt
    BY <1>3, <2>2, TaskSteps DEF TaskMoves, Carried
  <2> QED BY <2>1, <2>3 DEF StillLeased, OrderInv, AttemptsAreKnown
<1> QED BY <1>2, <1>3

LEMMA RetriesStayLeft ==
  ASSUME PromiseInv, OrderInv, [Next]_vars, NEW w \in Workers, NEW e \in Events,
         task'[w][e].outcome = "retry"
  PROVE  task'[w][e].attempt < MaxAttempts
<1>1. NoTask.outcome = "none" /\ \A token, n : NewTask(token, n).outcome = "none"
  BY DEF NoTask, NewTask
<1> HIDE DEF NoTask
<1> QED BY <1>1, TaskSteps DEF TaskMoves, Carried, Reclaimed, OrderInv, RetriesAreLeft

LEMMA NextOrder == ASSUME PromiseInv, OrderInv, [Next]_vars PROVE OrderInv'
<1>1. \A e \in Events : RowInOrder(row'[e])
  BY RowsStayInOrder
<1>2. RetriesAreLeft'
  BY RetriesStayLeft DEF RetriesAreLeft
<1>3. AttemptsAreKnown'
  BY AttemptsStayKnown DEF AttemptsAreKnown
<1> QED BY <1>1, <1>2, <1>3 DEF OrderInv, RowInOrder

-----------------------------------------------------------------------------
(* Claims since the last replay.                                             *)
Since(trail) ==
  {i \in 1..Len(trail) : /\ trail[i].action = "claimed"
                         /\ \A j \in i..Len(trail) : trail[j].action # "replayed"}
Paid(trail, r) == Cardinality(Since(trail)) <= r.attempts

LEMMA SinceIsFinite ==
  ASSUME NEW trail \in Seq(Entries)
  PROVE  IsFiniteSet(Since(trail)) /\ Cardinality(Since(trail)) \in Nat
<1>1. IsFiniteSet(1..Len(trail))
  BY FS_Interval
<1>2. Since(trail) \subseteq 1..Len(trail)
  BY DEF Since
<1> QED BY <1>1, <1>2, FS_Subset, FS_CardinalityType

(* An entry at the end of the trail: a claim is counted, a replay ends the   *)
(* count, anything else leaves it.                                           *)
LEMMA SinceAppend ==
  ASSUME NEW trail \in Seq(Entries), NEW x \in Entries
  PROVE  /\ x.action = "claimed" => Since(Append(trail, x)) = Since(trail) \cup {Len(trail) + 1}
         /\ x.action = "replayed" => Since(Append(trail, x)) = {}
         /\ x.action \notin {"claimed", "replayed"} => Since(Append(trail, x)) = Since(trail)
<1> DEFINE longer == Append(trail, x)
           n == Len(trail)
<1>1. /\ n \in Nat /\ Len(longer) = n + 1 /\ longer[n + 1] = x
      /\ \A i \in 1..n : longer[i] = trail[i]
  OBVIOUS
<1>2. \A i : i \in Since(longer) <=>
               /\ i \in 1..n + 1 /\ longer[i].action = "claimed"
               /\ \A j \in i..n + 1 : longer[j].action # "replayed"
  BY <1>1 DEF Since
<1>3. \A i : i \in Since(trail) <=>
               /\ i \in 1..n /\ trail[i].action = "claimed"
               /\ \A j \in i..n : trail[j].action # "replayed"
  BY DEF Since
<1> HIDE DEF longer, n
<1>4. \A i \in 1..n : \A j \in i..n : j \in 1..n
  BY <1>1
<1>5. \A i \in 1..n : i..n + 1 = (i..n) \cup {n + 1}
  BY <1>1
<1>6. ASSUME x.action # "replayed", NEW i \in 1..n
      PROVE  i \in Since(longer) <=> i \in Since(trail)
  BY <1>1, <1>2, <1>3, <1>4, <1>5, <1>6
<1>7. ASSUME x.action = "replayed" PROVE Since(longer) = {}
  <2>1. \A i \in 1..n + 1 : n + 1 \in i..n + 1
    BY <1>1
  <2> QED BY <1>1, <1>2, <1>7, <2>1
<1>8. (n + 1) \notin 1..n /\ 1..n + 1 = (1..n) \cup {n + 1} /\ (n + 1)..(n + 1) = {n + 1}
  BY <1>1
<1>9. x.action = "claimed" => n + 1 \in Since(longer)
  BY <1>1, <1>2, <1>8
<1>10. x.action # "claimed" => n + 1 \notin Since(longer)
  BY <1>1, <1>2, <1>8
<1>11. \A i \in Since(longer) : i \in 1..n \/ i = n + 1
  BY <1>2, <1>8
<1>12. \A i \in Since(trail) : i \in 1..n
  BY <1>3
<1>13. x.action = "claimed" => Since(longer) = Since(trail) \cup {n + 1}
  BY <1>6, <1>9, <1>11, <1>12
<1>14. x.action \notin {"claimed", "replayed"} => Since(longer) = Since(trail)
  BY <1>6, <1>10, <1>11, <1>12
<1> QED BY <1>7, <1>13, <1>14 DEF longer, n

LEMMA PaidStep ==
  ASSUME PromiseInv, [Next]_vars, NEW e \in Events, Paid(audit[e], row[e])
  PROVE  Paid(audit'[e], row'[e])
<1>0. /\ row[e] \in RowType /\ audit[e] \in Seq(Entries) /\ Agree(audit[e], row[e])
      /\ \A w \in Workers : task[w][e] \in TaskType
  BY PromiseFacts, InvFacts
<1>1. Cardinality(Since(audit[e])) \in Nat /\ row[e].attempts \in Nat
  BY <1>0, SinceIsFinite DEF RowType
<1>2. ASSUME NEW action, Appends(e, action), action \notin {"claimed", "replayed"},
             row'[e].attempts = row[e].attempts
      PROVE  Paid(audit'[e], row'[e])
  BY <1>0, <1>2, SinceAppend DEF Appends, Paid
<1>3. ASSUME Quietly(e), row'[e].attempts = row[e].attempts PROVE Paid(audit'[e], row'[e])
  BY <1>3 DEF Quietly, Paid
<1>4. CASE Kept(e) \/ Renewed(e)
  BY <1>0, <1>3, <1>4 DEF Kept, Renewed, RenewedRow, RowType
<1>5. CASE Made(e)
  <2>1. audit'[e] = <<>>
    BY <1>0, <1>5 DEF Made, Quietly, Agree
  <2>2. Since(<<>>) = {}
    BY DEF Since
  <2>3. \A at : QueuedRow(at).attempts = 0
    BY DEF QueuedRow, Absent
  <2>4. \A n \in 0..MaxAttempts : BridgedRow(n).attempts = n
    BY DEF BridgedRow, Absent
  <2>5. row'[e].attempts \in Nat
    BY <1>5, <2>3, <2>4 DEF Made
  <2>6. Cardinality(Since(audit'[e])) = 0
    BY <2>1, <2>2, FS_EmptySet
  <2> QED BY <2>5, <2>6 DEF Paid
<1>6. CASE Taken(e)
  <2>1. PICK x \in Entries : x.action = "claimed" /\ audit'[e] = Append(audit[e], x)
    BY <1>6 DEF Taken, Appends
  <2>2. Since(audit'[e]) = Since(audit[e]) \cup {Len(audit[e]) + 1}
    BY <1>0, <2>1, SinceAppend
  <2>3. Cardinality(Since(audit'[e])) <= Cardinality(Since(audit[e])) + 1
    <3>1. IsFiniteSet(Since(audit[e]))
      BY <1>0, SinceIsFinite
    <3>2. Cardinality(Since(audit[e]) \cup {Len(audit[e]) + 1})
            \in {Cardinality(Since(audit[e])), Cardinality(Since(audit[e])) + 1}
      BY <3>1, FS_AddElement
    <3> QED BY <1>1, <2>2, <3>2
  <2>4. row'[e].attempts = row[e].attempts + 1
    BY <1>0, <1>6 DEF Taken, ClaimedRow, RowType
  <2>5. Cardinality(Since(audit'[e])) \in Nat
    <3>1. Append(audit[e], x) \in Seq(Entries)
      BY <1>0
    <3> QED BY <2>1, <3>1, SinceIsFinite
  <2> QED BY <1>1, <2>3, <2>4, <2>5 DEF Paid
<1>7. CASE Ended(e)
  <2>1. PICK w \in Workers : /\ task[w][e].phase = "finalizing"
                             /\ row'[e] = FinalRow(row[e], task[w][e])
                             /\ Appends(e, OutcomeAction(task[w][e].outcome))
    BY <1>7 DEF Ended
  <2>2. task[w][e].outcome \in {"retry"} \cup Terminal
    BY <1>0, <2>1 DEF PromiseInv, TrailInv, Shape, OutcomeKnown, TaskType
  <2>3. OutcomeAction(task[w][e].outcome) \notin {"claimed", "replayed"}
    BY <2>2 DEF OutcomeAction, Terminal
  <2>4. row'[e].attempts = row[e].attempts
    BY <1>0, <2>1 DEF FinalRow, RowType
  <2> QED BY <1>2, <2>1, <2>3, <2>4
<1>8. CASE Swept(e)
  BY <1>0, <1>2, <1>8 DEF Swept, SweptRow, RowType
<1>9. CASE Reopened(e)
  <2>1. Since(audit'[e]) = {}
    BY <1>0, <1>9, SinceAppend DEF Reopened, Appends
  <2>2. row'[e].attempts = 0
    BY <1>0, <1>9 DEF Reopened, ReplayedRow, RowType
  <2> QED BY <2>1, <2>2, FS_EmptySet DEF Paid
<1>10. CASE Withdrawn(e)
  <2>1. row'[e].attempts = row[e].attempts
    BY <1>0, <1>10 DEF Withdrawn, ScrubbedRow, SuppressedRow, RowType
  <2> QED BY <1>2, <1>3, <1>10, <2>1 DEF Withdrawn
<1> QED BY <1>4, <1>5, <1>6, <1>7, <1>8, <1>9, <1>10, Writes

-----------------------------------------------------------------------------
AccountInv == PromiseInv /\ OrderInv /\ \A e \in Events : Paid(audit[e], row[e])

LEMMA InitAccounts == Init => AccountInv
<1>1. Init => \A e \in Events : Paid(audit[e], row[e])
  <2>1. Since(<<>>) = {}
    BY DEF Since
  <2>2. Cardinality(Since(<<>>)) = 0
    BY <2>1, FS_EmptySet
  <2> QED BY <2>2 DEF Init, Paid, Absent
<1> QED BY <1>1, InitPromise, InitOrder DEF AccountInv

LEMMA NextAccounts == AccountInv /\ [Next]_vars => AccountInv'
<1> SUFFICES ASSUME AccountInv, [Next]_vars PROVE AccountInv'
  OBVIOUS
<1>1. \A e \in Events : Paid(audit'[e], row'[e])
  BY PaidStep DEF AccountInv
<1>2. PromiseInv' /\ OrderInv'
  BY NextPromise, NextOrder DEF AccountInv
<1> QED BY <1>1, <1>2 DEF AccountInv, Paid

(* Every claim since the last replay is an attempt the row has paid for, so  *)
(* no row is handed to a handler more than max_attempts times per replay,    *)
(* whatever crashes, takeovers and sweeps interleave.                        *)
THEOREM ClaimsArePaidFor == Spec => []AttemptsPayForClaims
<1>1. AccountInv => AttemptsPayForClaims
  <2> SUFFICES ASSUME AccountInv, NEW e \in Events
               PROVE  /\ Cardinality(ClaimsSinceReplay(e)) <= row[e].attempts
                      /\ row[e].attempts <= MaxAttempts
    BY DEF AttemptsPayForClaims
  <2>1. ClaimsSinceReplay(e) = Since(audit[e])
    BY DEF ClaimsSinceReplay, Since
  <2>2. row[e] \in RowType
    BY PromiseFacts DEF AccountInv
  <2> QED BY <2>1, <2>2, OutboxAssumption DEF AccountInv, Paid, RowType
<1> QED BY <1>1, InitAccounts, NextAccounts, PTL DEF Spec

(* What delivery or the sweep settled was due no later than the instant its  *)
(* retention window counts from, although finalization and sweep stamp an    *)
(* instant they read in an earlier statement.                                *)
THEOREM AnchorsFollowDueTimes == Spec => []DeliveryAnchors
<1>1. AccountInv => DeliveryAnchors
  BY DEF AccountInv, OrderInv, RowInOrder, DeliveryAnchors
<1> QED BY <1>1, InitAccounts, NextAccounts, PTL DEF Spec

-----------------------------------------------------------------------------
(* Retention beside the outbox: redaction keeps everything that was proved   *)
(* of the outbox alone, never takes the address of mail that is owed, and    *)
(* leaves pre-v6 rows their address until the bridge has copied it.          *)
ClassNames == {"dead_letter", "delivered", "suppressed", "legacy_pairing"}
PassType   == [todo : Seq(ClassNames), instant : Nat]

(* A pass that runs has a class ahead of it.                                 *)
PassInOrder == pass \in PassType /\ (pass = Idle \/ pass.todo # <<>>)

(* The bridge still has the address of the rows it has not copied.           *)
UnbridgedKeepAddress == \A e \in Legacy : row[e].status = "absent" => e \in address

RetentionInv == AccountInv /\ PassInOrder /\ OwedMailIsIntact /\ UnbridgedKeepAddress

LEMMA InitRetention == RInit => RetentionInv
<1> SUFFICES ASSUME RInit PROVE RetentionInv
  OBVIOUS
<1>1. AccountInv
  BY InitAccounts DEF RInit
<1>2. PassInOrder
  BY DEF RInit, PassInOrder, PassType, Idle, ClassNames
<1>3. OwedMailIsIntact /\ UnbridgedKeepAddress
  BY DEF RInit, Init, OwedMailIsIntact, UnbridgedKeepAddress, Absent
<1> QED BY <1>1, <1>2, <1>3 DEF RetentionInv

LEMMA RowsOfAccounts ==
  ASSUME AccountInv
  PROVE  /\ row \in [Events -> RowType] /\ now \in Instants
         /\ \A w \in Workers, e \in Events : task[w][e] \in TaskType
  BY PromiseFacts DEF AccountInv

-----------------------------------------------------------------------------
(* The pass.                                                                 *)
LEMMA PassAdvances ==
  ASSUME PassInOrder, pass # Idle, pass' = PassAfter
  PROVE  PassInOrder'
<1>1. CASE Len(pass.todo) = 1
  <2>1. Idle \in PassType
    BY DEF Idle, PassType, ClassNames
  <2> QED BY <1>1, <2>1 DEF PassAfter, PassInOrder, Idle
<1>2. CASE Len(pass.todo) # 1
  <2>1. pass.todo \in Seq(ClassNames) /\ pass.todo # <<>> /\ pass.instant \in Nat
    BY DEF PassInOrder, PassType
  <2>2. Tail(pass.todo) \in Seq(ClassNames) /\ Tail(pass.todo) # <<>>
    <3> DEFINE todo == pass.todo
    <3>1. todo \in Seq(ClassNames) /\ Len(todo) \in Nat /\ Len(todo) # 0 /\ Len(todo) # 1
      BY <1>2, <2>1
    <3> HIDE DEF todo
    <3>2. Tail(todo) \in Seq(ClassNames) /\ Len(Tail(todo)) = Len(todo) - 1
      BY <3>1
    <3>3. Len(Tail(todo)) # 0
      BY <3>1, <3>2
    <3>4. Tail(todo) # <<>>
      BY <3>3
    <3> QED BY <3>2, <3>4 DEF todo
  <2>3. NextClass \in PassType /\ NextClass.todo = Tail(pass.todo)
    BY <2>2 DEF NextClass, PassInOrder, PassType
  <2> QED BY <1>2, <2>2, <2>3 DEF PassAfter, PassInOrder
<1> QED BY <1>1, <1>2

LEMMA PassStep == ASSUME RetentionInv, [RNext]_<<vars, rvars>> PROVE PassInOrder'
<1>0. PassInOrder
  BY DEF RetentionInv
<1>1. CASE UNCHANGED pass
  BY <1>0, <1>1 DEF PassInOrder, Idle
<1>2. CASE StartPass
  <2>1. Classes \in Seq(ClassNames) /\ Classes # <<>>
    BY DEF Classes, ClassNames
  <2>2. now \in Nat
    BY RowsOfAccounts, OutboxAssumption DEF RetentionInv, Instants
  <2> HIDE DEF Classes
  <2> QED BY <1>2, <2>1, <2>2 DEF StartPass, PassInOrder, PassType
<1>3. CASE StopPass
  BY <1>3 DEF StopPass, PassInOrder, PassType, Idle, ClassNames
<1>4. ASSUME NEW S \in SUBSET Events, RedactClass(S) \/ RedactLegacy(S) PROVE PassInOrder'
  BY <1>0, <1>4, PassAdvances DEF RedactClass, RedactLegacy
<1> QED BY <1>1, <1>2, <1>3, <1>4 DEF RNext, rvars, vars, HourPasses, InvitationEnds

-----------------------------------------------------------------------------
(* Redaction writes the payload and nothing else of a row that is settled.   *)
LEMMA RedactedFields ==
  ASSUME NEW r \in RowType
  PROVE  /\ RedactedRow(r) \in RowType /\ RedactedRow(r).payload = "redacted"
         /\ RedactedRow(r).status = r.status /\ RedactedRow(r).lease = r.lease
         /\ RedactedRow(r).attempts = r.attempts /\ RedactedRow(r).next = r.next
         /\ RedactedRow(r).until = r.until /\ RedactedRow(r).anchor = r.anchor
<1>1. "redacted" \in Payloads
  BY DEF Payloads
<1> QED BY <1>1 DEF RedactedRow, RowType

LEMMA RedactionSteps ==
  ASSUME RetentionInv, NEW S \in SUBSET Events, RedactClass(S), NEW e \in Events
  PROVE  \/ row'[e] = row[e]
         \/ row[e].status \in Terminal /\ row'[e] = RedactedRow(row[e])
<1>1. pass.todo \in Seq(ClassNames) /\ pass.todo # <<>>
  BY DEF RetentionInv, PassInOrder, PassType, RedactClass
<1>2. Head(pass.todo) \in Terminal
  BY <1>1 DEF ClassNames, Terminal, RedactClass
<1>3. e \in S => row[e].status = Head(pass.todo)
  BY DEF RedactClass, Batch, Redactable
<1> QED BY <1>2, <1>3 DEF RedactClass

LEMMA RedactionKeepsAccounts ==
  ASSUME RetentionInv, NEW S \in SUBSET Events, RedactClass(S) PROVE AccountInv'
<1>0. row \in [Events -> RowType] /\ UNCHANGED <<audit, task, sweep, inFlight, mailbox, deleted, now>>
  BY RowsOfAccounts DEF RetentionInv, RedactClass
<1>1. row' \in [Events -> RowType]
  <2>1. \A e \in Events : row'[e] \in RowType
    BY <1>0, RedactionSteps, RedactedFields
  <2> QED BY <2>1 DEF RedactClass
<1>2. \A e \in Events : /\ row'[e].status = row[e].status /\ row'[e].lease = row[e].lease
                        /\ row'[e].attempts = row[e].attempts /\ row'[e].next = row[e].next
                        /\ row'[e].until = row[e].until /\ row'[e].anchor = row[e].anchor
  BY <1>0, RedactionSteps, RedactedFields
<1>3. Shape'
  BY <1>0, <1>1, <1>2 DEF RetentionInv, AccountInv, PromiseInv, TrailInv, Shape, TypeOK, OutcomeKnown
<1>4. TrailInv'
  BY <1>0, <1>2, <1>3 DEF RetentionInv, AccountInv, PromiseInv, TrailInv, Agree
<1>5. Accepted' /\ KnownInFlight' /\ SweepIsSound'
  BY <1>0, <1>2, PromiseFacts DEF RetentionInv, AccountInv, PromiseInv, Accepted, KnownInFlight,
     SweepIsSound
<1>6. OrderInv'
  BY <1>0, <1>2 DEF RetentionInv, AccountInv, OrderInv, RowInOrder, RetriesAreLeft,
     AttemptsAreKnown, StillLeased
<1>7. \A e \in Events : Paid(audit'[e], row'[e])
  BY <1>0, <1>2 DEF RetentionInv, AccountInv, Paid
<1> QED BY <1>4, <1>5, <1>6, <1>7 DEF AccountInv, PromiseInv, Paid

-----------------------------------------------------------------------------
(* What a step of the outbox does to the payload.                            *)
LEMMA PayloadFields ==
  ASSUME NEW r \in RowType
  PROVE  /\ \A w, token : ClaimedRow(r, w, token).payload = r.payload
         /\ RenewedRow(r).payload = r.payload
         /\ \A t : FinalRow(r, t).payload = r.payload
         /\ \A at : ReplayedRow(r, at).payload = r.payload
  BY DEF ClaimedRow, RenewedRow, FinalRow, ReplayedRow, RowType

LEMMA OutboxKeepsOwedMail ==
  ASSUME RetentionInv, Next, NEW e \in Events, row'[e].payload = "redacted"
  PROVE  row'[e].status \in Terminal
<1>0. /\ row[e] \in RowType /\ PromiseInv
      /\ row[e].payload = "redacted" => row[e].status \in Terminal
  BY RowsOfAccounts DEF RetentionInv, AccountInv, OwedMailIsIntact
<1>1. CASE Kept(e)
  BY <1>0, <1>1 DEF Kept
<1>2. CASE Made(e)
  BY <1>2 DEF Made, QueuedRow, BridgedRow, Absent
<1>3. CASE Taken(e) \/ Renewed(e) \/ Ended(e)
  <2>1. row[e].status \notin Terminal
    BY <1>3 DEF Taken, Renewed, Ended, Due, Claimable, StillLeased, Terminal
  <2>2. row'[e].payload = row[e].payload
    BY <1>0, <1>3, PayloadFields DEF Taken, Renewed, Ended
  <2> QED BY <1>0, <2>1, <2>2
<1>4. CASE Swept(e)
  BY <1>0, <1>4, RowFields DEF Swept, Terminal
<1>5. CASE Withdrawn(e)
  <2>1. \/ row'[e].status = "suppressed"
        \/ row'[e].status = row[e].status /\ row'[e].payload \in {row[e].payload, "tombstoned"}
    BY <1>0, <1>5 DEF Withdrawn, ScrubbedRow, SuppressedRow, RowType
  <2> QED BY <1>0, <2>1 DEF Terminal
<1>6. CASE Reopened(e)
  BY <1>0, <1>6, PayloadFields DEF Reopened, Replayable
<1> QED BY <1>0, <1>1, <1>2, <1>3, <1>4, <1>5, <1>6, Writes

LEMMA OwedMailStep ==
  ASSUME RetentionInv, [RNext]_<<vars, rvars>> PROVE OwedMailIsIntact'
<1>1. CASE UNCHANGED row
  BY <1>1 DEF RetentionInv, OwedMailIsIntact
<1>2. CASE Next
  BY <1>2, OutboxKeepsOwedMail DEF OwedMailIsIntact
<1>3. ASSUME NEW S \in SUBSET Events, RedactClass(S) PROVE OwedMailIsIntact'
  <2> SUFFICES ASSUME NEW e \in Events, row'[e].payload = "redacted"
               PROVE  row'[e].status \in Terminal
    BY DEF OwedMailIsIntact
  <2>1. RedactedRow(row[e]).status = row[e].status
    BY RowsOfAccounts, RedactedFields DEF RetentionInv
  <2> QED BY <1>3, <2>1, RedactionSteps DEF RetentionInv, OwedMailIsIntact
<1> QED BY <1>1, <1>2, <1>3 DEF RNext, StartPass, StopPass, HourPasses, RedactLegacy,
     InvitationEnds, vars

(* No step empties a row.                                                    *)
LEMMA RowsStay ==
  ASSUME RetentionInv, [RNext]_<<vars, rvars>>, NEW e \in Events, row'[e].status = "absent"
  PROVE  row[e].status = "absent"
<1>0. PromiseInv /\ row[e] \in RowType
  BY RowsOfAccounts DEF RetentionInv, AccountInv
<1>1. CASE Next
  <2>1. ~RowMade(e) /\ ~RowTaken(e) /\ ~RowSwept(e) /\ ~RowReopened(e) /\ ~RowWithdrawn(e)
    BY DEF RowMade, RowTaken, RowSwept, RowReopened, RowWithdrawn
  <2>2. ASSUME NEW w \in Workers, row'[e].status = task[w][e].outcome PROVE FALSE
    BY <2>2, RowsOfAccounts DEF RetentionInv, TaskType, Terminal
  <2> QED BY <1>0, <1>1, <2>1, <2>2, RowSteps DEF RowKept, RowEnded
<1>2. ASSUME NEW S \in SUBSET Events, RedactClass(S) PROVE row[e].status = "absent"
  BY <1>0, <1>2, RedactionSteps, RedactedFields
<1>3. CASE UNCHANGED row
  BY <1>3
<1> QED BY <1>1, <1>2, <1>3 DEF RNext, StartPass, StopPass, HourPasses, RedactLegacy,
     InvitationEnds, vars

LEMMA UnbridgedStep ==
  ASSUME RetentionInv, [RNext]_<<vars, rvars>> PROVE UnbridgedKeepAddress'
<1> SUFFICES ASSUME NEW e \in Legacy, row'[e].status = "absent" PROVE e \in address'
  BY DEF UnbridgedKeepAddress
<1>1. e \in Events
  BY OutboxAssumption
<1>2. row[e].status = "absent" /\ e \in address
  BY <1>1, RowsStay DEF RetentionInv, UnbridgedKeepAddress
<1>3. ASSUME NEW S \in SUBSET Events, RedactLegacy(S) PROVE e \in address'
  BY <1>2, <1>3 DEF RedactLegacy, LegacyRedactable
<1> QED BY <1>2, <1>3 DEF RNext, StartPass, StopPass, HourPasses, RedactClass, InvitationEnds,
     rvars, vars

LEMMA StepRetention == RetentionInv /\ [RNext]_<<vars, rvars>> => RetentionInv'
<1> SUFFICES ASSUME RetentionInv, [RNext]_<<vars, rvars>> PROVE RetentionInv'
  OBVIOUS
<1>1. AccountInv'
  <2>1. CASE [Next]_vars
    BY <2>1, NextAccounts DEF RetentionInv
  <2>2. ASSUME NEW S \in SUBSET Events, RedactClass(S) PROVE AccountInv'
    BY <2>2, RedactionKeepsAccounts
  <2> QED BY <2>1, <2>2 DEF RNext, StartPass, StopPass, HourPasses, RedactLegacy, InvitationEnds
<1> QED BY <1>1, PassStep, OwedMailStep, UnbridgedStep DEF RetentionInv

(* Beside retention the outbox keeps what it keeps alone: the unbroken       *)
(* trail, outcomes that answer their claims, and paid claims.                *)
THEOREM OutboxHoldsBesideRetention ==
  RSpec => [](TypeOK /\ AuditChain /\ OutcomeAnswersItsClaim /\ DeliveryAnchors)
<1>1. RetentionInv => TypeOK /\ AuditChain /\ OutcomeAnswersItsClaim /\ DeliveryAnchors
  BY DEF RetentionInv, AccountInv, PromiseInv, TrailInv, Shape, Agree, Chained, Answered,
     AuditChain, OutcomeAnswersItsClaim, OrderInv, RowInOrder, DeliveryAnchors
<1> QED BY <1>1, InitRetention, StepRetention, PTL DEF RSpec

(* Mail that is owed keeps its address and credential: no order of           *)
(* dead-lettering, redaction, replay and deletion queues a redacted row.     *)
THEOREM OwedMailKeepsAddress == RSpec => []OwedMailIsIntact
<1>1. RetentionInv => OwedMailIsIntact
  BY DEF RetentionInv
<1> QED BY <1>1, InitRetention, StepRetention, PTL DEF RSpec

(* The bridge never copies an address that retention already replaced.       *)
THEOREM BridgeCopiesAddresses == RSpec => BridgedWithAddress
<1>1. RetentionInv /\ [RNext]_<<vars, rvars>> =>
        [\A e \in Legacy :
           row[e].status = "absent" /\ row'[e].status # "absent" => e \in address]_<<vars, rvars>>
  BY DEF RetentionInv, UnbridgedKeepAddress
<1> QED BY <1>1, InitRetention, StepRetention, PTL DEF RSpec, BridgedWithAddress
=============================================================================
