-------------------------- MODULE DispatchWatchdog --------------------------
(* The watchdog of mail delivery (hourly workflow and                        *)
(* scripts/github-outbox-dispatch-watchdog.mjs) over the outbox's health          *)
(* (api/_outbox-health.js).  Letters of one type are worked by whoever calls the *)
(* outbox worker, in calls that may fail before they claim anything; GitHub's    *)
(* own schedule, of which only the newest run counts, is a second signal that    *)
(* can warn and never alert.                                                  *)
EXTENDS Integers, FiniteSets

CONSTANTS
  Letters,       \* their row ids
  MaxAge,        \* WATCHDOG_DELIVERY_MAX_AGE_MS
  Cadence,       \* CADENCE_MS
  Grace,         \* WATCHDOG_SCHEDULE_GRACE_MS
  RunDeadline,   \* WATCHDOG_WORKER_DEADLINE_MS
  Lease,         \* of a claim
  Backoff,       \* the longest wait before another attempt
  MaxAttempts,
  MaxClaims,     \* OUTBOX_CRON_MAX_CLAIMS
  Window,        \* OUTBOX_HEALTH_DEAD_LETTER_WINDOW_MS
  MaxRuns,       \* bound: scheduled runs
  Horizon        \* bound: the last instant

(* Assumed of every instance. *)
WatchdogConstants ==
  /\ {MaxAge, Cadence, Grace, RunDeadline, Lease, Backoff, MaxAttempts, MaxClaims, Window, Horizon} \subseteq Nat \ {0}
  /\ Letters \subseteq Nat /\ MaxRuns \in Nat /\ Cadence <= MaxAge

VARIABLES
  now,
  letter,    \* by id: status, due (the later of not_before and next_attempt_at), lease, attempts
  touched,   \* history: when each row last changed
  cleared,   \* history: when a call of the worker last left nothing overdue
  probe,     \* whether the watchdog is given the outbox's health, and GitHub's runs
  run        \* the newest scheduled run of the dispatch workflow, and how many there were

vars == <<now, letter, touched, cleared, probe, run>>

None == -1

Active == {"queued", "in_progress"}

Floor(t) == IF t < 0 THEN None ELSE (t \div Cadence) * Cadence

-----------------------------------------------------------------------------
(* readOutboxDeliveryHealth. *)
Overdue(l) == letter[l].status \in {"pending", "retry"} /\ letter[l].due <= now
Lapsed(l)  == letter[l].status = "processing" /\ letter[l].lease <= now

DueAge(l)   == IF Overdue(l) THEN now - letter[l].due ELSE None
StaleAge(l) == IF Lapsed(l) THEN now - letter[l].lease ELSE None
Dead(l)     == letter[l].status = "dead" /\ touched[l] >= now - Window

(* fetchOutboxDeliveryHealth, assessOutboxDeliveryHealth: what alerts and what    *)
(* only warns.  Health that is unavailable, unauthorized, malformed or not         *)
(* configured alerts by itself (only the category tells these apart).             *)
Alert ==
  \/ ~probe.health
  \/ \E l \in Letters : DueAge(l) > MaxAge \/ StaleAge(l) > MaxAge

Warned ==
  /\ probe.health
  /\ \/ \E l \in Letters : Dead(l)
     \/ ~Alert /\ \E l \in Letters : Overdue(l) \/ Lapsed(l)

(* assessOutboxDispatchRuns: the categories of the newest run that warn.       *)
ScheduleWarns ==
  \/ ~probe.runs
  \/ run.status = "none"
  \/ run.attempt # 1
  \/ run.status = "in_progress" /\ now - run.started >= RunDeadline
  \/ run.status = "completed" /\ ~run.success
  \/ run.created < Floor(now - Grace)

Status == IF Alert THEN "alert" ELSE IF Warned \/ ScheduleWarns THEN "warning" ELSE "healthy"

-----------------------------------------------------------------------------
Init ==
  /\ now = 0 /\ touched = [l \in Letters |-> 0] /\ cleared = 0
  /\ letter = [l \in Letters |-> [status |-> "none", due |-> 0, lease |-> 0, attempts |-> 0]]
  /\ probe = [health |-> TRUE, runs |-> TRUE]
  /\ run = [status |-> "none", attempt |-> 0, created |-> 0, started |-> 0, success |-> FALSE, count |-> 0]

Larger(a, b) == IF a > b THEN a ELSE b

Tick ==
  /\ now < Horizon /\ now' = now + 1
  /\ UNCHANGED <<letter, touched, cleared, probe, run>>

(* The application, its secret or the configuration breaks or recovers; so does *)
(* GitHub's API.                                                             *)
Probe ==
  /\ \/ probe' = [probe EXCEPT !.health = ~@]
     \/ probe' = [probe EXCEPT !.runs = ~@]
  /\ UNCHANGED <<now, letter, touched, cleared, run>>

Queue(l) ==
  /\ letter[l].status = "none"
  /\ \E delay \in {0, Backoff} : letter' = [letter EXCEPT ![l].status = "pending", ![l].due = now + delay]
  /\ touched' = [touched EXCEPT ![l] = now]
  /\ UNCHANGED <<now, cleared, probe, run>>

Settled(row, end) == [status |-> end, due |-> 0, lease |-> 0, attempts |-> row.attempts]

(* What a round may claim and in which order; what a sweep may settle.          *)
Claimable == {l \in Letters : (Overdue(l) \/ Lapsed(l)) /\ letter[l].attempts < MaxAttempts}
Exhausted == {l \in Letters : Lapsed(l) /\ letter[l].attempts = MaxAttempts}
Before(k, l) == letter[k].due < letter[l].due \/ (letter[k].due = letter[l].due /\ k < l)
First(n) == {l \in Claimable : Cardinality({k \in Claimable : Before(k, l)}) < n}

Claimed(row) == [row EXCEPT !.status = "processing", !.lease = now + Lease, !.attempts = @ + 1]

(* A scheduler calls the worker.  A round claims the first row of the type and a  *)
(* call has rounds while it has time, up to its limit: none when the preparation   *)
(* fails or comes late.  After them it sweeps one row that has no attempts left,   *)
(* if it still has time.                                                      *)
Work ==
  /\ \E n \in 0..MaxClaims, swept \in {{}} \cup {{l} : l \in Exhausted} :
       /\ letter' = [l \in Letters |-> CASE l \in First(n) -> Claimed(letter[l])
                                          [] l \in swept   -> Settled(letter[l], "dead")
                                          [] OTHER         -> letter[l]]
       /\ touched' = [l \in Letters |-> IF l \in First(n) \cup swept THEN now ELSE touched[l]]
       /\ cleared' = IF Claimable \cup Exhausted = First(n) \cup swept THEN now ELSE cleared
  /\ UNCHANGED <<now, probe, run>>

(* The claim's owner writes the outcome while its lease lives, or never.        *)
Outcome(l) ==
  /\ letter[l].status = "processing" /\ now < letter[l].lease
  /\ \/ \E end \in {"delivered", "dead"} : letter' = [letter EXCEPT ![l] = Settled(@, end)]
     \/ /\ letter[l].attempts < MaxAttempts
        /\ \E wait \in 1..Backoff :
             letter' = [letter EXCEPT ![l].status = "retry", ![l].due = now + wait, ![l].lease = 0]
  /\ touched' = [touched EXCEPT ![l] = now]
  /\ UNCHANGED <<now, cleared, probe, run>>

(* GitHub's schedule: a run for the cadence, late or never; its job calls the    *)
(* worker or fails.  A rerun is the same run with a higher attempt.             *)
CreateRun ==
  /\ run.status \in {"none", "completed"} /\ (run.status = "none" \/ run.created < now) /\ run.count < MaxRuns
  /\ run' = [status |-> "queued", attempt |-> 1, created |-> now, started |-> 0, success |-> FALSE, count |-> run.count + 1]
  /\ UNCHANGED <<now, letter, touched, cleared, probe>>

RunStep ==
  /\ \/ run.status = "queued" /\ run' = [run EXCEPT !.status = "in_progress", !.started = now]
     \/ /\ run.status = "in_progress"
        /\ \E ok \in BOOLEAN : run' = [run EXCEPT !.status = "completed", !.started = 0, !.success = ok]
     \/ run.status = "completed" /\ run.attempt = 1 /\ run' = [run EXCEPT !.status = "queued", !.attempt = 2, !.success = FALSE]
  /\ UNCHANGED <<now, letter, touched, cleared, probe>>

Next ==
  \/ Tick \/ Probe \/ Work \/ CreateRun \/ RunStep
  \/ \E l \in Letters : Queue(l) \/ Outcome(l)

Spec == Init /\ [][Next]_vars

-----------------------------------------------------------------------------
(* Every variable has its type. *)
TypeOK ==
  /\ now \in 0..Horizon /\ cleared \in 0..now
  /\ \A l \in Letters :
       /\ letter[l].status \in {"none", "pending", "processing", "retry", "delivered", "dead"}
       /\ letter[l].attempts \in 0..MaxAttempts /\ touched[l] \in 0..now
  /\ probe \in [health : BOOLEAN, runs : BOOLEAN]
  /\ run.status \in Active \cup {"none", "completed"} /\ run.attempt \in 0..2 /\ run.count \in 0..MaxRuns

(* A letter that is neither delivered nor dead and that nobody has touched for     *)
(* its longest wait plus the maximum age raises the alert, whatever state it was   *)
(* left in (waiting, leased by a worker that died, backing off).                  *)
NeglectIsTold ==
  \A l \in Letters :
    letter[l].status \in {"pending", "retry", "processing"} /\ now - touched[l] > Larger(Lease, Backoff) + MaxAge
      => Status = "alert"

(* When the watchdog could look and some call of the worker, whichever scheduler   *)
(* made it, came through to the end of the queue within the maximum age, there is   *)
(* no alert: not for what has failed, waits again, or lost its worker since.  (Calls *)
(* that fail or stop at their limit promise nothing: a backlog alerts.)            *)
ServedMailIsQuiet == Status = "alert" /\ probe.health => now - cleared > MaxAge

(* No letter is given up without a word: while the window lasts, a dead letter is  *)
(* seen, and "healthy" is said only when the outbox was looked at, nothing waits    *)
(* overdue and a scheduled run was created within the grace and a cadence.         *)
HealthIsWhole ==
  Status = "healthy" =>
    /\ probe.health /\ probe.runs
    /\ \A l \in Letters :
         ~(letter[l].status = "dead" /\ now - touched[l] <= Window) /\ ~Overdue(l) /\ ~Lapsed(l)
    /\ run.status # "none" /\ now - run.created < Grace + Cadence
=============================================================================
