---------------------------- MODULE OutboxWorker ----------------------------
(* One invocation of the outbox worker (api/ops.js handleOutboxWorker): every *)
(* job it waits for has a deadline, and a job that misses it is left running, *)
(* not stopped.  The order is: reconcile old pairing mail, build the          *)
(* handlers, queue due reminders, run the deletion jobs, deliver round by     *)
(* round, purge logs, redact the outbox, read the metrics, log, answer.  A     *)
(* provider is configured and outbox redaction is on.                        *)
EXTENDS Naturals, FiniteSets

CONSTANTS
  Budget,          \* OUTBOX_CRON_BUDGET_MS
  Reserve,         \* OUTBOX_CRON_FINALIZATION_RESERVE_MS
  Window,          \* OUTBOX_CRON_MIN_DISPATCH_WINDOW_MS
  ReminderSlice,   \* OUTBOX_REMINDER_DUE_CHECK_BUDGET_MS
  GraceSlice,      \* OUTBOX_DELETION_GRACE_BUDGET_MS
  RetentionSlice,  \* the budgets of both retention jobs
  MaxRounds        \* bound: rounds that find mail (MaxClaims limits them in the code)

(* Assumed of every instance. *)
WorkerConstants ==
  /\ {Budget, Reserve, Window, ReminderSlice, GraceSlice, RetentionSlice, MaxRounds} \subseteq Nat \ {0}
  /\ Reserve + Window < Budget

VARIABLES
  now,     \* milliseconds since the request, in coarse units
  at,      \* the job that is waited for, or "answer"
  since,   \* when the waiting began
  jobs,    \* what became of each job
  lateness,\* deliver: the invocation's deadlineReached
  rounds,  \* rounds that claimed mail
  trouble, \* mail of this invocation was retried, dead-lettered or left to its lease
  early,   \* the handlers were ready while both slices still fitted
  answer   \* the response and the level of the log row

vars == <<now, at, since, jobs, lateness, rounds, trouble, early, answer>>

Preparing  == {"legacy", "plan", "reminders", "grace"}
Delivering == {"claim", "send", "finish", "sweep"}
Retaining  == {"logs", "pii"}
Jobs       == Preparing \cup Delivering \cup Retaining \cup {"metrics", "log"}

Least(a, b) == IF a < b THEN a ELSE b

PreparationDeadline == Budget - Reserve - Window

(* Until when the invocation waits for a job that began at s.                *)
Deadline(j, s) ==
  CASE j \in {"legacy", "plan"} -> PreparationDeadline
    [] j = "reminders" -> Least(PreparationDeadline, s + ReminderSlice)
    [] j = "grace" -> Least(PreparationDeadline, s + GraceSlice)
    [] j = "claim" -> Budget - Reserve - Window
    [] j = "send" -> Budget - Reserve
    [] j \in Retaining -> s + RetentionSlice
    [] OTHER -> Budget

CanStart == now + Reserve + Window < Budget

Fits == now + RetentionSlice <= Budget - Reserve

-----------------------------------------------------------------------------
(* What follows a step that ended with the jobs and the lateness given.       *)

Answered(j, level, status) ==
  /\ at' = "answer" /\ since' = now /\ jobs' = j
  /\ answer' = [status |-> status, level |-> level]

WaitFor(j, job) ==
  /\ at' = job /\ since' = now /\ jobs' = [j EXCEPT ![job] = "running"]
  /\ UNCHANGED answer

Incomplete == {"failed", "left"}

(* The level of the log row.                                                 *)
Level(j) == IF trouble \/ \E k \in {"reminders", "grace", "logs", "pii"} : j[k] \in Incomplete
              THEN "warn" ELSE "success"

Finishing(j, overdue) ==
  IF overdue \/ now >= Budget THEN Answered(j, "none", 200) ELSE WaitFor(j, "log")

Measuring(j, overdue) ==
  IF overdue \/ now >= Budget THEN Answered(j, "none", 200) ELSE WaitFor(j, "metrics")

Redacting(j, overdue) ==
  IF ~overdue /\ Fits THEN WaitFor(j, "pii") ELSE Measuring(j, overdue)

Purging(j, overdue) ==
  IF ~overdue /\ Fits THEN WaitFor(j, "logs") ELSE Redacting(j, overdue)

(* The deadline is looked at before every claim and before the sweep.         *)
Claiming(j) ==
  IF CanStart THEN WaitFor(j, "claim") /\ UNCHANGED lateness
              ELSE Purging(j, TRUE) /\ lateness' = TRUE

Sweeping(j) ==
  IF CanStart THEN WaitFor(j, "sweep") /\ UNCHANGED lateness
              ELSE Purging(j, TRUE) /\ lateness' = TRUE

-----------------------------------------------------------------------------
Init ==
  /\ now = 0 /\ at = "legacy" /\ since = 0
  /\ jobs = [j \in Jobs |-> IF j = "legacy" THEN "running" ELSE "no"]
  /\ lateness = FALSE /\ rounds = 0 /\ trouble = FALSE /\ early = FALSE
  /\ answer = [status |-> 0, level |-> "none"]

(* Time passes while a job is waited for; its timer fires when it is due.     *)
Tick ==
  /\ at # "answer" /\ now < Deadline(at, since)
  /\ now' = now + 1
  /\ UNCHANGED <<at, since, jobs, lateness, rounds, trouble, early, answer>>

Done(j) == [jobs EXCEPT ![j] = "done"]
Waiting(j) == at = j /\ now < Deadline(j, since)

PrepareStep ==
  /\ \/ Waiting("legacy") /\ WaitFor(Done("legacy"), "plan") /\ UNCHANGED early
     \/ /\ Waiting("plan") /\ early' = (now + ReminderSlice + GraceSlice < PreparationDeadline)
        /\ \/ WaitFor(Done("plan"), "reminders")    \* REMINDERS_ENABLED
           \/ WaitFor(Done("plan"), "grace")
     \/ /\ at = "reminders" /\ UNCHANGED early
        /\ \E end \in {"done", "failed"} :
             /\ Waiting("reminders")
             /\ WaitFor([jobs EXCEPT !["reminders"] = end], "grace")
  /\ UNCHANGED <<now, lateness, rounds, trouble>>

(* The reminder check misses its own slice: the deletion jobs go on.          *)
RemindersLate ==
  /\ at = "reminders" /\ now = Deadline(at, since) /\ now < PreparationDeadline
  /\ WaitFor([jobs EXCEPT !["reminders"] = "left"], "grace")
  /\ UNCHANGED <<now, lateness, rounds, trouble, early>>

(* The deletion jobs end, fail or miss their own slice: delivery begins.       *)
Prepared ==
  /\ at = "grace" /\ now < PreparationDeadline
  /\ \E end \in IF now < Deadline(at, since) THEN {"done", "failed"} ELSE {"left"} :
       Claiming([jobs EXCEPT !["grace"] = end])
  /\ UNCHANGED <<now, rounds, trouble, early>>

(* The whole preparation misses its deadline: no handlers, no delivery, no     *)
(* retention, no metrics.  What was running goes on; what had not begun finds   *)
(* its deadline past and never does.                                          *)
PreparationLate ==
  /\ at \in Preparing /\ now = PreparationDeadline
  /\ Answered([jobs EXCEPT ![at] = "left"], "none", 200)
  /\ lateness' = TRUE
  /\ UNCHANGED <<now, rounds, trouble, early>>

(* An error of the reconciliation, the plan, a claim, the sweep or the metrics  *)
(* ends the invocation.                                                      *)
Throw ==
  /\ at \in {"legacy", "plan", "claim", "sweep", "metrics"} /\ Waiting(at)
  /\ Answered([jobs EXCEPT ![at] = "failed"], "none", 503)
  /\ UNCHANGED <<now, lateness, rounds, trouble, early>>

(* A claim finds mail or none.                                               *)
ClaimEnds ==
  /\ Waiting("claim")
  /\ \/ /\ rounds' = rounds + 1
        /\ IF Budget - now - Reserve >= Window THEN WaitFor(Done("claim"), "send")
                                               ELSE WaitFor(Done("claim"), "finish")
        /\ UNCHANGED lateness
     \/ Sweeping(Done("claim")) /\ UNCHANGED rounds
  /\ UNCHANGED <<now, trouble, early>>

ClaimLate ==
  /\ at = "claim" /\ now = Deadline(at, since)
  /\ Purging([jobs EXCEPT !["claim"] = "left"], TRUE) /\ lateness' = TRUE
  /\ UNCHANGED <<now, rounds, trouble, early>>

(* Every provider call of the round has answered or timed out.                *)
SendEnds ==
  /\ at = "send"
  /\ \E end \in IF Waiting("send") THEN {"done", "failed"} ELSE {"left"} :
       /\ WaitFor([jobs EXCEPT !["send"] = end], "finish")
       /\ trouble' = (trouble \/ end # "done")
  /\ UNCHANGED <<now, lateness, rounds, early>>

(* Every outcome is written, or its letter is left to its lease.  Rounds go on  *)
(* up to the limit of claims.                                                *)
FinishEnds ==
  /\ at = "finish"
  /\ \E end \in IF Waiting("finish") THEN {"done", "failed"} ELSE {"left"} :
       LET j == [jobs EXCEPT !["finish"] = end]
       IN /\ IF rounds < MaxRounds THEN Claiming(j) ELSE Sweeping(j)
          /\ trouble' = (trouble \/ end # "done")
  /\ UNCHANGED <<now, rounds, early>>

SweepEnds ==
  /\ at = "sweep"
  /\ IF Waiting("sweep") THEN Purging(Done("sweep"), lateness) /\ UNCHANGED lateness
                         ELSE Purging([jobs EXCEPT !["sweep"] = "left"], TRUE) /\ lateness' = TRUE
  /\ UNCHANGED <<now, rounds, trouble, early>>

RetentionEnds ==
  /\ at \in Retaining
  /\ \E end \in IF Waiting(at) THEN {"done", "failed"} ELSE {"left"} :
       LET j == [jobs EXCEPT ![at] = end]
       IN IF at = "logs" THEN Redacting(j, lateness) ELSE Measuring(j, lateness)
  /\ UNCHANGED <<now, lateness, rounds, trouble, early>>

MetricsEnd ==
  /\ at = "metrics"
  /\ IF Waiting("metrics") THEN Finishing(Done("metrics"), lateness)
                           ELSE Finishing([jobs EXCEPT !["metrics"] = "left"], TRUE)
  /\ UNCHANGED <<now, lateness, rounds, trouble, early>>

LogEnds ==
  /\ at = "log"
  /\ Answered([jobs EXCEPT !["log"] = IF Waiting("log") THEN "done" ELSE "left"], Level(jobs), 200)
  /\ UNCHANGED <<now, lateness, rounds, trouble, early>>

Next ==
  \/ Tick \/ PrepareStep \/ RemindersLate \/ Prepared \/ PreparationLate \/ Throw
  \/ ClaimEnds \/ ClaimLate \/ SendEnds \/ FinishEnds \/ SweepEnds
  \/ RetentionEnds \/ MetricsEnd \/ LogEnds

Spec == Init /\ [][Next]_vars

-----------------------------------------------------------------------------
(* Every variable has its type. *)
TypeOK ==
  /\ now \in 0..Budget /\ at \in Jobs \cup {"answer"} /\ since \in 0..now
  /\ jobs \in [Jobs -> {"no", "running", "done", "failed", "left"}]
  /\ lateness \in BOOLEAN /\ rounds \in 0..MaxRounds /\ trouble \in BOOLEAN /\ early \in BOOLEAN
  /\ answer \in [status : {0, 200, 503}, level : {"none", "warn", "success"}]

(* However long the jobs take, the outcome of mail that a provider was given   *)
(* has the reserve to be written in (the time kept free at every earlier       *)
(* deadline), so a delivered letter is not sent again for want of time.         *)
OutcomesHaveTime ==
  at = "finish" /\ jobs["send"] # "no" => since + Reserve <= Budget

(* A reminder check or a deletion job that hangs or fails does not keep mail   *)
(* from being claimed, provided the handlers were ready while both slices still *)
(* fitted (later, the slice ends with the preparation itself).                 *)
MailIsNotHeldBack ==
  at = "answer" /\ early => jobs["claim"] # "no"

(* A log row says "success" only of an invocation in which every job that was   *)
(* begun did its work and every letter that was claimed was settled.             *)
SuccessIsTrue ==
  answer.level = "success" => ~trouble /\ \A j \in Jobs \ {"log"} : jobs[j] \in {"no", "done"}

(* Retention runs only when mail is served: after the last claim, never in an   *)
(* invocation that ran out of time, and it leaves the reserve alone.            *)
RetentionWaitsForMail ==
  \A j \in Retaining : jobs[j] = "running" =>
    /\ jobs["claim"] \in {"done"} /\ ~lateness
    /\ since + RetentionSlice <= Budget - Reserve
=============================================================================
