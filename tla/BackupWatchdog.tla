--------------------------- MODULE BackupWatchdog ---------------------------
(* The watchdog of the weekly backup rehearsal (hourly workflow and           *)
(* scripts/github-backup-restore-watchdog.mjs): it reads the scheduled runs of  *)
(* the rehearsal, the artifacts of the one it selects, downloads the monitor     *)
(* summary and verifies it.  GitHub starts a run late or never, a run fails or   *)
(* is run again, an artifact goes away.                                        *)
EXTENDS Integers, FiniteSets

CONSTANTS
  Week, Grace, Deadline, Stuck, Age,  \* the reviewed policy, in hours of the model
  Activation,    \* WATCHDOG_CONTROL_ACTIVATION_AT, a slot
  Start,         \* when the model begins
  Horizon,       \* bound: the last hour
  MaxMishaps,    \* bound: reruns and lost artifacts
  None

(* Assumed of every instance: what assessScheduledRuns demands of its policy,  *)
(* and the workflow's values (8 h + 1.5 h = 9.5 h; 7 d + 8 h + 1.5 h < 8 d).     *)
WatchdogConstants ==
  /\ {Week, Grace, Deadline, Stuck, Age, Activation, Horizon} \subseteq Nat \ {0} /\ MaxMishaps \in Nat
  /\ Start \in 0..Activation /\ Activation % Week = 0
  /\ Grace + Stuck <= Deadline /\ Grace < Deadline /\ Deadline < Week
  /\ Week + Grace + Stuck <= Age

VARIABLES
  now,
  runs,     \* the scheduled run of each slot that GitHub created
  watch,    \* the watchdog run in progress
  said,     \* what the last one to end said, until the hour is over
  won,      \* history: attempts that ended in success
  prompt,   \* history: no drill was late or failed so far
  mishaps   \* history: reruns and lost artifacts so far

vars == <<now, runs, watch, said, won, prompt, mishaps>>

Attempts == 1..(MaxMishaps + 1)

Slots == {s \in 0..Horizon : s % Week = 0}

MostRecentSlot(t) == (t \div Week) * Week

(* Before the grace has passed, the slot before is the one that counts.       *)
ExpectedSlot(t) == IF t < MostRecentSlot(t) + Grace THEN MostRecentSlot(t) - Week ELSE MostRecentSlot(t)

ExpectedAt(t) == IF ExpectedSlot(t) > Activation THEN ExpectedSlot(t) ELSE Activation

Created == {s \in Slots : runs[s].status # "none"}

Current(t) == {s \in Created : runs[s].created >= ExpectedAt(t)}

Newest(S) == CHOOSE s \in S : \A r \in S : runs[r].created <= runs[s].created

NoRun == [status |-> "none", created |-> 0, attempt |-> 0, kept |-> {}]

Verdict(v, s, a) == [verdict |-> v, at |-> now, slot |-> s, attempt |-> a]

Silent == [verdict |-> "nothing", at |-> 0, slot |-> None, attempt |-> 0]

Idle == [step |-> "idle", at |-> 0, slot |-> None, attempt |-> 0]

(* assessScheduledRuns: the verdict on the runs, or the run whose evidence is   *)
(* to be looked at.                                                           *)
Assessment(t) ==
  IF t < Activation THEN Verdict("setup", None, 0)
  ELSE IF Current(t) = {} THEN Verdict("alert", None, 0)
  ELSE LET s == Newest(Current(t))
           earlier == {r \in Current(t) : runs[r].status = "success"}
       IN CASE runs[s].status = "active" /\ (t - MostRecentSlot(t) >= Deadline \/ t - runs[s].created > Stuck)
                 -> Verdict("alert", s, runs[s].attempt)
            [] runs[s].status = "active" /\ t - MostRecentSlot(t) < Deadline /\ t - runs[s].created <= Stuck
                 -> IF earlier = {} THEN Verdict("observing", s, runs[s].attempt)
                    ELSE LET e == Newest(earlier)
                         IN Verdict(IF t - runs[e].created > Age THEN "alert" ELSE "candidate", e, runs[e].attempt)
            [] runs[s].status = "failure" -> Verdict("alert", s, runs[s].attempt)
            [] OTHER -> Verdict(IF t - runs[s].created > Age THEN "alert" ELSE "candidate", s, runs[s].attempt)

-----------------------------------------------------------------------------
Init ==
  /\ now = Start /\ runs = [s \in Slots |-> NoRun] /\ watch = Idle
  /\ said = Silent
  /\ won = {} /\ prompt = TRUE /\ mishaps = 0

(* A run that has not begun by the end of the grace, or not ended Stuck after   *)
(* its creation, is not prompt.                                               *)
Overdue(t) ==
  \E s \in Slots :
    \/ s >= Activation /\ runs[s].status = "none" /\ t >= s + Grace
    \/ runs[s].status = "active" /\ t > runs[s].created + Stuck

Tick ==
  /\ now < Horizon /\ now' = now + 1
  /\ prompt' = (prompt /\ ~Overdue(now + 1)) /\ said' = Silent
  /\ UNCHANGED <<runs, watch, won, mishaps>>

(* GitHub starts the drill of a slot, late or never.                          *)
StartRun ==
  /\ LET s == MostRecentSlot(now)
     IN /\ runs[s].status = "none"
        /\ runs' = [runs EXCEPT ![s] =
             [status |-> "active", created |-> now, attempt |-> 1, kept |-> {}]]
  /\ UNCHANGED <<now, watch, said, won, prompt, mishaps>>

(* A drill succeeds only with a healthy monitor summary (see Rehearsal).       *)
EndRun ==
  /\ \E s \in Created : runs[s].status = "active" /\ \E ok \in BOOLEAN :
       /\ runs' = [runs EXCEPT ![s].status = IF ok THEN "success" ELSE "failure",
                               ![s].kept = IF ok THEN runs[s].kept \cup {runs[s].attempt} ELSE runs[s].kept]
       /\ won' = IF ok THEN won \cup {<<s, runs[s].attempt>>} ELSE won
       /\ prompt' = (prompt /\ ok)
  /\ UNCHANGED <<now, watch, said, mishaps>>

(* Somebody runs it again: the same run with its first creation time.          *)
RerunRun ==
  /\ mishaps < MaxMishaps /\ mishaps' = mishaps + 1
  /\ \E s \in Created : runs[s].status # "active"
       /\ runs' = [runs EXCEPT ![s].status = "active", ![s].attempt = @ + 1]
  /\ UNCHANGED <<now, watch, said, won, prompt>>

LoseArtifact ==
  /\ mishaps < MaxMishaps /\ mishaps' = mishaps + 1
  /\ \E s \in Created : runs[s].kept # {} /\ runs' = [runs EXCEPT ![s].kept = {}]
  /\ UNCHANGED <<now, watch, said, won, prompt>>

-----------------------------------------------------------------------------
Ends(verdict) ==
  /\ said' = verdict /\ watch' = Idle
  /\ UNCHANGED <<now, runs, won, prompt, mishaps>>

(* The runs are listed at one observed instant.                               *)
Discover ==
  /\ watch.step = "idle"
  /\ LET v == Assessment(now)
     IN IF v.verdict = "candidate"
          THEN /\ watch' = [step |-> "artifacts", at |-> now, slot |-> v.slot, attempt |-> v.attempt]
               /\ UNCHANGED <<now, runs, said, won, prompt, mishaps>>
          ELSE Ends(v)

Found(verdict) == [verdict |-> verdict, at |-> watch.at, slot |-> watch.slot, attempt |-> watch.attempt]

Artifact == watch.attempt \in runs[watch.slot].kept

(* The monitor artifact of that run and attempt, by name.                      *)
ListArtifacts ==
  /\ watch.step = "artifacts"
  /\ IF Artifact THEN /\ watch' = [watch EXCEPT !.step = "download"]
                      /\ UNCHANGED <<now, runs, said, won, prompt, mishaps>>
                 ELSE Ends(Found("alert"))

(* Download and verification.  The summary is younger than its run, whose age    *)
(* was looked at.                                                            *)
Verify ==
  /\ watch.step = "download"
  /\ Ends(Found(IF Artifact THEN "healthy" ELSE "alert"))

(* GitHub does not answer: the alert "api_failure".                           *)
ApiFails ==
  /\ watch.step # "idle" \/ now >= Activation
  /\ Ends(Verdict("unreachable", None, 0))

Next ==
  \/ Tick \/ StartRun \/ EndRun \/ RerunRun \/ LoseArtifact
  \/ Discover \/ ListArtifacts \/ Verify \/ ApiFails

Spec == Init /\ [][Next]_vars

-----------------------------------------------------------------------------
(* Every variable has its type. *)
TypeOK ==
  /\ now \in Start..Horizon /\ prompt \in BOOLEAN /\ won \subseteq Slots \X Attempts
  /\ runs \in [Slots -> [status : {"none", "active", "success", "failure"}, created : 0..Horizon,
                         attempt : {0} \cup Attempts, kept : SUBSET Attempts]]
  /\ watch.step \in {"idle", "artifacts", "download"}
  /\ said.verdict \in {"nothing", "setup", "observing", "healthy", "alert", "unreachable"}

(* "healthy" is said only of an attempt that ended in success, of a run created  *)
(* no earlier than the slot that counted when the runs were listed, and never of *)
(* a run before the activation.                                              *)
HealthyIsProved ==
  said.verdict = "healthy" =>
    /\ <<said.slot, said.attempt>> \in won
    /\ runs[said.slot].created >= Activation /\ runs[said.slot].created >= ExpectedSlot(said.at)

(* Once a slot's deadline has passed without a success, every watchdog run says   *)
(* so: an old success, a run that hangs and one that never began all alert.      *)
MissIsTold ==
  LET s == MostRecentSlot(said.at)
  IN said.at >= s + Deadline /\ s >= Activation /\ (\A a \in Attempts : <<s, a>> \notin won)
       => said.verdict \in {"alert", "unreachable", "nothing"}

(* Drills that begin within the grace and end in time raise no alarm, up to the  *)
(* start of the first one, which has no grace (the activation itself counts).   *)
PromptDrillsAreQuiet ==
  prompt /\ mishaps = 0 /\ said.verdict = "alert" => said.at < Activation + Grace /\ said.slot = None
=============================================================================
