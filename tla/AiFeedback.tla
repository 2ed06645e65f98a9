----------------------------- MODULE AiFeedback -----------------------------
(* AI feedback of one room: the consent of every participant, the monthly  *)
(* reservation, the session, the provider and the stored feedback, each a  *)
(* statement of its own (api/ai.js). Between any two of them a participant *)
(* may withdraw, the pair may lose its access and the process may end.     *)
EXTENDS Naturals, FiniteSets

CONSTANTS
  Users,         \* the participants
  Analyses,      \* POST /analyze requests
  MonthlyLimit,  \* 500, or 100 for a demo account
  DailyLimit,    \* the pool of ai_usage
  LastDay,       \* bound: days that pass
  MonthOf        \* the month of each day

(* Assumed of every instance. *)
AiConstants ==
  /\ IsFiniteSet(Analyses)
  /\ MonthlyLimit \in Nat /\ DailyLimit \in Nat /\ LastDay \in Nat
  /\ MonthOf \in [0..LastDay -> 0..LastDay]

VARIABLES
  paired,    \* authPairAccessSql holds of the participants
  consent,   \* ai_consents: "none", "given", "withdrawn" or "lapsed"
  run,       \* what each request has done and remembers
  slot,      \* ai_account_monthly_reservations, one per request at most
  usage,     \* ai_account_monthly_usage
  pool,      \* ai_usage
  day

aiVars == <<paired, consent, run, slot, usage, pool, day>>

NoRun  == [phase |-> "idle", user |-> "nobody", day |-> 0]
NoSlot == [state |-> "none", user |-> "nobody", month |-> 0]

Init ==
  /\ paired = TRUE /\ day = 0
  /\ consent = [u \in Users |-> "none"]
  /\ run = [r \in Analyses |-> NoRun] /\ slot = [r \in Analyses |-> NoSlot]
  /\ usage = [m \in 0..LastDay |-> [u \in Users |-> 0]]
  /\ pool = [d \in 0..LastDay |-> 0]

Consented == \A u \in Users : consent[u] = "given"
Month == MonthOf[day]

-----------------------------------------------------------------------------
(* POST /consent                                                            *)
GiveConsent(u) ==
  /\ paired
  /\ consent' = [consent EXCEPT ![u] = "given"]
  /\ UNCHANGED <<paired, run, slot, usage, pool, day>>

Withdraw(u) ==
  /\ consent[u] # "none"
  /\ consent' = [consent EXCEPT ![u] = "withdrawn"]
  /\ UNCHANGED <<paired, run, slot, usage, pool, day>>

(* A release with another policy version.                                   *)
Lapse ==
  /\ \E u \in Users : consent[u] = "given"
  /\ consent' = [u \in Users |-> IF consent[u] = "given" THEN "lapsed" ELSE consent[u]]
  /\ UNCHANGED <<paired, run, slot, usage, pool, day>>

-----------------------------------------------------------------------------
(* POST /analyze                                                            *)
At(r, phase) == run[r].phase = phase
To(r, phase) == run' = [run EXCEPT ![r].phase = phase]

Start(r, u) ==
  /\ At(r, "idle") /\ paired
  /\ run' = [run EXCEPT ![r] = [phase |-> "resolved", user |-> u, day |-> 0]]
  /\ UNCHANGED <<paired, consent, slot, usage, pool, day>>

Backstop(u) == IF consent[u] = "none" THEN [consent EXCEPT ![u] = "given"] ELSE consent

RecordConsent(r) ==
  /\ At(r, "resolved") /\ To(r, "recorded")
  /\ consent' = IF paired THEN Backstop(run[r].user) ELSE consent
  /\ UNCHANGED <<paired, slot, usage, pool, day>>

VerifyConsent(r) ==
  /\ At(r, "recorded")
  /\ To(r, IF paired /\ Consented THEN "consented" ELSE "done")
  /\ UNCHANGED <<paired, consent, slot, usage, pool, day>>

ReadQuotas(r) ==
  /\ At(r, "consented")
  /\ run' = [run EXCEPT ![r].day = day,
                        ![r].phase = IF pool[day] < DailyLimit /\ usage[Month][run[r].user] < MonthlyLimit
                                     THEN "allowed" ELSE "done"]
  /\ UNCHANGED <<paired, consent, slot, usage, pool, day>>

(* Mutant of WithinMonth: the count that was read is trusted.               *)
WithinMonthAsRead(u) == TRUE
WithinMonth(u) == usage[Month][u] < MonthlyLimit

Reserve(r) ==
  LET u == run[r].user
      granted == paired /\ WithinMonth(u) IN
  /\ At(r, "allowed") /\ To(r, IF granted THEN "reserved" ELSE "done")
  /\ IF granted
     THEN /\ slot' = [slot EXCEPT ![r] = [state |-> "held", user |-> u, month |-> Month]]
          /\ usage' = [usage EXCEPT ![Month][u] = @ + 1]
     ELSE UNCHANGED <<slot, usage>>
  /\ UNCHANGED <<paired, consent, pool, day>>

(* The session and its reservation are written in one transaction.          *)
OpenSession(r) ==
  /\ At(r, "reserved") /\ To(r, IF paired THEN "open" ELSE "failed")
  /\ slot' = IF paired THEN [slot EXCEPT ![r].state = "spent"] ELSE slot
  /\ UNCHANGED <<paired, consent, usage, pool, day>>

(* The transaction failed, or its answer was lost after it had committed.   *)
SessionFails(r) ==
  /\ At(r, "reserved") /\ To(r, "failed")
  /\ \/ UNCHANGED slot
     \/ paired /\ slot' = [slot EXCEPT ![r].state = "spent"]
  /\ UNCHANGED <<paired, consent, usage, pool, day>>

(* Mutant of Refundable: the session is not looked at.                      *)
RefundableAny(r) == slot[r].state # "refunded"
Refundable(r) == slot[r].state = "held"

Refund(r) ==
  /\ At(r, "failed") /\ To(r, "done")
  /\ IF Refundable(r)
     THEN /\ slot' = [slot EXCEPT ![r].state = "refunded"]
          /\ usage' = [usage EXCEPT ![slot[r].month][slot[r].user] = @ - 1]
     ELSE UNCHANGED <<slot, usage>>
  /\ UNCHANGED <<paired, consent, pool, day>>

(* The provider answers, with or without its fallbacks, or no answer can be *)
(* used; the call stays paid.                                               *)
Answer(r) ==
  /\ At(r, "open") /\ \E phase \in {"answered", "done"} : To(r, phase)
  /\ UNCHANGED <<paired, consent, slot, usage, pool, day>>

Guarded == paired /\ Consented

StoreFeedback(r) ==
  /\ At(r, "answered") /\ To(r, IF Guarded THEN "stored" ELSE "done")
  /\ UNCHANGED <<paired, consent, slot, usage, pool, day>>

CountCall(r) ==
  /\ At(r, "stored") /\ To(r, "counted")
  /\ pool' = [pool EXCEPT ![run[r].day] = @ + 1]
  /\ UNCHANGED <<paired, consent, slot, usage, day>>

(* The process ends, or a statement fails where nothing is taken back.      *)
Crash(r) ==
  /\ run[r].phase \notin {"idle", "done", "stored", "counted"} /\ To(r, "done")
  /\ UNCHANGED <<paired, consent, slot, usage, pool, day>>

LoseAccess ==
  paired /\ paired' = FALSE /\ UNCHANGED <<consent, run, slot, usage, pool, day>>
NextDay ==
  day < LastDay /\ day' = day + 1 /\ UNCHANGED <<paired, consent, run, slot, usage, pool>>

Next ==
  \/ \E u \in Users : GiveConsent(u) \/ Withdraw(u)
  \/ Lapse \/ LoseAccess \/ NextDay
  \/ \E r \in Analyses :
       \/ \E u \in Users : Start(r, u)
       \/ RecordConsent(r) \/ VerifyConsent(r) \/ ReadQuotas(r) \/ Reserve(r) \/ OpenSession(r)
       \/ SessionFails(r) \/ Refund(r) \/ Answer(r) \/ StoreFeedback(r) \/ CountCall(r) \/ Crash(r)

Spec == Init /\ [][Next]_aiVars

-----------------------------------------------------------------------------
TypeOK ==
  /\ paired \in BOOLEAN /\ day \in 0..LastDay
  /\ \A u \in Users : consent[u] \in {"none", "given", "withdrawn", "lapsed"}
  /\ \A r \in Analyses : slot[r].state \in {"none", "held", "spent", "refunded"}

(* The monthly count is what the reservations say, and never passes the     *)
(* limit, however many analyses reserve, fail, refund and cross a month at  *)
(* once; a session is always paid for.                                      *)
QuotaIsExact ==
  /\ \A m \in 0..LastDay, u \in Users :
       LET held == {r \in Analyses : /\ slot[r].user = u /\ slot[r].month = m
                                     /\ slot[r].state \in {"held", "spent"}} IN
       usage[m][u] = Cardinality(held) /\ usage[m][u] <= MonthlyLimit
  /\ \A r \in Analyses :
       run[r].phase \in {"open", "answered", "stored", "counted"} => slot[r].state = "spent"

(* Feedback is stored only while everyone in the room consents, whenever    *)
(* the withdrawal came; and nothing but its owner's own request to the      *)
(* consent endpoint restores a choice that was taken back.                  *)
ConsentIsHeld ==
  /\ \A r \in Analyses : run[r].phase = "answered" /\ run'[r].phase = "stored" => paired /\ Consented
  /\ \A u \in Users : consent[u] \in {"withdrawn", "lapsed"} /\ consent'[u] = "given" =>
       paired /\ run' = run

(* What a session used stays paid, whatever its request learns of it.       *)
SessionsStayPaid == \A r \in Analyses : slot[r].state = "spent" => slot'[r].state = "spent"
=============================================================================
