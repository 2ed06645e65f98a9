------------------------------ MODULE Execution ------------------------------
(* Running a submission: the code is read, the lease and the quota of its    *)
(* user are taken, an isolated provider runs it, and the result is stored    *)
(* where what was run is still what the pair has.  Between these steps pages *)
(* type, members confirm or leave, a call of the database or the provider    *)
(* takes its time, the server dies.  Nothing ends a program with its         *)
(* request, so programs has those that the provider still runs.              *)
(* A document is its version.                                                *)
EXTENDS Integers, Sequences, FiniteSets

CONSTANTS
  Requests,      \* one for each click on Run
  UserOf,        \* whose request it is
  ModeOf,        \* "solo": no pair; "pair": primary; "secondary"
  ServerOf,      \* the process that serves it
  Lease,         \* thirty seconds
  Minute, PerMinute,
  MaxNow, MaxVersion

(* Assumed of every instance. *)
ExecutionConstants ==
  /\ ModeOf \in [Requests -> {"solo", "pair", "secondary"}]
  /\ {Lease, Minute, PerMinute} \subseteq Nat \ {0}
  /\ MaxNow \in Nat /\ MaxVersion \in Nat \ {0}

VARIABLES
  now,
  document,  \* the version of the code document
  terminal,  \* every member confirmed
  allowed,   \* of each user: its access to the pair (its account, for solo)
  step,      \* of each request
  code,      \* the version it read
  lease,     \* the place of its lease in leases, or 0
  since,     \* when it was admitted by the rate limit
  programs,  \* the requests whose program the provider runs
  leases,    \* app_logs execute_lease_start: [by, at, ended]
  attempts,  \* app_logs execute_attempt: [by, at]
  active,    \* __activeExecutionsByUser: <<server, user>>
  runs       \* session_runs, circle_session_runs: <<request, version>>

vars == <<now, document, terminal, allowed, step, code, lease, since, programs, leases, attempts,
          active, runs>>

Users == {UserOf[r] : r \in Requests}
Key(r) == <<ServerOf[r], UserOf[r]>>
Paired(r) == ModeOf[r] # "solo"

Goto(r, next) == step' = [step EXCEPT ![r] = next]

(* ------------------------------ Environment ------------------------------ *)

(* The document is merged, one member confirms last, a member leaves.        *)
Edit ==
  /\ document < MaxVersion /\ ~terminal /\ document' = document + 1
  /\ UNCHANGED <<now, terminal, allowed, step, code, lease, since, programs, leases, attempts, active, runs>>

Complete ==
  /\ ~terminal /\ terminal' = TRUE
  /\ UNCHANGED <<now, document, allowed, step, code, lease, since, programs, leases, attempts, active, runs>>

Exclude(u) ==
  /\ allowed[u] /\ allowed' = [allowed EXCEPT ![u] = FALSE]
  /\ UNCHANGED <<now, document, terminal, step, code, lease, since, programs, leases, attempts, active, runs>>

Tick ==
  /\ now < MaxNow /\ now' = now + 1
  /\ UNCHANGED <<document, terminal, allowed, step, code, lease, since, programs, leases, attempts, active, runs>>

(* ------------------------------- A request ------------------------------- *)

(* readCanonicalCodeForExecution, or the first transaction of a secondary    *)
(* request: refused unless the version of the page is the current one.       *)
ReadCode(r) ==
  /\ step[r] = "new"
  /\ IF allowed[UserOf[r]] /\ (Paired(r) => ~terminal)
     THEN code' = [code EXCEPT ![r] = document] /\ Goto(r, "read")
     ELSE UNCHANGED code /\ Goto(r, "refused")
  /\ UNCHANGED <<now, document, terminal, allowed, lease, since, programs, leases, attempts, active, runs>>

(* Mutant of Leased: the end of any lease is the end of all.                 *)
LeasedOnce(u) ==
  /\ \E i \in 1..Len(leases) : leases[i].by = u /\ leases[i].at >= now - Lease
  /\ \A i \in 1..Len(leases) : leases[i].by = u => ~leases[i].ended

(* acquireExecutionLease NOT EXISTS: a lease of u that runs.                 *)
Leased(u) == \E i \in 1..Len(leases) :
  leases[i].by = u /\ leases[i].at >= now - Lease /\ ~leases[i].ended

(* acquireExecutionLease: the answer of the insert may be lost.              *)
Acquire(r) ==
  /\ step[r] = "read"
  /\ IF Leased(UserOf[r]) \/ (ModeOf[r] # "secondary" /\ Key(r) \in active)
     THEN Goto(r, "refused") /\ UNCHANGED <<lease, leases, active>>
     ELSE /\ leases' = Append(leases, [by |-> UserOf[r], at |-> now, ended |-> FALSE])
          /\ \/ /\ lease' = [lease EXCEPT ![r] = Len(leases) + 1]
                /\ active' = IF ModeOf[r] = "secondary" THEN active ELSE active \cup {Key(r)}
                /\ Goto(r, "leased")
             \/ Goto(r, "failed") /\ UNCHANGED <<lease, active>>
  /\ UNCHANGED <<now, document, terminal, allowed, code, since, programs, attempts, runs>>

(* releaseExecutionLease; the insert of its end may fail, which is reported. *)
Release(r) ==
  /\ \/ lease[r] # 0 /\ leases' = [leases EXCEPT ![lease[r]].ended = TRUE]
     \/ UNCHANGED leases
  /\ lease' = [lease EXCEPT ![r] = 0]
  /\ active' = IF ModeOf[r] = "secondary" THEN active ELSE active \ {Key(r)}

Recent(u) == {i \in 1..Len(attempts) : attempts[i].by = u /\ attempts[i].at >= now - Minute}

(* The rate, counted before the attempt is added to it.                      *)
WithinRate(u) == Cardinality(Recent(u)) < PerMinute

(* The rate limit: an attempt is recorded, then counted with the others; or  *)
(* the batch fails, before or after its commit.                              *)
Attempt(r) ==
  /\ step[r] = "leased"
  /\ \/ /\ attempts' = Append(attempts, [by |-> UserOf[r], at |-> now])
        /\ IF WithinRate(UserOf[r])
           THEN /\ Goto(r, "admitted") /\ since' = [since EXCEPT ![r] = now]
                /\ UNCHANGED <<lease, leases, active>>
           ELSE Goto(r, "refused") /\ Release(r) /\ UNCHANGED since
     \/ /\ attempts' \in {attempts, Append(attempts, [by |-> UserOf[r], at |-> now])}
        /\ Goto(r, "failed") /\ Release(r) /\ UNCHANGED since
  /\ UNCHANGED <<now, document, terminal, allowed, code, programs, runs>>

(* executeProgram: the sandbox is there, or the call goes out, however long  *)
(* after the lease was given.                                                *)
Start(r) ==
  /\ step[r] = "admitted" /\ Goto(r, "running") /\ programs' = programs \cup {r}
  /\ UNCHANGED <<now, document, terminal, allowed, code, lease, since, leases, attempts, active, runs>>

(* It returns what the program printed, perhaps for an aborted command, and  *)
(* the sandbox is deleted, or neither deleted nor stopped.                   *)
Return(r) ==
  /\ step[r] = "running" /\ Goto(r, "ran") /\ programs' \in {programs, programs \ {r}}
  /\ UNCHANGED <<now, document, terminal, allowed, code, lease, since, leases, attempts, active, runs>>

(* It fails: no sandbox in time, too much output, no answer.                 *)
Fail(r) ==
  /\ step[r] \in {"admitted", "running"} /\ Goto(r, "failed") /\ Release(r)
  /\ programs' \in {programs, programs \ {r}}
  /\ UNCHANGED <<now, document, terminal, allowed, code, since, attempts, runs>>

(* The provider ends a program that nobody waits for, by its own time-out.   *)
Gone(r) ==
  /\ r \in programs /\ step[r] # "running" /\ programs' = programs \ {r}
  /\ UNCHANGED <<now, document, terminal, allowed, step, code, lease, since, leases, attempts, active, runs>>

(* The result is of the version the pair has, and nobody has finished.       *)
Current(r) ==
  /\ allowed[UserOf[r]]
  /\ Paired(r) => document = code[r] /\ ~terminal

(* The guarded INSERT, or the second transaction of a secondary request, and *)
(* the release of the lease.                                                 *)
Persist(r) ==
  /\ step[r] = "ran"
  /\ runs' = IF Current(r) THEN runs \cup {<<r, code[r]>>} ELSE runs
  /\ Goto(r, "answered") /\ Release(r)
  /\ UNCHANGED <<now, document, terminal, allowed, code, since, programs, attempts>>

Served == {"read", "leased", "admitted", "running", "ran"}

(* A process dies: its requests are never answered, its set is empty; their  *)
(* leases and programs stay.                                                 *)
Crash(s) ==
  /\ \E r \in Requests : ServerOf[r] = s /\ step[r] \in Served
  /\ step' = [r \in Requests |-> IF ServerOf[r] = s /\ step[r] \in Served
                                 THEN "failed" ELSE step[r]]
  /\ active' = {k \in active : k[1] # s}
  /\ UNCHANGED <<now, document, terminal, allowed, code, lease, since, programs, leases, attempts, runs>>

(* ------------------------------------------------------------------------- *)

Init ==
  /\ now = 0 /\ document = 1 /\ terminal = FALSE /\ allowed = [u \in Users |-> TRUE]
  /\ step = [r \in Requests |-> "new"] /\ code = [r \in Requests |-> 0]
  /\ lease = [r \in Requests |-> 0] /\ since = [r \in Requests |-> 0] /\ programs = {}
  /\ leases = <<>> /\ attempts = <<>> /\ active = {} /\ runs = {}

Next ==
  \/ \E r \in Requests : \/ ReadCode(r) \/ Acquire(r) \/ Attempt(r) \/ Start(r) \/ Return(r) \/ Fail(r)
                         \/ Persist(r) \/ Gone(r)
  \/ \E u \in Users : Exclude(u)
  \/ \E s \in {ServerOf[r] : r \in Requests} : Crash(s)
  \/ Edit \/ Complete \/ Tick

Spec == Init /\ [][Next]_vars

(* ------------------------------ Properties ------------------------------- *)

TypeOK ==
  /\ now \in 0..MaxNow /\ document \in 1..MaxVersion /\ terminal \in BOOLEAN
  /\ allowed \in [Users -> BOOLEAN]
  /\ step \in [Requests -> Served \cup {"new", "answered", "refused", "failed"}]
  /\ code \in [Requests -> 0..MaxVersion] /\ lease \in [Requests -> 0..Len(leases)]
  /\ since \in [Requests -> 0..MaxNow] /\ leases \in Seq([by : Users, at : 0..MaxNow, ended : BOOLEAN])
  /\ attempts \in Seq([by : Users, at : 0..MaxNow]) /\ programs \subseteq Requests
  /\ runs \subseteq Requests \X (1..MaxVersion)
  /\ \A k \in active : \E r \in Requests : Key(r) = k /\ step[r] \in {"leased", "admitted", "running", "ran"}

(* The lease that r took, and did not give back, is in force.                *)
Live(r) == lease[r] # 0 /\ leases[lease[r]].at >= now - Lease

(* A program that nobody waits for, or whose request outlived its lease.     *)
LeftOver(r) == step[r] # "running" \/ ~Live(r)

(* One request of a user has a lease in force, over all processes and        *)
(* through crashes, refusals, lost answers and leases that lapse; so what a  *)
(* user's program meets at the provider is left over.  api/data.js:2559.     *)
OneUnderLease == \A r, s \in Requests : r # s /\ UserOf[r] = UserOf[s] =>
  /\ ~(Live(r) /\ Live(s))
  /\ {r, s} \subseteq programs => LeftOver(r) \/ LeftOver(s)

(* In no minute are more programs of one user admitted than the limit.       *)
(* api/data.js:2729.                                                         *)
RunsAreLimited == \A u \in Users, t \in 0..now :
  Cardinality({r \in Requests : UserOf[r] = u /\ step[r] \in {"admitted", "running", "ran", "answered"}
                                /\ since[r] \in t..(t + Minute)}) <= PerMinute

(* What is stored was run on the version that the pair has at that moment,   *)
(* and no result joins a session that is completed.  api/data.js:2782.       *)
ResultsAreCurrent == \A run \in runs' \ runs :
  /\ allowed[UserOf[run[1]]]
  /\ Paired(run[1]) => run[2] = document /\ ~terminal
=============================================================================
