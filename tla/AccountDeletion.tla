-------------------------- MODULE AccountDeletion --------------------------
(***************************************************************************)
(* Account deletion with its grace period, the durable deletion ledger and *)
(* a point-in-time restore (api/_account-deletion.js,                      *)
(* _account-deletion-grace.js, _account-deletion-tokens.js,                *)
(* _deletion-ledger-db.js, the endpoints in auth.js, the operator's        *)
(* scripts/deletion-ledger.mjs).                                           *)
(*                                                                         *)
(* A write transaction is one step.  What a request or the job learnt      *)
(* before it is in call and job: the clock it read, the requests it found  *)
(* due, the entry it still has to write to the ledger, which is a database *)
(* of its own.  Circles has the rules of memberships in full; here they    *)
(* are one circle and who its owners are.                                  *)
(***************************************************************************)
EXTENDS Naturals, Sequences, FiniteSets, FiniteSetsExt

CONSTANTS
  Users, Owners,  \* accounts, and those that own the circle at first
  Sessions,       \* sign-in slots: a browser that may sign in again and again
  UserOf,         \* the account of each
  Grace,          \* DELETION_GRACE_SECONDS in clock ticks
  Limit,          \* DELETION_GRACE_MAX_EXECUTIONS_PER_RUN
  MaxRequests,    \* bound: deletion requests
  Horizon         \* bound: the clock stops here

ASSUME DeletionAssumption ==
  /\ Owners \subseteq Users /\ Owners # {} /\ UserOf \in [Sessions -> Users]
  /\ Grace \in Nat \ {0} /\ Limit \in Nat \ {0} /\ MaxRequests \in Nat
  /\ Horizon \in Nat \ {0}

VARIABLES
  active,    \* accounts with an active membership
  owner,     \* those that are owners
  erasedAt,  \* time of the account.deleted audit row of a tombstone, 0: no tombstone
  request,   \* the latest account_deletion_requests row of each account
  proof,     \* the request the emailed cancel proof is for, 0: none
  session,   \* auth_sessions row of each slot
  call,      \* the request each slot has in flight
  job,       \* the running grace job
  ledger,    \* deleted_at in the ledger database, 0: no entry
  service,   \* serving, or being restored, and the restore point
  backup,    \* the tables at the instant a restore will ask for
  now

tables == <<active, owner, erasedAt, request, proof, session>>
outside == <<ledger, service, backup, now>>
vars == <<tables, call, job, outside>>

Instants  == 1..Horizon
NoCall    == [phase |-> "idle", since |-> 0]
Answered  == [phase |-> "answered", since |-> 0]
NoJob     == [stamp |-> 0, due |-> <<>>, recording |-> {}]
NoRequest == [number |-> 0, open |-> FALSE, due |-> 0]
NoBackup  == [at |-> 0]

Init ==
  /\ active = Users /\ owner = Owners
  /\ erasedAt = [u \in Users |-> 0]
  /\ request = [u \in Users |-> NoRequest]
  /\ proof = [u \in Users |-> 0]
  /\ session = [s \in Sessions |-> "none"]
  /\ call = [s \in Sessions |-> NoCall]
  /\ job = NoJob
  /\ ledger = [u \in Users |-> 0]
  /\ service = [up |-> TRUE, point |-> 0]
  /\ backup = NoBackup
  /\ now = 1

Erased(u)  == erasedAt[u] # 0
Pending(u) == request[u].open

-----------------------------------------------------------------------------
(* Memberships, by the rules of Circles; a locked account cannot act.      *)

OtherOwner(u) == owner \ {u} # {}
Acting(u) == u \in owner /\ ~Pending(u)

(* revokeAccountSessions *)
SignedOut(u) ==
  [t \in Sessions |-> IF UserOf[t] = u /\ session[t] = "live" THEN "ended" ELSE session[t]]

Depart(u) ==
  /\ service.up
  /\ u \in active /\ (u \in owner => OtherOwner(u))
  /\ ~Pending(u) \/ \E v \in Users \ {u} : Acting(v)
  /\ active' = active \ {u} /\ owner' = owner \ {u}
  /\ session' = SignedOut(u)
  /\ UNCHANGED <<erasedAt, request, proof, call, job, outside>>

Return(u) ==
  /\ service.up
  /\ u \notin active /\ ~Erased(u) /\ \E v \in Users : Acting(v)
  /\ active' = active \cup {u}
  /\ UNCHANGED <<owner, erasedAt, request, proof, session, call, job, outside>>

Promote(u) ==
  /\ service.up
  /\ u \in active \ owner /\ \E v \in Users : Acting(v)
  /\ owner' = owner \cup {u}
  /\ UNCHANGED <<active, erasedAt, request, proof, session, call, job, outside>>

-----------------------------------------------------------------------------
(* Sessions.                                                                *)

(* Credentials and membership are checked in statements of their own ...   *)
Login(s) ==
  /\ service.up
  /\ session[s] \in {"none", "ended"} /\ call[s] = NoCall
  /\ UserOf[s] \in active /\ ~Erased(UserOf[s])
  /\ session' = [session EXCEPT ![s] = "eligible"]
  /\ UNCHANGED <<active, owner, erasedAt, request, proof, call, job, outside>>

Issued(s) == IF Erased(UserOf[s]) THEN "none" ELSE "live"

(* ... before the session row is written.                                  *)
IssueSession(s) ==
  /\ service.up
  /\ session[s] = "eligible"
  /\ session' = [session EXCEPT ![s] = Issued(s)]
  /\ UNCHANGED <<active, owner, erasedAt, request, proof, call, job, outside>>

SetCall(s, c) == call' = [call EXCEPT ![s] = c]

(* verifyRequestAuth; an account with an open request is locked out.       *)
Verify(s) ==
  /\ service.up
  /\ session[s] = "live" /\ call[s] = NoCall
  /\ UserOf[s] \in active /\ ~Pending(UserOf[s])
  /\ SetCall(s, [phase |-> "verified", since |-> now])
  /\ UNCHANGED <<tables, job, outside>>

(* A call is refused, fails, or is cut off; after the commit of a deletion *)
(* this is the failed write to the ledger.                                 *)
Drop(s) ==
  /\ call[s].phase \in {"verified", "recording"}
  /\ SetCall(s, NoCall)
  /\ UNCHANGED <<tables, job, outside>>

(* requireRecentAuth: the sign-in's own proof, on a session still live.    *)
RecentAuth(s) == session[s] = "live"

-----------------------------------------------------------------------------
(* Requesting and cancelling.                                               *)

(* The last active owner (and likewise the last administrator) has to stay.*)
Blocked(u) == u \in owner /\ ~OtherOwner(u)

(* Mutant of LockedOut: the sessions of the account live on.               *)
LockedOutNot(u) == session
LockedOut(u) == SignedOut(u)

(* writePendingDeletion.                                                    *)
Latest == Max({request[u].number : u \in Users})
Scheduled(u, stamp) ==
  /\ Latest < MaxRequests
  /\ request' = [request EXCEPT ![u] =
       [number |-> Latest + 1, open |-> TRUE, due |-> stamp + Grace]]
  /\ session' = LockedOut(u)

(* The clock is read when the transaction is prepared: at `stamp', not     *)
(* when it commits.                                                         *)
RequestDeletion(s, stamp) ==
  LET u == UserOf[s] IN
  /\ service.up
  /\ call[s].phase = "verified" /\ stamp \in call[s].since..now
  /\ ~Erased(u) /\ ~Pending(u) /\ RecentAuth(s) /\ ~Blocked(u)
  /\ Scheduled(u, stamp)
  /\ SetCall(s, NoCall)
  /\ UNCHANGED <<active, owner, erasedAt, proof, job, outside>>

(* The emailed request proof of an account without a membership.           *)
RequestByLink(u, stamp) ==
  /\ service.up
  /\ stamp \in Instants /\ stamp <= now /\ now <= stamp + 1
  /\ u \notin active /\ ~Erased(u) /\ ~Pending(u)
  /\ Scheduled(u, stamp)
  /\ UNCHANGED <<active, owner, erasedAt, proof, call, job, outside>>

Closed(u) == [request EXCEPT ![u] = [request[u] EXCEPT !.open = FALSE]]

(* writeDeletionCancellation: the row is closed, emailed proofs revoked.   *)
Cancelled(u) ==
  /\ request' = Closed(u)
  /\ proof' = [proof EXCEPT ![u] = 0]
  /\ UNCHANGED <<active, owner, erasedAt, session>>

(* readDeletionCancelSession, the way in that is left to a locked account, *)
(* and the transaction after it.  One step: the transaction asks for the   *)
(* live session again, and whatever ends a membership or opens another     *)
(* request in between also ends the session.                                *)
CancelDeletion(s) ==
  LET u == UserOf[s] IN
  /\ service.up
  /\ RecentAuth(s) /\ call[s] = NoCall /\ u \in active
  /\ ~Erased(u) /\ Pending(u)
  /\ Cancelled(u)
  /\ UNCHANGED <<call, job, outside>>

(* A confirmation or reminder is delivered: its cancel proof replaces the  *)
(* one before it.                                                           *)
DeliverLink(u) ==
  /\ service.up
  /\ ~Erased(u) /\ Pending(u) /\ request[u].due > now
  /\ proof' = [proof EXCEPT ![u] = request[u].number]
  /\ UNCHANGED <<active, owner, erasedAt, request, session, call, job, outside>>

CancelByLink(u) ==
  /\ service.up
  /\ ~Erased(u) /\ Pending(u) /\ request[u].due > now
  /\ proof[u] = request[u].number
  /\ Cancelled(u)
  /\ UNCHANGED <<call, job, outside>>

-----------------------------------------------------------------------------
(* Deletion.                                                                *)

(* Mutant of Demoted: the membership ends, its role stays.                 *)
DemotedNot(u) == owner
Demoted(u) == owner \ {u}

(* deletionStatements.  The scheduled execution alone closes the request.  *)
Erase(u, stamp, requests) ==
  /\ erasedAt' = [erasedAt EXCEPT ![u] = stamp]
  /\ active' = active \ {u} /\ owner' = Demoted(u)
  /\ request' = requests
  /\ proof' = [proof EXCEPT ![u] = 0]
  /\ session' = SignedOut(u)

(* deleteAccount, while the grace flag is off.  An account that is already *)
(* a tombstone goes straight to the backfill of its ledger entry.          *)
DeleteNow(s, stamp) ==
  LET u == UserOf[s] IN
  /\ service.up
  /\ call[s].phase = "verified" /\ stamp \in call[s].since..now
  /\ \/ Erased(u) /\ UNCHANGED tables
     \/ /\ ~Erased(u) /\ RecentAuth(s) /\ ~Blocked(u)
        /\ Erase(u, stamp, request)
  /\ SetCall(s, [phase |-> "recording", since |-> 0])
  /\ UNCHANGED <<job, outside>>

(* ON CONFLICT: the first writer of a deletion time wins.                  *)
Entered(u) == [ledger EXCEPT ![u] = IF ledger[u] = 0 THEN erasedAt[u] ELSE ledger[u]]

RecordDeletion(s) ==
  /\ service.up
  /\ call[s].phase = "recording"
  /\ ledger' = Entered(UserOf[s])
  /\ SetCall(s, Answered)
  /\ UNCHANGED <<tables, job, service, backup, now>>

(* The client repeats a request whose answer it lost: its session is not   *)
(* verified any more, but it is a tombstone's, so the endpoint answers     *)
(* already_deleted by itself.                                               *)
AnswerRetry(s) ==
  /\ service.up
  /\ session[s] = "ended" /\ call[s] = NoCall /\ Erased(UserOf[s])
  /\ SetCall(s, Answered)
  /\ UNCHANGED <<tables, job, outside>>

-----------------------------------------------------------------------------
(* runAccountDeletionGraceJobs: one clock reading for the whole run, one   *)
(* SELECT, then a transaction and a ledger write for each row it found.    *)

DueFirst(u, v) == request[u].due <= request[v].due

(* ORDER BY scheduled_for ... LIMIT                                        *)
DueList(list) ==
  LET due == {u \in Users : Pending(u) /\ request[u].due <= now} IN
  /\ Len(list) = IF Cardinality(due) < Limit THEN Cardinality(due) ELSE Limit
  /\ \A i \in 1..Len(list) : list[i] \in due
  /\ \A i, j \in 1..Len(list) : i < j => list[i] # list[j] /\ DueFirst(list[i], list[j])
  /\ \A i \in 1..Len(list) : \A v \in due :
       (\A j \in 1..Len(list) : list[j] # v) => DueFirst(list[i], v)

StartJob(list) ==
  /\ service.up /\ job = NoJob
  /\ list # <<>> /\ DueList(list)
  /\ job' = [stamp |-> now, due |-> list, recording |-> {}]
  /\ UNCHANGED <<tables, call, outside>>

JobAfter(recording) ==
  IF Len(job.due) = 1 /\ recording = {} THEN NoJob
  ELSE [stamp |-> job.stamp, due |-> Tail(job.due), recording |-> recording]

(* Mutant of StillDue: the row the job selected is taken at its word.      *)
StillDueUnread(u) == TRUE
StillDue(u) == Pending(u) /\ request[u].due <= job.stamp

(* Mutant of Barred: the gates are not asked again.                        *)
BarredNot(u) == FALSE
Barred(u) == u \in active /\ Blocked(u)

(* executeScheduledAccountDeletion                                         *)
Execute ==
  /\ service.up /\ job.recording = {} /\ job.due # <<>>
  /\ LET u == Head(job.due) IN
     IF Erased(u)
       THEN UNCHANGED tables /\ job' = JobAfter({u})
     ELSE IF ~StillDue(u) \/ Barred(u)
       THEN UNCHANGED tables /\ job' = JobAfter({})
     ELSE Erase(u, job.stamp, Closed(u)) /\ job' = JobAfter({u})
  /\ UNCHANGED <<call, outside>>

RecordExecution(u) ==
  /\ service.up /\ u \in job.recording
  /\ ledger' = Entered(u)
  /\ job' = IF job.due = <<>> THEN NoJob ELSE [job EXCEPT !.recording = {}]
  /\ UNCHANGED <<tables, call, service, backup, now>>

(* The ledger write fails, and the run goes on to the next row.            *)
MissLedger ==
  /\ job.recording # {}
  /\ job' = IF job.due = <<>> THEN NoJob ELSE [job EXCEPT !.recording = {}]
  /\ UNCHANGED <<tables, call, outside>>

(* The cron invocation is over its budget or killed.                       *)
StopJob == job # NoJob /\ job' = NoJob /\ UNCHANGED <<tables, call, outside>>

(* The operator runs executeScheduledAccountDeletion for one account whose *)
(* entry is missing.                                                        *)
Backfill(u) ==
  /\ service.up /\ Erased(u)
  /\ ledger' = Entered(u)
  /\ UNCHANGED <<tables, call, job, service, backup, now>>

-----------------------------------------------------------------------------
(* Time, and a restore of the application database to an earlier instant;  *)
(* the ledger database is not restored.                                    *)

Saved == [at |-> now, active |-> active, owner |-> owner, erasedAt |-> erasedAt,
          request |-> request, proof |-> proof, session |-> session]

(* The tables as they are at the end of an instant are what a restore to   *)
(* it brings back; a run asks for one of them.                              *)
Tick(saves) ==
  /\ now < Horizon
  /\ now' = now + 1
  /\ saves => service.up /\ backup = NoBackup
  /\ backup' = IF saves THEN Saved ELSE backup
  /\ UNCHANGED <<tables, call, job, ledger, service>>

(* The source is lost with everything in flight; the operator asks for the *)
(* tables of backup.at.                                                     *)
Restore ==
  /\ service.up /\ service.point = 0 /\ backup # NoBackup
  /\ active' = backup.active /\ owner' = backup.owner /\ erasedAt' = backup.erasedAt
  /\ request' = backup.request /\ proof' = backup.proof /\ session' = backup.session
  /\ call' = [s \in Sessions |-> NoCall] /\ job' = NoJob
  /\ service' = [up |-> FALSE, point |-> backup.at]
  /\ UNCHANGED <<ledger, backup, now>>

(* deletionLedgerEntriesAfter                                              *)
DueEntry(u) == ledger[u] > service.point

(* reapplyAccountDeletion                                                  *)
Reapply(u) ==
  /\ ~service.up /\ DueEntry(u) /\ ~Erased(u)
  /\ Erase(u, ledger[u], request)
  /\ UNCHANGED <<call, job, outside>>

(* Mutant of Verified: the operator cuts over without verifying.           *)
VerifiedNot == TRUE
(* verifyDeletionLedger                                                    *)
Verified == \A u \in Users : DueEntry(u) => Erased(u)

CutOver ==
  /\ ~service.up /\ Verified
  /\ service' = [service EXCEPT !.up = TRUE]
  /\ UNCHANGED <<tables, call, job, ledger, backup, now>>

-----------------------------------------------------------------------------
Membership == \E u \in Users : Depart(u) \/ Return(u) \/ Promote(u)

Serve(s) ==
  \/ Login(s) \/ IssueSession(s) \/ Verify(s) \/ Drop(s)
  \/ \E stamp \in Instants : RequestDeletion(s, stamp) \/ DeleteNow(s, stamp)
  \/ CancelDeletion(s) \/ RecordDeletion(s) \/ AnswerRetry(s)

ByLink ==
  \E u \in Users :
    \/ \E stamp \in Instants : RequestByLink(u, stamp)
    \/ DeliverLink(u) \/ CancelByLink(u)

Lists == UNION {[1..n -> Users] : n \in 1..Limit}
RunJob ==
  \/ \E list \in Lists : StartJob(list)
  \/ Execute \/ MissLedger \/ StopJob
  \/ \E u \in Users : RecordExecution(u) \/ Backfill(u)

Recover ==
  \/ \E saves \in BOOLEAN : Tick(saves)
  \/ Restore \/ CutOver
  \/ \E u \in Users : Reapply(u)

Next == Membership \/ (\E s \in Sessions : Serve(s)) \/ ByLink \/ RunJob \/ Recover

Spec == Init /\ [][Next]_vars

-----------------------------------------------------------------------------
(* Types of the tables and of what calls, job and operator keep.           *)
Stages == {"none", "eligible", "live", "ended"}
RequestType == [number : 0..MaxRequests, open : BOOLEAN, due : 0..(Horizon + Grace)]
CallType == [phase : {"idle", "verified", "recording", "answered"}, since : 0..Horizon]

TypeOK ==
  /\ active \subseteq Users /\ owner \subseteq active
  /\ erasedAt \in [Users -> 0..Horizon]
  /\ request \in [Users -> RequestType] /\ proof \in [Users -> 0..MaxRequests]
  /\ session \in [Sessions -> Stages] /\ call \in [Sessions -> CallType]
  /\ job.stamp \in 0..Horizon /\ job.recording \subseteq Users /\ job.due \in Seq(Users)
  /\ ledger \in [Users -> 0..Horizon]
  /\ service.up \in BOOLEAN /\ service.point \in 0..Horizon
  /\ backup.at \in 0..Horizon /\ now \in Instants

(* _account-deletion-grace.js:16: an account with an open request is       *)
(* locked.  A call that passed verification and whose session still lives  *)
(* is never one of a locked account, so nothing it commits is.             *)
PendingIsLocked ==
  \A s \in Sessions :
    call[s].phase = "verified" /\ session[s] = "live" => ~Pending(UserOf[s])

(* An account is deleted because its request is due, or by its owner's own *)
(* call while no request is open: never by a schedule that was cancelled,  *)
(* or replaced by a later one, after the job had found it due.             *)
ScheduleIsHonoured ==
  [][service.up => \A u \in Users : ~Erased(u) /\ Erased(u)' =>
       \/ Pending(u) /\ request[u].due <= now
       \/ /\ ~Pending(u)
          /\ \E s \in Sessions : /\ UserOf[s] = u /\ session[s] = "live"
                                 /\ call[s].phase = "verified"]_vars

(* A deletion takes the account's open request with it, whichever path it  *)
(* took; a request left open would sit in every later batch of the job.    *)
RequestEndsWithAccount ==
  service.point = 0 => \A u \in Users : Erased(u) => ~Pending(u)

(* No sign-in that was under way leaves a tombstone signed in.             *)
TombstonesAreSignedOut ==
  \A s \in Sessions : session[s] = "live" => ~Erased(UserOf[s])

(* Locked accounts commit nothing, deleted ones are signed out and leave no  *)
(* request behind.                                                         *)
AbsentAreOut == PendingIsLocked /\ RequestEndsWithAccount /\ TombstonesAreSignedOut

(* The circle keeps an owner although owners schedule their deletion, are  *)
(* counted as owners until it is executed, and leave in between.           *)
CircleKeepsAnOwner == service.point = 0 => owner # {}

(* The ledger names only deletions that happened, and a restored database  *)
(* that serves again has had all of those after the restore point.         *)
LedgerIsApplied ==
  service.up => \A u \in Users : ledger[u] > service.point => Erased(u)

(* docs/ACCOUNT_DELETION.md:414-419: the user sees the failed ledger write *)
(* and retries, and the retry backfills the entry; so whoever is told the  *)
(* deletion is done is in the ledger.                                       *)
AnsweredIsRecorded ==
  \A s \in Sessions : call[s].phase = "answered" => ledger[UserOf[s]] # 0

(* docs/TURSO_BACKUP_RESTORE_REHEARSAL.md:245-247: re-application by the   *)
(* requested instant can never skip a deletion.                            *)
RestoreSkipsNoDeletion ==
  service.up => \A u \in Users : ledger[u] # 0 => Erased(u)
=============================================================================
