--------------------------- MODULE ServiceProofs ---------------------------
(* Theorems about account deletion, AI feedback, key rotation and schema     *)
(* migrations, parts that share nothing with one another: for every set of   *)
(* accounts and browsers, every grace period, job limit and horizon; every   *)
(* limit and calendar; every key ring; every version and number of runs.     *)
EXTENDS AccountDeletion, TLAPS, WellFoundedInduction, SequenceTheorems, FiniteSetTheorems

-----------------------------------------------------------------------------
(* The invariant.                                                           *)

RequestsOK == request \in [Users -> RequestType]
MembersOK  == active \subseteq Users /\ owner \subseteq active
TablesOK ==
  /\ MembersOK /\ RequestsOK
  /\ erasedAt \in [Users -> 0..Horizon] /\ proof \in [Users -> 0..MaxRequests]
  /\ session \in [Sessions -> Stages]

JobType == [stamp : 0..Horizon, due : Seq(Users), recording : SUBSET Users]
MemoryOK == call \in [Sessions -> CallType] /\ job \in JobType

(* What a restore may bring back is typed like the tables, and says of no   *)
(* tombstone that it was signed in.                                         *)
SavedType ==
  [at : Instants, active : SUBSET Users, owner : SUBSET Users, erasedAt : [Users -> 0..Horizon],
   request : [Users -> RequestType], proof : [Users -> 0..MaxRequests],
      session : [Sessions -> Stages]]
SavedOK ==
  backup # NoBackup =>
    /\ backup \in SavedType /\ backup.owner \subseteq backup.active
    /\ \A s \in Sessions : backup.session[s] = "live" => backup.erasedAt[UserOf[s]] = 0

OutsideOK ==
  /\ ledger \in [Users -> 0..Horizon] /\ now \in Instants
  /\ service \in [up : BOOLEAN, point : 0..Horizon]
  /\ ~service.up => service.point # 0

Shape == TablesOK /\ MemoryOK /\ OutsideOK

(* A sign-in that is between its two statements has no other call under way. *)
SignInsAreIdle == \A s \in Sessions : session[s] = "eligible" => call[s].phase # "verified"

(* Whoever was a tombstone at the restore point still is one.                *)
TombstonesStay ==
  service.point = 0 /\ backup # NoBackup =>
    \A u \in Users : backup.erasedAt[u] # 0 => Erased(u)

JobIsNotAhead == job.stamp <= now

Inv ==
  /\ Shape /\ SavedOK
  /\ SignInsAreIdle /\ PendingIsLocked /\ TombstonesAreSignedOut /\ RequestEndsWithAccount
  /\ CircleKeepsAnOwner /\ TombstonesStay /\ JobIsNotAhead /\ LedgerIsApplied

-----------------------------------------------------------------------------
(* Helpers.                                                                 *)

LEMMA SetOfNaturalsHasLeast ==
  ASSUME NEW T \in SUBSET Nat, T # {}
  PROVE  \E x \in T : \A y \in T : x <= y
<1> DEFINE R == {p \in Nat \X Nat : p[1] < p[2]}
<1>1. IsWellFoundedOn(R, Nat)
  BY NatLessThanWellFounded DEF OpToRel
<1>2. PICK x \in T : \A y \in T : <<y, x>> \notin R
  BY <1>1, WFMin
<1>3. \A y \in T : ~ (y < x)
  BY <1>2
<1> QED BY <1>2, <1>3

(* The highest request number exists: the numbers are bounded.              *)
LEMMA LatestIsANumber ==
  ASSUME RequestsOK
  PROVE  Latest \in Nat
<1> DEFINE S == {request[u].number : u \in Users}
           T == {MaxRequests - x : x \in S}
<1>1. S # {} /\ \A x \in S : x \in Nat /\ x <= MaxRequests
  BY DeletionAssumption DEF RequestsOK, RequestType
<1>2. T \in SUBSET Nat /\ T # {}
  <2> HIDE DEF S
  <2>1. \A x \in S : MaxRequests - x \in Nat
    BY <1>1, DeletionAssumption
  <2> QED BY <1>1, <2>1
<1>3. PICK least \in T : \A y \in T : least <= y
  BY <1>2, SetOfNaturalsHasLeast
<1>4. PICK x \in S : least = MaxRequests - x
  BY <1>3
<1>5. \A y \in S : x >= y
  <2> SUFFICES ASSUME NEW y \in S
               PROVE  x >= y
    OBVIOUS
  <2>1. MaxRequests - y \in T
    OBVIOUS
  <2>2. least <= MaxRequests - y
    BY <1>3, <2>1
  <2> HIDE DEF S, T
  <2> QED BY <1>1, <1>4, <2>2, DeletionAssumption
<1>6. Max(S) \in S
  BY <1>4, <1>5 DEF Max
<1> QED BY <1>1, <1>6 DEF Latest

LEMMA RequestFields ==
  ASSUME RequestsOK, NEW u \in Users
  PROVE  /\ request[u].number \in 0..MaxRequests /\ request[u].open \in BOOLEAN
         /\ request[u].due \in 0..(Horizon + Grace)
BY DEF RequestsOK, RequestType

(* A new request is typed, and closes or opens no other one.                *)
LEMMA NewRequest ==
  ASSUME RequestsOK, NEW u \in Users, NEW stamp \in Instants, Latest < MaxRequests,
         request' = [request EXCEPT ![u] =
                       [number |-> Latest + 1, open |-> TRUE, due |-> stamp + Grace]]
  PROVE  /\ RequestsOK'
         /\ \A v \in Users \ {u} : request'[v] = request[v]
<1>1. /\ Latest + 1 \in 0..MaxRequests /\ stamp + Grace \in 0..(Horizon + Grace)
  BY LatestIsANumber, DeletionAssumption DEF Instants
<1> HIDE DEF Latest
<1> QED BY <1>1 DEF RequestsOK, RequestType

LEMMA ClosedRequest ==
  ASSUME RequestsOK, NEW u \in Users
  PROVE  /\ Closed(u) \in [Users -> RequestType] /\ ~Closed(u)[u].open
         /\ \A v \in Users \ {u} : Closed(u)[v] = request[v]
BY RequestFields DEF Closed, RequestsOK, RequestType

(* revokeAccountSessions ends the sessions of one account and no other.     *)
LEMMA SessionsEnd ==
  ASSUME TablesOK, NEW u \in Users, session' = SignedOut(u)
  PROVE  /\ session' \in [Sessions -> Stages]
         /\ \A s \in Sessions : session'[s] = "live" => session[s] = "live" /\ UserOf[s] # u
         /\ \A s \in Sessions : session'[s] = "eligible" => session[s] = "eligible"
BY DEF TablesOK, SignedOut, Stages

(* What a deletion leaves of the tables.                                    *)
LEMMA ErasureFacts ==
  ASSUME TablesOK, NEW u \in Users, NEW stamp \in 0..Horizon,
         NEW requests \in [Users -> RequestType], Erase(u, stamp, requests)
  PROVE  /\ TablesOK' /\ request' = requests /\ owner' = owner \ {u} /\ active' = active \ {u}
         /\ erasedAt'[u] = stamp /\ \A v \in Users \ {u} : erasedAt'[v] = erasedAt[v]
         /\ \A s \in Sessions : session'[s] = "live" => session[s] = "live" /\ UserOf[s] # u
         /\ \A s \in Sessions : session'[s] = "eligible" => session[s] = "eligible"
<1>1. /\ session' \in [Sessions -> Stages]
      /\ \A s \in Sessions : session'[s] = "live" => session[s] = "live" /\ UserOf[s] # u
      /\ \A s \in Sessions : session'[s] = "eligible" => session[s] = "eligible"
  BY SessionsEnd DEF Erase
<1>2. erasedAt' = [erasedAt EXCEPT ![u] = stamp] /\ proof' = [proof EXCEPT ![u] = 0]
      /\ active' = active \ {u} /\ owner' = owner \ {u} /\ request' = requests
  BY DEF Erase, Demoted
<1>3. 0 \in 0..MaxRequests
  BY DeletionAssumption
<1> QED BY <1>1, <1>2, <1>3 DEF TablesOK, MembersOK, RequestsOK

-----------------------------------------------------------------------------
(* The steps, one by one.                                                   *)

SessionStep(s) == Login(s) \/ IssueSession(s) \/ Verify(s) \/ Drop(s) \/ AnswerRetry(s)
MemberStep(u)  == Depart(u) \/ Return(u) \/ Promote(u)
LinkStep(u)    == DeliverLink(u) \/ CancelByLink(u)
JobStep == (\E list \in Lists : StartJob(list)) \/ MissLedger \/ StopJob

LEMMA StepCases ==
  ASSUME [Next]_vars
  PROVE  \/ \E u \in Users : MemberStep(u) \/ LinkStep(u) \/ Reapply(u)
         \/ \E u \in Users : RecordExecution(u) \/ Backfill(u)
         \/ \E s \in Sessions : SessionStep(s) \/ CancelDeletion(s) \/ RecordDeletion(s)
         \/ \E s \in Sessions, stamp \in Instants :
              RequestDeletion(s, stamp) \/ DeleteNow(s, stamp)
         \/ \E u \in Users, stamp \in Instants : RequestByLink(u, stamp)
         \/ \E saves \in BOOLEAN : Tick(saves)
         \/ JobStep \/ Execute \/ Restore \/ CutOver \/ UNCHANGED vars
BY DEF Next, Membership, Serve, ByLink, RunJob, Recover, MemberStep, SessionStep, LinkStep,
   JobStep

LEMMA UserOfTyped == \A s \in Sessions : UserOf[s] \in Users
BY DeletionAssumption

(* The values calls and the job take.                                       *)
LEMMA CallTypes ==
  /\ NoCall \in CallType /\ Answered \in CallType
  /\ [phase |-> "recording", since |-> 0] \in CallType
  /\ \A n \in Instants : [phase |-> "verified", since |-> n] \in CallType
BY DeletionAssumption DEF NoCall, Answered, CallType, Instants

LEMMA JobTypes ==
  /\ NoJob \in JobType
  /\ job \in JobType => [job EXCEPT !.recording = {}] \in JobType
BY DeletionAssumption DEF NoJob, JobType

LEMMA ListsAreSequences == \A list \in Lists : list \in Seq(Users)
BY SeqDef, DeletionAssumption DEF Lists

LEMMA JobAfterTyped ==
  ASSUME job \in JobType, job.due # <<>>, NEW recording \in SUBSET Users
  PROVE  JobAfter(recording) \in JobType
BY JobTypes, HeadTailProperties DEF JobAfter, JobType

(* Every step keeps the types.                                              *)
LEMMA ShapeStep ==
  ASSUME Shape, SavedOK, [Next]_vars
  PROVE  Shape'
<1>1. ASSUME NEW u \in Users, MemberStep(u)
      PROVE  Shape'
  <2> USE <1>1
  <2>1. session' \in [Sessions -> Stages]
    BY SessionsEnd DEF Shape, TablesOK, MemberStep, Depart, Return, Promote, SignedOut, Stages
  <2> QED BY <2>1 DEF Shape, TablesOK, MembersOK, RequestsOK, MemoryOK, OutsideOK,
     MemberStep, Depart, Return, Promote, outside
<1>2. ASSUME NEW u \in Users, LinkStep(u)
      PROVE  Shape'
  <2> USE <1>2
  <2>1. request' \in [Users -> RequestType]
    BY ClosedRequest DEF Shape, TablesOK, RequestsOK, LinkStep, DeliverLink, CancelByLink,
       Cancelled
  <2>2. proof' \in [Users -> 0..MaxRequests]
    BY RequestFields, DeletionAssumption DEF Shape, TablesOK, LinkStep, DeliverLink,
       CancelByLink, Cancelled
  <2> QED BY <2>1, <2>2 DEF Shape, TablesOK, MembersOK, RequestsOK, MemoryOK, OutsideOK,
     LinkStep, DeliverLink, CancelByLink, Cancelled, outside
<1>3. ASSUME NEW u \in Users, Reapply(u)
      PROVE  Shape'
  <2>1. ledger[u] \in 0..Horizon /\ request \in [Users -> RequestType]
    BY DEF Shape, TablesOK, RequestsOK, OutsideOK
  <2>2. TablesOK'
    BY <1>3, <2>1, ErasureFacts DEF Reapply, Shape
  <2> QED BY <1>3, <2>2 DEF Shape, MemoryOK, OutsideOK, Reapply, outside
<1>4. ASSUME NEW u \in Users, RecordExecution(u) \/ Backfill(u)
      PROVE  Shape'
  <2> USE <1>4
  <2>1. ledger' \in [Users -> 0..Horizon]
    BY DEF Shape, TablesOK, OutsideOK, RecordExecution, Backfill, Entered
  <2>2. job' \in JobType
    BY JobTypes DEF Shape, MemoryOK, RecordExecution, Backfill
  <2> QED BY <2>1, <2>2 DEF Shape, TablesOK, MembersOK, RequestsOK, MemoryOK, OutsideOK,
     RecordExecution, Backfill, tables
<1>5. ASSUME NEW s \in Sessions, SessionStep(s)
      PROVE  Shape'
  <2> USE <1>5
  <2>1. session' \in [Sessions -> Stages]
    BY DEF Shape, TablesOK, SessionStep, Login, IssueSession, Verify, Drop, AnswerRetry,
       Issued, Stages, tables
  <2>2. call' \in [Sessions -> CallType]
    BY CallTypes DEF Shape, MemoryOK, OutsideOK, SessionStep, Login, IssueSession, Verify,
       Drop, AnswerRetry, SetCall
  <2> QED BY <2>1, <2>2 DEF Shape, TablesOK, MembersOK, RequestsOK, MemoryOK, OutsideOK,
     SessionStep, Login, IssueSession, Verify, Drop, AnswerRetry, tables, outside
<1>6. ASSUME NEW s \in Sessions, CancelDeletion(s)
      PROVE  Shape'
  <2> USE <1>6, UserOfTyped
  <2>1. request' \in [Users -> RequestType] /\ proof' \in [Users -> 0..MaxRequests]
    BY ClosedRequest, DeletionAssumption DEF Shape, TablesOK, RequestsOK, CancelDeletion,
       Cancelled
  <2> QED BY <2>1 DEF Shape, TablesOK, MembersOK, RequestsOK, MemoryOK, OutsideOK,
     CancelDeletion, Cancelled, outside
<1>7. ASSUME NEW s \in Sessions, RecordDeletion(s)
      PROVE  Shape'
  <2> USE <1>7, UserOfTyped
  <2>1. ledger' \in [Users -> 0..Horizon]
    BY DEF Shape, TablesOK, OutsideOK, RecordDeletion, Entered
  <2>2. call' \in [Sessions -> CallType]
    BY CallTypes DEF Shape, MemoryOK, RecordDeletion, SetCall
  <2> QED BY <2>1, <2>2 DEF Shape, TablesOK, MembersOK, RequestsOK, MemoryOK, OutsideOK,
     RecordDeletion, tables
<1>8. ASSUME NEW s \in Sessions, NEW stamp \in Instants, RequestDeletion(s, stamp)
      PROVE  Shape'
  <2> USE <1>8, UserOfTyped
  <2>1. RequestsOK'
    BY NewRequest DEF Shape, TablesOK, RequestDeletion, Scheduled
  <2>2. session' \in [Sessions -> Stages]
    BY SessionsEnd DEF Shape, RequestDeletion, Scheduled, LockedOut
  <2>3. call' \in [Sessions -> CallType]
    BY CallTypes DEF Shape, MemoryOK, RequestDeletion, SetCall
  <2> QED BY <2>1, <2>2, <2>3 DEF Shape, TablesOK, MembersOK, MemoryOK, OutsideOK,
     RequestDeletion, outside
<1>9. ASSUME NEW s \in Sessions, NEW stamp \in Instants, DeleteNow(s, stamp)
      PROVE  Shape'
  <2> USE <1>9, UserOfTyped
  <2>1. stamp \in 0..Horizon /\ request \in [Users -> RequestType]
    BY DEF Instants, Shape, TablesOK, RequestsOK
  <2>2. TablesOK'
    <3>1. CASE UNCHANGED tables
      BY <3>1 DEF Shape, TablesOK, MembersOK, RequestsOK, tables
    <3>2. CASE Erase(UserOf[s], stamp, request)
      BY <2>1, <3>2, ErasureFacts DEF Shape
    <3> QED BY <3>1, <3>2 DEF DeleteNow
  <2>3. call' \in [Sessions -> CallType]
    BY CallTypes DEF Shape, MemoryOK, DeleteNow, SetCall
  <2> QED BY <2>2, <2>3 DEF Shape, MemoryOK, OutsideOK, DeleteNow, outside
<1>10. ASSUME NEW u \in Users, NEW stamp \in Instants, RequestByLink(u, stamp)
      PROVE  Shape'
  <2> USE <1>10
  <2>1. RequestsOK'
    BY NewRequest DEF Shape, TablesOK, RequestByLink, Scheduled
  <2>2. session' \in [Sessions -> Stages]
    BY SessionsEnd DEF Shape, RequestByLink, Scheduled, LockedOut
  <2> QED BY <2>1, <2>2 DEF Shape, TablesOK, MembersOK, MemoryOK, OutsideOK, RequestByLink,
     outside
<1>11. ASSUME NEW saves \in BOOLEAN, Tick(saves)
      PROVE  Shape'
  BY <1>11, DeletionAssumption DEF Shape, TablesOK, MembersOK, RequestsOK, MemoryOK,
     OutsideOK, Tick, tables, Instants
<1>12. ASSUME JobStep
      PROVE  Shape'
  <2> USE <1>12
  <2>1. job' \in JobType
    <3>1. ASSUME NEW list \in Lists, StartJob(list)
          PROVE  job' \in JobType
      BY <3>1, ListsAreSequences DEF Shape, OutsideOK, Instants, StartJob, JobType
    <3>2. CASE MissLedger
      BY <3>2, JobTypes DEF Shape, MemoryOK, MissLedger
    <3>3. CASE StopJob
      BY <3>3, JobTypes DEF StopJob
    <3> QED BY <3>1, <3>2, <3>3 DEF JobStep
  <2> QED BY <2>1 DEF Shape, TablesOK, MembersOK, RequestsOK, MemoryOK, OutsideOK, JobStep,
     StartJob, MissLedger, StopJob, tables, outside
<1>13. ASSUME Execute
      PROVE  Shape'
  <2> DEFINE u == Head(job.due)
  <2>1. u \in Users /\ JobAfter({u}) \in JobType /\ JobAfter({}) \in JobType
    BY <1>13, JobAfterTyped, HeadTailProperties DEF Shape, MemoryOK, JobType, Execute
  <2>2. job.stamp \in 0..Horizon /\ Closed(u) \in [Users -> RequestType]
    BY <2>1, ClosedRequest DEF Shape, TablesOK, MemoryOK, JobType
  <2>3. CASE UNCHANGED tables /\ job' \in {JobAfter({u}), JobAfter({})}
    BY <1>13, <2>1, <2>3 DEF Shape, TablesOK, MembersOK, RequestsOK, MemoryOK, OutsideOK,
       Execute, tables, outside
  <2>4. CASE Erase(u, job.stamp, Closed(u)) /\ job' = JobAfter({u})
    <3>1. TablesOK'
      BY <2>1, <2>2, <2>4, ErasureFacts DEF Shape
    <3> QED BY <1>13, <2>1, <2>4, <3>1 DEF Shape, MemoryOK, OutsideOK, Execute, outside
  <2> QED BY <1>13, <2>3, <2>4 DEF Execute
<1>14. ASSUME Restore
      PROVE  Shape'
  <2> USE <1>14
  <2>1. backup \in SavedType /\ backup.owner \subseteq backup.active
    BY DEF SavedOK, Restore
  <2>2. TablesOK'
    BY <2>1 DEF SavedType, TablesOK, MembersOK, RequestsOK, Restore
  <2>3. MemoryOK'
    BY CallTypes, JobTypes DEF MemoryOK, Restore
  <2>4. OutsideOK'
    BY <2>1 DEF Shape, OutsideOK, SavedType, Instants, Restore
  <2> QED BY <2>2, <2>3, <2>4 DEF Shape
<1>15. ASSUME CutOver
      PROVE  Shape'
  BY <1>15 DEF Shape, TablesOK, MembersOK, RequestsOK, MemoryOK, OutsideOK, CutOver, tables
<1>16. ASSUME UNCHANGED vars
      PROVE  Shape'
  BY <1>16 DEF Shape, TablesOK, MembersOK, RequestsOK, MemoryOK, OutsideOK, vars, tables, outside
<1> QED BY StepCases, <1>1, <1>2, <1>3, <1>4, <1>5, <1>6, <1>7, <1>8, <1>9, <1>10, <1>11,
   <1>12, <1>13, <1>14, <1>15, <1>16

(* What is saved for a restore is what the tables are.                       *)
LEMMA SavedStep ==
  ASSUME Shape, SavedOK, TombstonesAreSignedOut, [Next]_vars
  PROVE  SavedOK'
<1>1. ASSUME NEW u \in Users, MemberStep(u)
      PROVE  SavedOK'
  BY <1>1 DEF MemberStep, Depart, Return, Promote, SavedOK, NoBackup, tables, outside
<1>2. ASSUME NEW u \in Users, LinkStep(u)
      PROVE  SavedOK'
  BY <1>2 DEF LinkStep, DeliverLink, CancelByLink, Cancelled, SavedOK, NoBackup, tables, outside
<1>3. ASSUME NEW u \in Users, Reapply(u)
      PROVE  SavedOK'
  BY <1>3 DEF Reapply, SavedOK, NoBackup, tables, outside
<1>4. ASSUME NEW u \in Users, RecordExecution(u) \/ Backfill(u)
      PROVE  SavedOK'
  BY <1>4 DEF RecordExecution, Backfill, SavedOK, NoBackup, tables, outside
<1>5. ASSUME NEW s \in Sessions, SessionStep(s)
      PROVE  SavedOK'
  BY <1>5 DEF SessionStep, Login, IssueSession, Verify, Drop, AnswerRetry, SavedOK,
     NoBackup, tables, outside
<1>6. ASSUME NEW s \in Sessions, CancelDeletion(s)
      PROVE  SavedOK'
  BY <1>6 DEF CancelDeletion, Cancelled, SavedOK, NoBackup, tables, outside
<1>7. ASSUME NEW s \in Sessions, RecordDeletion(s)
      PROVE  SavedOK'
  BY <1>7 DEF RecordDeletion, SavedOK, NoBackup, tables, outside
<1>8. ASSUME NEW s \in Sessions, NEW stamp \in Instants, RequestDeletion(s, stamp)
      PROVE  SavedOK'
  BY <1>8 DEF RequestDeletion, SavedOK, NoBackup, tables, outside
<1>9. ASSUME NEW s \in Sessions, NEW stamp \in Instants, DeleteNow(s, stamp)
      PROVE  SavedOK'
  BY <1>9 DEF DeleteNow, SavedOK, NoBackup, tables, outside
<1>10. ASSUME NEW u \in Users, NEW stamp \in Instants, RequestByLink(u, stamp)
      PROVE  SavedOK'
  BY <1>10 DEF RequestByLink, SavedOK, NoBackup, tables, outside
<1>11. ASSUME NEW saves \in BOOLEAN, Tick(saves)
      PROVE  SavedOK'
  <2>1. CASE saves
    <3>1. backup' = Saved
      BY <1>11, <2>1 DEF Tick
    <3>2. Saved \in SavedType /\ Saved.owner \subseteq Saved.active
      BY DEF Shape, TablesOK, MembersOK, RequestsOK, OutsideOK, Saved, SavedType
    <3>3. \A t \in Sessions : Saved.session[t] = "live" => Saved.erasedAt[UserOf[t]] = 0
      BY UserOfTyped DEF Saved, TombstonesAreSignedOut, Erased
    <3> QED BY <3>1, <3>2, <3>3 DEF SavedOK
  <2>2. CASE ~saves
    BY <1>11, <2>2 DEF Tick, SavedOK
  <2> QED BY <2>1, <2>2
<1>12. ASSUME JobStep
      PROVE  SavedOK'
  BY <1>12 DEF JobStep, StartJob, MissLedger, StopJob, SavedOK, NoBackup, tables, outside
<1>13. ASSUME Execute
      PROVE  SavedOK'
  BY <1>13 DEF Execute, SavedOK, NoBackup, tables, outside
<1>14. ASSUME Restore
      PROVE  SavedOK'
  BY <1>14 DEF Restore, SavedOK, NoBackup, tables, outside
<1>15. ASSUME CutOver
      PROVE  SavedOK'
  BY <1>15 DEF CutOver, SavedOK, NoBackup, tables, outside
<1>16. ASSUME UNCHANGED vars
      PROVE  SavedOK'
  BY <1>16 DEF vars, SavedOK, NoBackup, tables, outside
<1> QED BY StepCases, <1>1, <1>2, <1>3, <1>4, <1>5, <1>6, <1>7, <1>8, <1>9, <1>10, <1>11,
   <1>12, <1>13, <1>14, <1>15, <1>16

-----------------------------------------------------------------------------
(* What a step may do to accounts, requests and sessions.                    *)

(* The deletions: by a call, by the job, by re-application after a restore.  *)
ByCall(u, s) ==
  /\ service.up /\ UserOf[s] = u /\ call[s].phase = "verified" /\ session[s] = "live"
  /\ ~Erased(u) /\ ~Blocked(u)
  /\ \E stamp \in Instants : Erase(u, stamp, request)
ByJob(u) ==
  /\ service.up /\ ~Erased(u) /\ StillDue(u) /\ ~Barred(u)
  /\ Erase(u, job.stamp, Closed(u))
Deletion(u) ==
  /\ (\E s \in Sessions : ByCall(u, s)) \/ ByJob(u) \/ Reapply(u)
  /\ \A s \in Sessions : call'[s].phase = "verified" => call[s].phase = "verified"
  /\ UNCHANGED outside

(* No account is deleted, no request opened and nobody let in.               *)
NothingOpens ==
  /\ \A u \in Users : Pending(u)' => Pending(u)
  /\ \A s \in Sessions :
       /\ session'[s] = "live" => session[s] = "live"
       /\ session'[s] = "eligible" => session[s] = "eligible"
       /\ call'[s].phase = "verified" => call[s].phase = "verified"
Quiet == UNCHANGED erasedAt /\ NothingOpens

Scheduling(u) ==
  /\ UNCHANGED erasedAt /\ ~Erased(u)
  /\ \A v \in Users \ {u} : request'[v] = request[v]
  /\ \A s \in Sessions :
       /\ session'[s] = "live" => session[s] = "live" /\ UserOf[s] # u
       /\ session'[s] = "eligible" => session[s] = "eligible"
       /\ call'[s].phase = "verified" => call[s].phase = "verified"

LetIn(s) == Login(s) \/ IssueSession(s) \/ Verify(s)

LEMMA DeletionEffect ==
  ASSUME Shape, NEW u \in Users, Deletion(u)
  PROVE  /\ \A v \in Users \ {u} : erasedAt'[v] = erasedAt[v]
         /\ ~Erased(u) /\ owner' = owner \ {u}
         /\ \A v \in Users : Pending(v)' => Pending(v)
         /\ \A s \in Sessions :
              /\ session'[s] = "live" => session[s] = "live" /\ UserOf[s] # u
              /\ session'[s] = "eligible" => session[s] = "eligible"
<1>1. PICK stamp \in 0..Horizon, requests \in [Users -> RequestType] :
        Erase(u, stamp, requests) /\ (requests = request \/ requests = Closed(u)) /\ ~Erased(u)
  <2>1. request \in [Users -> RequestType] /\ Closed(u) \in [Users -> RequestType]
    BY ClosedRequest DEF Shape, TablesOK, RequestsOK
  <2>2. job.stamp \in 0..Horizon /\ ledger[u] \in 0..Horizon /\ Instants \subseteq 0..Horizon
    BY DEF Shape, MemoryOK, JobType, OutsideOK, Instants
  <2> QED BY <2>1, <2>2 DEF Deletion, ByCall, ByJob, Reapply
<1>2. \A v \in Users : Pending(v)' => Pending(v)
  BY <1>1, ErasureFacts, ClosedRequest DEF Shape, TablesOK, Pending
<1> QED BY <1>1, <1>2, ErasureFacts DEF Shape

LEMMA CallsStayUnverified ==
  ASSUME Shape, NEW s \in Sessions, NEW c \in CallType, SetCall(s, c), c.phase # "verified"
  PROVE  \A t \in Sessions : call'[t].phase = "verified" => call[t].phase = "verified"
BY DEF Shape, MemoryOK, SetCall

LEMMA DeleteNowKinds ==
  ASSUME Shape, NEW s \in Sessions, NEW stamp \in Instants, DeleteNow(s, stamp)
  PROVE  (UNCHANGED tables /\ Quiet) \/ Deletion(UserOf[s])
<1>1. \A t \in Sessions : call'[t].phase = "verified" => call[t].phase = "verified"
  BY CallsStayUnverified, CallTypes DEF DeleteNow
<1>2. CASE UNCHANGED tables
  BY <1>1, <1>2 DEF Quiet, NothingOpens, Pending, tables
<1>3. CASE /\ ~Erased(UserOf[s]) /\ RecentAuth(s) /\ ~Blocked(UserOf[s])
           /\ Erase(UserOf[s],stamp, request)
  BY <1>1, <1>3 DEF DeleteNow, Deletion, ByCall, RecentAuth
<1> QED BY <1>2, <1>3 DEF DeleteNow

LEMMA ExecuteKinds ==
  ASSUME Shape, Execute
  PROVE  /\ Head(job.due) \in Users
         /\ (UNCHANGED tables /\ Quiet) \/ Deletion(Head(job.due))
<1> DEFINE u == Head(job.due)
<1>1. u \in Users
  BY HeadTailProperties DEF Shape, MemoryOK, JobType, Execute
<1>2. CASE UNCHANGED tables
  BY <1>1, <1>2 DEF Execute, Quiet, NothingOpens, Pending, tables
<1>3. CASE ~Erased(u) /\ StillDue(u) /\ ~Barred(u) /\ Erase(u, job.stamp, Closed(u))
  BY <1>1, <1>3 DEF Execute, Deletion, ByJob
<1> QED BY <1>1, <1>2, <1>3 DEF Execute

LEMMA RequestKinds ==
  ASSUME Shape, NEW u \in Users, NEW stamp \in Instants, Scheduled(u, stamp), ~Erased(u),
     UNCHANGED erasedAt,
         \A t \in Sessions : call'[t].phase = "verified" => call[t].phase = "verified"
  PROVE  Scheduling(u)
<1>1. \A v \in Users \ {u} : request'[v] = request[v]
  BY NewRequest DEF Shape, TablesOK, Scheduled
<1>2. /\ \A s \in Sessions : session'[s] = "live" => session[s] = "live" /\ UserOf[s] # u
      /\ \A s \in Sessions : session'[s] = "eligible" => session[s] = "eligible"
  BY SessionsEnd DEF Shape, Scheduled, LockedOut
<1> QED BY <1>1, <1>2 DEF Scheduling

Kinds ==
  \/ Quiet \/ Restore
  \/ \E u \in Users : Deletion(u) \/ Scheduling(u)
  \/ \E s \in Sessions : LetIn(s)

(* Every step is of one of these kinds.                                      *)
LEMMA StepKinds ==
  ASSUME Shape, [Next]_vars
  PROVE  Kinds
<1> USE DEF Kinds
<1>1. ASSUME NEW u \in Users, MemberStep(u)
      PROVE  Kinds
  <2>1. /\ \A s \in Sessions : session'[s] = "live" => session[s] = "live"
        /\ \A s \in Sessions : session'[s] = "eligible" => session[s] = "eligible"
    BY <1>1, SessionsEnd DEF Shape, MemberStep, Depart, Return, Promote
  <2> QED BY <1>1, <2>1 DEF MemberStep, Depart, Return, Promote, Quiet, NothingOpens, Pending
<1>2. ASSUME NEW u \in Users, LinkStep(u)
      PROVE  Kinds
  BY <1>2, ClosedRequest DEF Shape, TablesOK, LinkStep, DeliverLink, CancelByLink,
     Cancelled, Quiet, NothingOpens, Pending
<1>3. ASSUME NEW u \in Users, Reapply(u)
      PROVE  Kinds
  BY <1>3 DEF Reapply, Deletion
<1>4. ASSUME NEW u \in Users, RecordExecution(u) \/ Backfill(u)
      PROVE  Kinds
  BY <1>4 DEF Kinds, RecordExecution, Backfill, Quiet, NothingOpens, Pending, tables, outside
<1>5. ASSUME NEW s \in Sessions, SessionStep(s)
      PROVE  Kinds
  <2>1. CASE LetIn(s)
    BY <2>1
  <2>2. CASE Drop(s) \/ AnswerRetry(s)
    <3>1. \A t \in Sessions : call'[t].phase = "verified" => call[t].phase = "verified"
      BY <2>2, CallsStayUnverified, CallTypes DEF Drop, AnswerRetry, NoCall, Answered
    <3> QED BY <2>2, <3>1 DEF Drop, AnswerRetry, Quiet, NothingOpens, Pending, tables
  <2> QED BY <1>5, <2>1, <2>2 DEF SessionStep, LetIn
<1>6. ASSUME NEW s \in Sessions, CancelDeletion(s)
      PROVE  Kinds
  BY <1>6, UserOfTyped, ClosedRequest DEF Shape, TablesOK, CancelDeletion, Cancelled,
     Quiet, NothingOpens, Pending
<1>7. ASSUME NEW s \in Sessions, RecordDeletion(s)
      PROVE  Kinds
  <2>1. \A t \in Sessions : call'[t].phase = "verified" => call[t].phase = "verified"
    BY <1>7, CallsStayUnverified, CallTypes DEF RecordDeletion, Answered
  <2> QED BY <1>7, <2>1 DEF RecordDeletion, Quiet, NothingOpens, Pending, tables
<1>8. ASSUME NEW s \in Sessions, NEW stamp \in Instants, RequestDeletion(s, stamp)
      PROVE  Kinds
  <2>1. \A t \in Sessions : call'[t].phase = "verified" => call[t].phase = "verified"
    BY <1>8, CallsStayUnverified, CallTypes DEF RequestDeletion, NoCall
  <2>2. Scheduling(UserOf[s])
    BY <1>8, <2>1, UserOfTyped, RequestKinds DEF RequestDeletion
  <2> QED BY <2>2, UserOfTyped
<1>9. ASSUME NEW s \in Sessions, NEW stamp \in Instants, DeleteNow(s, stamp)
      PROVE  Kinds
  BY <1>9, DeleteNowKinds, UserOfTyped
<1>10. ASSUME NEW u \in Users, NEW stamp \in Instants, RequestByLink(u, stamp)
      PROVE  Kinds
  <2>1. Scheduling(u)
    BY <1>10, RequestKinds DEF RequestByLink
  <2> QED BY <2>1
<1>11. ASSUME NEW saves \in BOOLEAN, Tick(saves)
      PROVE  Kinds
  BY <1>11 DEF Tick, Quiet, NothingOpens, Pending, tables, outside
<1>12. ASSUME JobStep
      PROVE  Kinds
  BY <1>12 DEF JobStep, StartJob, MissLedger, StopJob, Quiet, NothingOpens, Pending,
     tables, outside
<1>13. ASSUME Execute
      PROVE  Kinds
  BY <1>13, ExecuteKinds
<1>14. ASSUME Restore
      PROVE  Kinds
  BY <1>14
<1>15. ASSUME CutOver
      PROVE  Kinds
  BY <1>15 DEF CutOver, Quiet, NothingOpens, Pending, tables, outside
<1>16. ASSUME UNCHANGED vars
      PROVE  Kinds
  BY <1>16 DEF vars, Quiet, NothingOpens, Pending, tables, outside
<1> QED BY StepCases, <1>1, <1>2, <1>3, <1>4, <1>5, <1>6, <1>7, <1>8, <1>9, <1>10, <1>11,
   <1>12, <1>13, <1>14, <1>15, <1>16

-----------------------------------------------------------------------------
(* The parts of the invariant, one by one.                                   *)

(* Login needs an idle browser, and verification a live session.             *)
LEMMA SignInsStep ==
  ASSUME Shape, SignInsAreIdle, [Next]_vars
  PROVE  SignInsAreIdle'
<1>1. ASSUME Quiet \/ Restore \/ \E u \in Users : Deletion(u) \/ Scheduling(u)
      PROVE  SignInsAreIdle'
  BY <1>1, DeletionEffect DEF SignInsAreIdle, Quiet, NothingOpens, Restore, NoCall,
     Deletion, Scheduling
<1>2. ASSUME NEW s \in Sessions, LetIn(s)
      PROVE  SignInsAreIdle'
  <2>1. CASE Login(s)
    BY <2>1 DEF Shape, TablesOK, Login, SignInsAreIdle, NoCall
  <2>2. CASE IssueSession(s)
    BY <2>2 DEF Shape, TablesOK, IssueSession, Issued, SignInsAreIdle
  <2>3. CASE Verify(s)
    BY <2>3 DEF Shape, MemoryOK, Verify, SetCall, SignInsAreIdle, tables
  <2> QED BY <1>2, <2>1, <2>2, <2>3 DEF LetIn
<1> QED BY <1>1, <1>2, StepKinds DEF Kinds

(* A new request ends the sessions of its account, and a sign-in that is let *)
(* in afterwards is not verified.                                           *)
LEMMA LockedStep ==
  ASSUME Shape, SignInsAreIdle, PendingIsLocked, [Next]_vars
  PROVE  PendingIsLocked'
<1>1. ASSUME Quiet \/ Restore \/ \E u \in Users : Deletion(u)
      PROVE  PendingIsLocked'
  BY <1>1, DeletionEffect, UserOfTyped DEF PendingIsLocked, Quiet, NothingOpens, Restore,
     NoCall, Deletion
<1>2. ASSUME NEW u \in Users, Scheduling(u)
      PROVE  PendingIsLocked'
  BY <1>2, UserOfTyped DEF PendingIsLocked, Scheduling, Pending
<1>3. ASSUME NEW s \in Sessions, LetIn(s)
      PROVE  PendingIsLocked'
  <2>1. CASE Login(s)
    BY <2>1 DEF Shape, TablesOK, Login, PendingIsLocked, Pending
  <2>2. CASE IssueSession(s)
    BY <2>2 DEF Shape, TablesOK, IssueSession, SignInsAreIdle, PendingIsLocked, Pending
  <2>3. CASE Verify(s)
    BY <2>3 DEF Shape, MemoryOK, Verify, SetCall, PendingIsLocked, Pending, tables
  <2> QED BY <1>3, <2>1, <2>2, <2>3 DEF LetIn
<1> QED BY <1>1, <1>2, <1>3, StepKinds DEF Kinds

(* A deletion ends the sessions of its account, and none is issued after it. *)
LEMMA SignedOutStep ==
  ASSUME Shape, SavedOK, TombstonesAreSignedOut, [Next]_vars
  PROVE  TombstonesAreSignedOut'
<1>1. ASSUME Quiet \/ \E u \in Users : Deletion(u) \/ Scheduling(u)
      PROVE  TombstonesAreSignedOut'
  BY <1>1, DeletionEffect, UserOfTyped
     DEF TombstonesAreSignedOut, Erased, Quiet, NothingOpens, Deletion, Scheduling
<1>2. CASE Restore
  BY <1>2 DEF SavedOK, Restore, TombstonesAreSignedOut, Erased
<1>3. ASSUME NEW s \in Sessions, LetIn(s)
      PROVE  TombstonesAreSignedOut'
  <2>1. CASE Login(s)
    BY <2>1 DEF Shape, TablesOK, Login, TombstonesAreSignedOut, Erased
  <2>2. CASE IssueSession(s)
    BY <2>2 DEF Shape, TablesOK, IssueSession, Issued, TombstonesAreSignedOut, Erased
  <2>3. CASE Verify(s)
    BY <2>3 DEF Verify, TombstonesAreSignedOut, Erased, tables
  <2> QED BY <1>3, <2>1, <2>2, <2>3 DEF LetIn
<1> QED BY <1>1, <1>2, <1>3, StepKinds DEF Kinds

(* Only a restore moves the restore point.                                   *)
LEMMA PointStep ==
  ASSUME Shape, [Next]_vars
  PROVE  Restore \/ service'.point = service.point
<1>1. ASSUME NEW u \in Users, MemberStep(u)
      PROVE  Restore \/ service'.point = service.point
  BY <1>1 DEF MemberStep, Depart, Return, Promote, tables, outside
<1>2. ASSUME NEW u \in Users, LinkStep(u)
      PROVE  Restore \/ service'.point = service.point
  BY <1>2 DEF LinkStep, DeliverLink, CancelByLink, Cancelled, tables, outside
<1>3. ASSUME NEW u \in Users, Reapply(u)
      PROVE  Restore \/ service'.point = service.point
  BY <1>3 DEF Reapply, tables, outside
<1>4. ASSUME NEW u \in Users, RecordExecution(u) \/ Backfill(u)
      PROVE  Restore \/ service'.point = service.point
  BY <1>4 DEF RecordExecution, Backfill, tables, outside
<1>5. ASSUME NEW s \in Sessions, SessionStep(s)
      PROVE  Restore \/ service'.point = service.point
  BY <1>5 DEF SessionStep, Login, IssueSession, Verify, Drop, AnswerRetry, tables, outside
<1>6. ASSUME NEW s \in Sessions, CancelDeletion(s)
      PROVE  Restore \/ service'.point = service.point
  BY <1>6 DEF CancelDeletion, Cancelled, tables, outside
<1>7. ASSUME NEW s \in Sessions, RecordDeletion(s)
      PROVE  Restore \/ service'.point = service.point
  BY <1>7 DEF RecordDeletion, tables, outside
<1>8. ASSUME NEW s \in Sessions, NEW stamp \in Instants, RequestDeletion(s, stamp)
      PROVE  Restore \/ service'.point = service.point
  BY <1>8 DEF RequestDeletion, tables, outside
<1>9. ASSUME NEW s \in Sessions, NEW stamp \in Instants, DeleteNow(s, stamp)
      PROVE  Restore \/ service'.point = service.point
  BY <1>9 DEF DeleteNow, tables, outside
<1>10. ASSUME NEW u \in Users, NEW stamp \in Instants, RequestByLink(u, stamp)
      PROVE  Restore \/ service'.point = service.point
  BY <1>10 DEF RequestByLink, tables, outside
<1>11. ASSUME NEW saves \in BOOLEAN, Tick(saves)
      PROVE  Restore \/ service'.point = service.point
  BY <1>11 DEF Tick, tables, outside
<1>12. ASSUME JobStep
      PROVE  Restore \/ service'.point = service.point
  BY <1>12 DEF JobStep, StartJob, MissLedger, StopJob, tables, outside
<1>13. ASSUME Execute
      PROVE  Restore \/ service'.point = service.point
  BY <1>13 DEF Execute, tables, outside
<1>14. ASSUME Restore
      PROVE  Restore \/ service'.point = service.point
  BY <1>14
<1>15. ASSUME CutOver
      PROVE  Restore \/ service'.point = service.point
  BY <1>15 DEF CutOver, Shape, OutsideOK
<1>16. ASSUME UNCHANGED vars
      PROVE  Restore \/ service'.point = service.point
  BY <1>16 DEF vars, tables, outside
<1> QED BY StepCases, <1>1, <1>2, <1>3, <1>4, <1>5, <1>6, <1>7, <1>8, <1>9, <1>10, <1>11,
   <1>12, <1>13, <1>14, <1>15, <1>16

(* The immediate deletion, which leaves requests alone, finds none open.     *)
LEMMA RequestEndsStep ==
  ASSUME Shape, SavedOK, PendingIsLocked, RequestEndsWithAccount, [Next]_vars
  PROVE  RequestEndsWithAccount'
<1>1. CASE Restore
  BY <1>1 DEF SavedOK, SavedType, Instants, Restore, RequestEndsWithAccount
<1>2. CASE service'.point = service.point /\ service.point # 0
  BY <1>2 DEF RequestEndsWithAccount
<1>3. CASE service'.point = service.point /\ service.point = 0
  <2>1. service.up
    BY <1>3 DEF Shape, OutsideOK
  <2>2. CASE Quiet
    BY <1>3, <2>2 DEF RequestEndsWithAccount, Quiet, NothingOpens, Erased
  <2>3. ASSUME NEW u \in Users, Deletion(u)
        PROVE  RequestEndsWithAccount'
    <3>1. ~Pending(u)'
      <4>1. ASSUME NEW s \in Sessions, ByCall(u, s)
            PROVE  ~Pending(u)'
        BY <4>1 DEF ByCall, PendingIsLocked, Erase, Pending
      <4>2. CASE ByJob(u)
        BY <4>2, ClosedRequest DEF Shape, TablesOK, ByJob, Erase, Pending
      <4> QED BY <2>1, <2>3, <4>1, <4>2 DEF Deletion, Reapply
    <3> QED BY <1>3, <2>3, <3>1, DeletionEffect DEF RequestEndsWithAccount, Erased
  <2>4. ASSUME NEW u \in Users, Scheduling(u)
        PROVE  RequestEndsWithAccount'
    BY <1>3, <2>4 DEF RequestEndsWithAccount, Scheduling, Erased, Pending
  <2>5. ASSUME NEW s \in Sessions, LetIn(s)
        PROVE  RequestEndsWithAccount'
    BY <1>3, <2>5 DEF RequestEndsWithAccount, LetIn, Login, IssueSession, Verify, Erased,
       Pending, tables
  <2>6. CASE Restore
    BY <2>6, <1>1
  <2> QED BY <2>2, <2>3, <2>4, <2>5, <2>6, StepKinds DEF Kinds
<1> QED BY <1>1, <1>2, <1>3, PointStep

(* Neither a call nor the job deletes the last owner.                        *)
LEMMA DeletionKeepsAnOwner ==
  ASSUME Shape, CircleKeepsAnOwner, NEW u \in Users, Deletion(u)
  PROVE  CircleKeepsAnOwner'
<1>1. owner' = owner \ {u} /\ UNCHANGED outside
  BY DeletionEffect DEF Deletion
<1>2. CASE service.point # 0
  BY <1>1, <1>2 DEF CircleKeepsAnOwner, outside
<1>3. CASE service.point = 0
  <2>1. owner \subseteq active /\ ~Reapply(u)
    BY <1>3 DEF Shape, TablesOK, MembersOK, OutsideOK, Reapply
  <2>2. ~Blocked(u)
    BY <2>1 DEF Deletion, ByCall, ByJob, Barred, Blocked
  <2> QED BY <1>1, <1>3, <2>2 DEF CircleKeepsAnOwner, Blocked, OtherOwner
<1> QED BY <1>2, <1>3

(* Whoever leaves as an owner leaves another one behind.                      *)
LEMMA OwnerStep ==
  ASSUME Shape, SavedOK, CircleKeepsAnOwner, [Next]_vars
  PROVE  CircleKeepsAnOwner'
<1>1. ASSUME NEW u \in Users, MemberStep(u)
      PROVE  CircleKeepsAnOwner'
  BY <1>1 DEF MemberStep, Depart, Return, Promote, CircleKeepsAnOwner, OtherOwner, tables, outside
<1>2. ASSUME NEW u \in Users, LinkStep(u)
      PROVE  CircleKeepsAnOwner'
  BY <1>2 DEF LinkStep, DeliverLink, CancelByLink, Cancelled, CircleKeepsAnOwner,
     OtherOwner, tables, outside
<1>3. ASSUME NEW u \in Users, Reapply(u)
      PROVE  CircleKeepsAnOwner'
  BY <1>3 DEF Shape, OutsideOK, Reapply, CircleKeepsAnOwner, outside
<1>4. ASSUME NEW u \in Users, RecordExecution(u) \/ Backfill(u)
      PROVE  CircleKeepsAnOwner'
  BY <1>4 DEF RecordExecution, Backfill, CircleKeepsAnOwner, OtherOwner, tables, outside
<1>5. ASSUME NEW s \in Sessions, SessionStep(s)
      PROVE  CircleKeepsAnOwner'
  BY <1>5 DEF SessionStep, Login, IssueSession, Verify, Drop, AnswerRetry,
     CircleKeepsAnOwner, OtherOwner, tables, outside
<1>6. ASSUME NEW s \in Sessions, CancelDeletion(s)
      PROVE  CircleKeepsAnOwner'
  BY <1>6 DEF CancelDeletion, Cancelled, CircleKeepsAnOwner, OtherOwner, tables, outside
<1>7. ASSUME NEW s \in Sessions, RecordDeletion(s)
      PROVE  CircleKeepsAnOwner'
  BY <1>7 DEF RecordDeletion, CircleKeepsAnOwner, OtherOwner, tables, outside
<1>8. ASSUME NEW s \in Sessions, NEW stamp \in Instants, RequestDeletion(s, stamp)
      PROVE  CircleKeepsAnOwner'
  BY <1>8 DEF RequestDeletion, CircleKeepsAnOwner, OtherOwner, tables, outside
<1>9. ASSUME NEW s \in Sessions, NEW stamp \in Instants, DeleteNow(s, stamp)
      PROVE  CircleKeepsAnOwner'
  <2>1. CASE UNCHANGED tables
    BY <1>9, <2>1 DEF DeleteNow, CircleKeepsAnOwner, tables, outside
  <2>2. CASE Deletion(UserOf[s])
    BY <2>2, UserOfTyped, DeletionKeepsAnOwner DEF CircleKeepsAnOwner, Deletion, outside
  <2> QED BY <1>9, <2>1, <2>2, DeleteNowKinds
<1>10. ASSUME NEW u \in Users, NEW stamp \in Instants, RequestByLink(u, stamp)
      PROVE  CircleKeepsAnOwner'
  BY <1>10 DEF RequestByLink, CircleKeepsAnOwner, OtherOwner, tables, outside
<1>11. ASSUME NEW saves \in BOOLEAN, Tick(saves)
      PROVE  CircleKeepsAnOwner'
  BY <1>11 DEF Tick, CircleKeepsAnOwner, OtherOwner, tables, outside
<1>12. ASSUME JobStep
      PROVE  CircleKeepsAnOwner'
  BY <1>12 DEF JobStep, StartJob, MissLedger, StopJob, CircleKeepsAnOwner, OtherOwner,
     tables, outside
<1>13. ASSUME Execute
      PROVE  CircleKeepsAnOwner'
  <2>1. CASE UNCHANGED tables
    BY <1>13, <2>1 DEF Execute, CircleKeepsAnOwner, tables, outside
  <2>2. CASE Deletion(Head(job.due))
    BY <1>13, <2>2, ExecuteKinds, DeletionKeepsAnOwner DEF CircleKeepsAnOwner, Deletion, outside
  <2> QED BY <1>13, <2>1, <2>2, ExecuteKinds
<1>14. ASSUME Restore
      PROVE  CircleKeepsAnOwner'
  BY <1>14 DEF SavedOK, SavedType, Instants, Restore, CircleKeepsAnOwner
<1>15. ASSUME CutOver
      PROVE  CircleKeepsAnOwner'
  BY <1>15 DEF Shape, OutsideOK, CutOver, CircleKeepsAnOwner, tables
<1>16. ASSUME UNCHANGED vars
      PROVE  CircleKeepsAnOwner'
  BY <1>16 DEF vars, CircleKeepsAnOwner, OtherOwner, tables, outside
<1> QED BY StepCases, <1>1, <1>2, <1>3, <1>4, <1>5, <1>6, <1>7, <1>8, <1>9, <1>10, <1>11,
   <1>12, <1>13, <1>14, <1>15, <1>16

LEMMA ReapplyDeletes ==
  ASSUME NEW u \in Users, Reapply(u)
  PROVE  Deletion(u)
BY DEF Reapply, Deletion

(* Until a restore, a tombstone remains one.                                  *)
LEMMA TombstonesStayStep ==
  ASSUME Shape, SavedOK, TombstonesStay, [Next]_vars
  PROVE  TombstonesStay'
<1>1. ASSUME NEW u \in Users, MemberStep(u)
      PROVE  TombstonesStay'
  BY <1>1 DEF MemberStep, Depart, Return, Promote, TombstonesStay, Erased, tables, outside
<1>2. ASSUME NEW u \in Users, LinkStep(u)
      PROVE  TombstonesStay'
  BY <1>2 DEF LinkStep, DeliverLink, CancelByLink, Cancelled, TombstonesStay, Erased,
     tables, outside
<1>3. ASSUME NEW u \in Users, Reapply(u)
      PROVE  TombstonesStay'
  BY <1>3, DeletionEffect, ReapplyDeletes DEF TombstonesStay, Erased, Deletion, outside
<1>4. ASSUME NEW u \in Users, RecordExecution(u) \/ Backfill(u)
      PROVE  TombstonesStay'
  BY <1>4 DEF RecordExecution, Backfill, TombstonesStay, Erased, tables, outside
<1>5. ASSUME NEW s \in Sessions, SessionStep(s)
      PROVE  TombstonesStay'
  BY <1>5 DEF SessionStep, Login, IssueSession, Verify, Drop, AnswerRetry, TombstonesStay,
     Erased, tables, outside
<1>6. ASSUME NEW s \in Sessions, CancelDeletion(s)
      PROVE  TombstonesStay'
  BY <1>6 DEF CancelDeletion, Cancelled, TombstonesStay, Erased, tables, outside
<1>7. ASSUME NEW s \in Sessions, RecordDeletion(s)
      PROVE  TombstonesStay'
  BY <1>7 DEF RecordDeletion, TombstonesStay, Erased, tables, outside
<1>8. ASSUME NEW s \in Sessions, NEW stamp \in Instants, RequestDeletion(s, stamp)
      PROVE  TombstonesStay'
  BY <1>8 DEF RequestDeletion, TombstonesStay, Erased, tables, outside
<1>9. ASSUME NEW s \in Sessions, NEW stamp \in Instants, DeleteNow(s, stamp)
      PROVE  TombstonesStay'
  <2>1. CASE UNCHANGED tables
    BY <1>9, <2>1 DEF DeleteNow, TombstonesStay, Erased, tables, outside
  <2>2. CASE Deletion(UserOf[s])
    BY <2>2, UserOfTyped, DeletionEffect DEF TombstonesStay, Erased, Deletion, outside
  <2> QED BY <1>9, <2>1, <2>2, DeleteNowKinds
<1>10. ASSUME NEW u \in Users, NEW stamp \in Instants, RequestByLink(u, stamp)
      PROVE  TombstonesStay'
  BY <1>10 DEF RequestByLink, TombstonesStay, Erased, tables, outside
<1>11. ASSUME NEW saves \in BOOLEAN, Tick(saves)
      PROVE  TombstonesStay'
  BY <1>11 DEF Tick, Saved, TombstonesStay, Erased, tables
<1>12. ASSUME JobStep
      PROVE  TombstonesStay'
  BY <1>12 DEF JobStep, StartJob, MissLedger, StopJob, TombstonesStay, Erased, tables, outside
<1>13. ASSUME Execute
      PROVE  TombstonesStay'
  <2>1. CASE UNCHANGED tables
    BY <1>13, <2>1 DEF Execute, TombstonesStay, Erased, tables, outside
  <2>2. CASE Deletion(Head(job.due))
    BY <1>13, <2>2, ExecuteKinds, DeletionEffect DEF TombstonesStay, Erased, Deletion, outside
  <2> QED BY <1>13, <2>1, <2>2, ExecuteKinds
<1>14. ASSUME Restore
      PROVE  TombstonesStay'
  BY <1>14 DEF SavedOK, SavedType, Instants, Restore, TombstonesStay
<1>15. ASSUME CutOver
      PROVE  TombstonesStay'
  BY <1>15 DEF Shape, OutsideOK, CutOver, TombstonesStay, Erased, tables
<1>16. ASSUME UNCHANGED vars
      PROVE  TombstonesStay'
  BY <1>16 DEF vars, TombstonesStay, Erased, tables, outside
<1> QED BY StepCases, <1>1, <1>2, <1>3, <1>4, <1>5, <1>6, <1>7, <1>8, <1>9, <1>10, <1>11,
   <1>12, <1>13, <1>14, <1>15, <1>16

(* An entry copies the tombstone it is about, and a restored database serves *)
(* only when those after the restore point are tombstones again.            *)
LEMMA LedgerStep ==
  ASSUME Shape, LedgerIsApplied, [Next]_vars
  PROVE  LedgerIsApplied'
<1>1. ASSUME NEW u \in Users, MemberStep(u)
      PROVE  LedgerIsApplied'
  BY <1>1 DEF MemberStep, Depart, Return, Promote, LedgerIsApplied, Erased, tables, outside
<1>2. ASSUME NEW u \in Users, LinkStep(u)
      PROVE  LedgerIsApplied'
  BY <1>2 DEF LinkStep, DeliverLink, CancelByLink, Cancelled, LedgerIsApplied, Erased,
     tables, outside
<1>3. ASSUME NEW u \in Users, Reapply(u)
      PROVE  LedgerIsApplied'
  BY <1>3 DEF Reapply, LedgerIsApplied, outside
<1>4. ASSUME NEW u \in Users, RecordExecution(u) \/ Backfill(u)
      PROVE  LedgerIsApplied'
  <2>1. ledger' = Entered(u) /\ UNCHANGED <<erasedAt, service>>
    BY <1>4 DEF RecordExecution, Backfill, tables
  <2> QED BY <2>1, UserOfTyped DEF Shape, TablesOK, OutsideOK, LedgerIsApplied, Entered, Erased
<1>5. ASSUME NEW s \in Sessions, SessionStep(s)
      PROVE  LedgerIsApplied'
  BY <1>5 DEF SessionStep, Login, IssueSession, Verify, Drop, AnswerRetry, LedgerIsApplied,
     Erased, tables, outside
<1>6. ASSUME NEW s \in Sessions, CancelDeletion(s)
      PROVE  LedgerIsApplied'
  BY <1>6 DEF CancelDeletion, Cancelled, LedgerIsApplied, Erased, tables, outside
<1>7. ASSUME NEW s \in Sessions, RecordDeletion(s)
      PROVE  LedgerIsApplied'
  <2>1. ledger' = Entered(UserOf[s]) /\ UNCHANGED <<erasedAt, service>>
    BY <1>7 DEF RecordDeletion, tables
  <2> QED BY <2>1, UserOfTyped DEF Shape, TablesOK, OutsideOK, LedgerIsApplied, Entered, Erased
<1>8. ASSUME NEW s \in Sessions, NEW stamp \in Instants, RequestDeletion(s, stamp)
      PROVE  LedgerIsApplied'
  BY <1>8 DEF RequestDeletion, LedgerIsApplied, Erased, tables, outside
<1>9. ASSUME NEW s \in Sessions, NEW stamp \in Instants, DeleteNow(s, stamp)
      PROVE  LedgerIsApplied'
  <2>1. CASE UNCHANGED tables
    BY <1>9, <2>1 DEF DeleteNow, LedgerIsApplied, Erased, tables, outside
  <2>2. CASE Deletion(UserOf[s])
    BY <2>2, UserOfTyped, DeletionEffect DEF LedgerIsApplied, Erased, Deletion, outside
  <2> QED BY <1>9, <2>1, <2>2, DeleteNowKinds
<1>10. ASSUME NEW u \in Users, NEW stamp \in Instants, RequestByLink(u, stamp)
      PROVE  LedgerIsApplied'
  BY <1>10 DEF RequestByLink, LedgerIsApplied, Erased, tables, outside
<1>11. ASSUME NEW saves \in BOOLEAN, Tick(saves)
      PROVE  LedgerIsApplied'
  BY <1>11 DEF Tick, LedgerIsApplied, Erased, tables, outside
<1>12. ASSUME JobStep
      PROVE  LedgerIsApplied'
  BY <1>12 DEF JobStep, StartJob, MissLedger, StopJob, LedgerIsApplied, Erased, tables, outside
<1>13. ASSUME Execute
      PROVE  LedgerIsApplied'
  <2>1. CASE UNCHANGED tables
    BY <1>13, <2>1 DEF Execute, LedgerIsApplied, Erased, tables, outside
  <2>2. CASE Deletion(Head(job.due))
    BY <1>13, <2>2, ExecuteKinds, DeletionEffect DEF LedgerIsApplied, Erased, Deletion, outside
  <2> QED BY <1>13, <2>1, <2>2, ExecuteKinds
<1>14. ASSUME Restore
      PROVE  LedgerIsApplied'
  BY <1>14 DEF Restore, LedgerIsApplied
<1>15. ASSUME CutOver
      PROVE  LedgerIsApplied'
  BY <1>15 DEF Shape, OutsideOK, CutOver, LedgerIsApplied, Verified, DueEntry, Erased, tables
<1>16. ASSUME UNCHANGED vars
      PROVE  LedgerIsApplied'
  BY <1>16 DEF vars, LedgerIsApplied, Erased, tables, outside
<1> QED BY StepCases, <1>1, <1>2, <1>3, <1>4, <1>5, <1>6, <1>7, <1>8, <1>9, <1>10, <1>11,
   <1>12, <1>13, <1>14, <1>15, <1>16

(* A job reads the clock when it starts.                                      *)
LEMMA ClockStep ==
  ASSUME Shape, JobIsNotAhead, [Next]_vars
  PROVE  JobIsNotAhead'
<1>1. ASSUME NEW u \in Users, MemberStep(u)
      PROVE  JobIsNotAhead'
  BY <1>1 DEF MemberStep, Depart, Return, Promote, JobIsNotAhead, tables, outside
<1>2. ASSUME NEW u \in Users, LinkStep(u)
      PROVE  JobIsNotAhead'
  BY <1>2 DEF LinkStep, DeliverLink, CancelByLink, Cancelled, JobIsNotAhead, tables, outside
<1>3. ASSUME NEW u \in Users, Reapply(u)
      PROVE  JobIsNotAhead'
  BY <1>3 DEF Reapply, JobIsNotAhead, tables, outside
<1>4. ASSUME NEW u \in Users, RecordExecution(u) \/ Backfill(u)
      PROVE  JobIsNotAhead'
  BY <1>4 DEF Shape, MemoryOK, OutsideOK, JobType, Instants, RecordExecution, Backfill,
     JobIsNotAhead, NoJob, tables, outside
<1>5. ASSUME NEW s \in Sessions, SessionStep(s)
      PROVE  JobIsNotAhead'
  BY <1>5 DEF SessionStep, Login, IssueSession, Verify, Drop, AnswerRetry, JobIsNotAhead,
     tables, outside
<1>6. ASSUME NEW s \in Sessions, CancelDeletion(s)
      PROVE  JobIsNotAhead'
  BY <1>6 DEF CancelDeletion, Cancelled, JobIsNotAhead, tables, outside
<1>7. ASSUME NEW s \in Sessions, RecordDeletion(s)
      PROVE  JobIsNotAhead'
  BY <1>7 DEF RecordDeletion, JobIsNotAhead, tables, outside
<1>8. ASSUME NEW s \in Sessions, NEW stamp \in Instants, RequestDeletion(s, stamp)
      PROVE  JobIsNotAhead'
  BY <1>8 DEF RequestDeletion, JobIsNotAhead, tables, outside
<1>9. ASSUME NEW s \in Sessions, NEW stamp \in Instants, DeleteNow(s, stamp)
      PROVE  JobIsNotAhead'
  BY <1>9 DEF DeleteNow, JobIsNotAhead, tables, outside
<1>10. ASSUME NEW u \in Users, NEW stamp \in Instants, RequestByLink(u, stamp)
      PROVE  JobIsNotAhead'
  BY <1>10 DEF RequestByLink, JobIsNotAhead, tables, outside
<1>11. ASSUME NEW saves \in BOOLEAN, Tick(saves)
      PROVE  JobIsNotAhead'
  BY <1>11 DEF Shape, MemoryOK, JobType, OutsideOK, Instants, Tick, JobIsNotAhead
<1>12. ASSUME JobStep
      PROVE  JobIsNotAhead'
  BY <1>12 DEF Shape, MemoryOK, JobType, OutsideOK, Instants, JobStep, StartJob,
     MissLedger, StopJob, NoJob, JobIsNotAhead, outside
<1>13. ASSUME Execute
      PROVE  JobIsNotAhead'
  <2>1. job' = NoJob \/ job'.stamp = job.stamp
    BY <1>13 DEF Execute, JobAfter
  <2>2. UNCHANGED now
    BY <1>13 DEF Execute, outside
  <2> QED BY <2>1, <2>2 DEF Shape, OutsideOK, Instants, NoJob, JobIsNotAhead
<1>14. ASSUME Restore
      PROVE  JobIsNotAhead'
  BY <1>14 DEF Shape, OutsideOK, Instants, Restore, NoJob, JobIsNotAhead
<1>15. ASSUME CutOver
      PROVE  JobIsNotAhead'
  BY <1>15 DEF CutOver, JobIsNotAhead, tables, outside
<1>16. ASSUME UNCHANGED vars
      PROVE  JobIsNotAhead'
  BY <1>16 DEF vars, JobIsNotAhead, tables, outside
<1> QED BY StepCases, <1>1, <1>2, <1>3, <1>4, <1>5, <1>6, <1>7, <1>8, <1>9, <1>10, <1>11,
   <1>12, <1>13, <1>14, <1>15, <1>16

-----------------------------------------------------------------------------
(* The theorems.                                                             *)

LEMMA InitInv == Init => Inv
<1> SUFFICES ASSUME Init
             PROVE  Inv
  OBVIOUS
<1> USE DeletionAssumption DEF Init
<1>1. TablesOK
  BY DEF TablesOK, MembersOK, RequestsOK, RequestType, NoRequest, Stages
<1>2. MemoryOK
  BY CallTypes, JobTypes DEF MemoryOK
<1>3. OutsideOK
  BY DEF OutsideOK, Instants
<1>4. SavedOK /\ TombstonesStay
  BY DEF SavedOK, TombstonesStay
<1>5. SignInsAreIdle /\ PendingIsLocked /\ TombstonesAreSignedOut /\ CircleKeepsAnOwner
  BY DEF SignInsAreIdle, PendingIsLocked, NoCall, TombstonesAreSignedOut, CircleKeepsAnOwner
<1>6. RequestEndsWithAccount /\ JobIsNotAhead /\ LedgerIsApplied
  BY DEF RequestEndsWithAccount, Erased, JobIsNotAhead, NoJob, LedgerIsApplied
<1> QED BY <1>1, <1>2, <1>3, <1>4, <1>5, <1>6 DEF Inv, Shape

LEMMA StepInv == Inv /\ [Next]_vars => Inv'
BY ShapeStep, SavedStep, SignInsStep, LockedStep, SignedOutStep, RequestEndsStep, OwnerStep,
   TombstonesStayStep, ClockStep, LedgerStep DEF Inv

(* The invariant of the table rows, the memory of calls and the job, and     *)
(* what a restore may bring back.                                           *)
THEOREM Invariance == Spec => []Inv
<1>1. Inv /\ [Next]_vars => Inv'
  BY StepInv
<1> QED BY <1>1, InitInv, PTL DEF Spec

(* Every table, call, job and saved copy keeps its type, and owners are      *)
(* members.                                                                 *)
THEOREM TypeCorrect == Spec => []TypeOK
<1>1. Inv => TypeOK
  <2> SUFFICES ASSUME Inv
               PROVE  TypeOK
    OBVIOUS
  <2>1. backup.at \in 0..Horizon
    BY DeletionAssumption DEF Inv, SavedOK, SavedType, NoBackup, Instants
  <2> QED BY <2>1 DEF Inv, Shape, TablesOK, MembersOK, RequestsOK, MemoryOK, OutsideOK,
     JobType, TypeOK
<1> QED BY <1>1, Invariance, PTL

(* Locked accounts commit nothing, tombstones are signed out, and a deletion *)
(* takes the open request of its account with it.                           *)
THEOREM AbsentStayOut == Spec => []AbsentAreOut
<1>1. Inv => AbsentAreOut
  BY DEF Inv, AbsentAreOut
<1> QED BY <1>1, Invariance, PTL

(* However deletions, departures and the job interleave, an owner remains.   *)
THEOREM AnOwnerRemains == Spec => []CircleKeepsAnOwner
<1>1. Inv => CircleKeepsAnOwner
  BY DEF Inv
<1> QED BY <1>1, Invariance, PTL

(* A database that serves again after a restore has had every deletion that  *)
(* the ledger dates after the restore point.                                *)
THEOREM LedgerHolds == Spec => []LedgerIsApplied
<1>1. Inv => LedgerIsApplied
  BY DEF Inv
<1> QED BY <1>1, Invariance, PTL

(* Who deletes an account: its owner, or the job with a request that is due.  *)
LEMMA DeletionsAreLicensed ==
  ASSUME Inv, [Next]_vars, service.up, NEW u \in Users, ~Erased(u), Erased(u)'
  PROVE  \/ Pending(u) /\ request[u].due <= now
         \/ /\ ~Pending(u)
            /\ \E s \in Sessions : UserOf[s] = u /\ session[s] = "live"
               /\ call[s].phase = "verified"
<1>1. CASE Restore
  BY <1>1 DEF Inv, TombstonesStay, Restore, Erased
<1>2. ASSUME NEW v \in Users, Deletion(v)
      PROVE  (\E s \in Sessions : ByCall(u, s)) \/ ByJob(u)
  <2>1. v = u
    BY <1>2, DeletionEffect DEF Inv, Erased
  <2> QED BY <1>2, <2>1 DEF Deletion, Reapply
<1>3. ASSUME NEW s \in Sessions, ByCall(u, s)
      PROVE  /\ ~Pending(u)
             /\ UserOf[s] = u /\ session[s] = "live" /\ call[s].phase = "verified"
  BY <1>3 DEF ByCall, Inv, PendingIsLocked
<1>4. CASE ByJob(u)
  <2>1. Pending(u) /\ request[u].due <= job.stamp /\ job.stamp <= now
    BY <1>4 DEF ByJob, StillDue, Inv, JobIsNotAhead
  <2>2. request[u].due \in Nat /\ job.stamp \in Nat /\ now \in Nat
    BY RequestFields DEF Inv, Shape, TablesOK, MemoryOK, JobType, OutsideOK, Instants
  <2> QED BY <2>1, <2>2
<1>5. ~Quiet /\ (\A v \in Users : ~Scheduling(v)) /\ \A s \in Sessions : ~LetIn(s)
  BY DEF Quiet, Scheduling, LetIn, Login, IssueSession, Verify, tables, Erased
<1> QED BY <1>1, <1>2, <1>3, <1>4, <1>5, StepKinds DEF Kinds, Inv

(* No account is deleted by a schedule that was cancelled or replaced.       *)
THEOREM SchedulesAreHonoured == Spec => ScheduleIsHonoured
<1>1. Inv /\ [Next]_vars =>
        [service.up => \A u \in Users : ~Erased(u) /\ Erased(u)' =>
           \/ Pending(u) /\ request[u].due <= now
           \/ /\ ~Pending(u)
              /\ \E s \in Sessions : /\ UserOf[s] = u /\ session[s] = "live"
                                     /\ call[s].phase = "verified"]_vars
  BY DeletionsAreLicensed
<1> QED BY <1>1, InitInv, StepInv, PTL DEF Spec, ScheduleIsHonoured

-----------------------------------------------------------------------------
(* AI feedback.                                                             *)
CONSTANTS Participants, Analyses, MonthlyLimit, DailyLimit, LastDay, MonthOf
VARIABLES paired, consent, analysis, slot, usage, pool, day

Feedback == INSTANCE AiFeedback WITH Users <- Participants, run <- analysis

ConsentChoices == {"none", "given", "withdrawn", "lapsed"}
Waiting == {"idle", "resolved", "recorded", "consented", "allowed"}
Opened  == {"open", "answered", "stored", "counted"}
AnalysisType == [phase : Waiting \cup Opened \cup {"reserved", "failed", "done"},
                 user : Participants \cup {"nobody"}, day : 0..LastDay]
SlotType == [state : {"none", "held", "spent", "refunded"},
             user : Participants \cup {"nobody"}, month : 0..LastDay]

FeedbackTyped ==
  /\ paired \in BOOLEAN /\ day \in 0..LastDay
  /\ consent \in [Participants -> ConsentChoices]
  /\ analysis \in [Analyses -> AnalysisType] /\ slot \in [Analyses -> SlotType]
  /\ usage \in [0..LastDay -> [Participants -> Nat]] /\ pool \in [0..LastDay -> Nat]
  /\ \A r \in Analyses : /\ analysis[r].phase = "idle" \/ analysis[r].user \in Participants
                         /\ slot[r].state = "none" \/ slot[r].user \in Participants

(* A request has a reservation from the reservation on, and a session only   *)
(* with one that is spent.                                                  *)
SlotsFollow == \A r \in Analyses :
  /\ analysis[r].phase \in Waiting => slot[r].state = "none"
  /\ analysis[r].phase = "reserved" => slot[r].state = "held"
  /\ analysis[r].phase \in Opened => slot[r].state = "spent"

Paying(s, m, u) == {r \in Analyses : s[r].user = u /\ s[r].month = m /\ s[r].state \in {"held", "spent"}}
Counted == \A m \in 0..LastDay, u \in Participants :
  usage[m][u] = Cardinality(Paying(slot, m, u)) /\ usage[m][u] <= MonthlyLimit

FeedbackInv == FeedbackTyped /\ SlotsFollow /\ Counted

LEMMA FeedbackBegins == ASSUME Feedback!AiConstants, Feedback!Init PROVE FeedbackInv
<1>0. LastDay \in Nat /\ MonthlyLimit \in Nat /\ 0 \in 0..LastDay
  BY DEF Feedback!AiConstants
<1>1. FeedbackTyped /\ SlotsFollow
  BY <1>0 DEF FeedbackTyped, SlotsFollow, Feedback!Init, Feedback!NoRun, Feedback!NoSlot, AnalysisType, SlotType, ConsentChoices, Waiting, Opened
<1>2. \A m \in 0..LastDay, u \in Participants : Paying(slot, m, u) = {}
  BY DEF Paying, Feedback!Init, Feedback!NoSlot
<1>3. Counted
  <2>1. Cardinality({}) = 0
    BY FS_EmptySet
  <2>2. \A m \in 0..LastDay, u \in Participants : usage[m][u] = 0
    BY DEF Feedback!Init
  <2> QED BY <1>0, <1>2, <2>1, <2>2 DEF Counted
<1> QED BY <1>1, <1>3 DEF FeedbackInv

(* One reservation more, or one less.                                       *)
LEMMA OneMore ==
  ASSUME Feedback!AiConstants, FeedbackTyped, Counted, NEW r \in Analyses, NEW t \in SlotType, t.user \in Participants,
         slot[r].state \in {"none", "refunded"}, t.state = "held", slot' = [slot EXCEPT ![r] = t],
         usage[t.month][t.user] < MonthlyLimit, usage' = [usage EXCEPT ![t.month][t.user] = @ + 1]
  PROVE  Counted'
<1> SUFFICES ASSUME NEW m \in 0..LastDay, NEW u \in Participants
             PROVE usage'[m][u] = Cardinality(Paying(slot', m, u)) /\ usage'[m][u] <= MonthlyLimit
  BY DEF Counted
<1>1. /\ IsFiniteSet(Analyses) /\ MonthlyLimit \in Nat
      /\ usage[m][u] = Cardinality(Paying(slot, m, u)) /\ usage[m][u] <= MonthlyLimit /\ usage[m][u] \in Nat
  BY Zenon DEF Counted, Feedback!AiConstants, FeedbackTyped, Feedback!IsFiniteSet, IsFiniteSet
<1>2. IsFiniteSet(Paying(slot, m, u))
  BY <1>1, FS_Subset DEF Paying
<1>3. CASE t.month = m /\ t.user = u
  <2>1. Paying(slot', m, u) = Paying(slot, m, u) \cup {r} /\ r \notin Paying(slot, m, u)
    BY <1>3 DEF Paying, FeedbackTyped, SlotType
  <2>2. usage'[m][u] = usage[m][u] + 1
    BY <1>3 DEF FeedbackTyped
  <2>3. Cardinality(Paying(slot', m, u)) = Cardinality(Paying(slot, m, u)) + 1
    BY <1>2, <2>1, FS_AddElement
  <2>4. usage[m][u] < MonthlyLimit
    BY <1>3
  <2> QED BY <1>1, <2>2, <2>3, <2>4
<1>4. CASE ~(t.month = m /\ t.user = u)
  <2>1. Paying(slot', m, u) = Paying(slot, m, u)
    BY <1>4 DEF Paying, FeedbackTyped, SlotType
  <2>2. usage'[m][u] = usage[m][u]
    BY <1>4 DEF FeedbackTyped, SlotType
  <2> QED BY <1>1, <2>1, <2>2
<1> QED BY <1>3, <1>4

LEMMA OneLess ==
  ASSUME Feedback!AiConstants, FeedbackTyped, Counted, NEW r \in Analyses,
         slot[r].state = "held", slot' = [slot EXCEPT ![r].state = "refunded"],
         usage' = [usage EXCEPT ![slot[r].month][slot[r].user] = @ - 1]
  PROVE  Counted' /\ usage' \in [0..LastDay -> [Participants -> Nat]]
<1> DEFINE t == slot[r]
<1>0. t.user \in Participants /\ t.month \in 0..LastDay /\ t.state = "held"
  BY DEF FeedbackTyped, SlotType
<1>1. ASSUME NEW m \in 0..LastDay, NEW u \in Participants
      PROVE /\ usage'[m][u] = Cardinality(Paying(slot', m, u)) /\ usage'[m][u] <= MonthlyLimit /\ usage'[m][u] \in Nat
  <2>1. /\ IsFiniteSet(Analyses) /\ MonthlyLimit \in Nat
        /\ usage[m][u] = Cardinality(Paying(slot, m, u)) /\ usage[m][u] <= MonthlyLimit /\ usage[m][u] \in Nat
    BY Zenon DEF Counted, Feedback!AiConstants, FeedbackTyped, Feedback!IsFiniteSet, IsFiniteSet
  <2>2. IsFiniteSet(Paying(slot, m, u))
    BY <2>1, FS_Subset DEF Paying
  <2>3. CASE t.month = m /\ t.user = u
    <3>1. Paying(slot', m, u) = Paying(slot, m, u) \ {r} /\ r \in Paying(slot, m, u)
      BY <1>0, <2>3 DEF Paying, FeedbackTyped, SlotType
    <3>2. usage'[m][u] = usage[m][u] - 1
      BY <2>3 DEF FeedbackTyped
    <3>3. Cardinality(Paying(slot', m, u)) = Cardinality(Paying(slot, m, u)) - 1
      BY <2>2, <3>1, FS_RemoveElement
    <3>4. Cardinality(Paying(slot', m, u)) \in Nat
      <4>1. IsFiniteSet(Paying(slot', m, u))
        BY <2>2, <3>1, FS_RemoveElement
      <4> QED BY <4>1, FS_CardinalityType
    <3>5. \A a, b \in Nat : a - 1 = b /\ a <= MonthlyLimit => b <= MonthlyLimit
      BY <2>1
    <3>6. usage'[m][u] = Cardinality(Paying(slot', m, u))
      BY <2>1, <3>2, <3>3
    <3>7. usage[m][u] - 1 = Cardinality(Paying(slot', m, u))
      BY <3>2, <3>6
    <3>8. Cardinality(Paying(slot', m, u)) <= MonthlyLimit
      BY <2>1, <3>4, <3>5, <3>7
    <3> QED BY <3>4, <3>6, <3>8
  <2>4. CASE ~(t.month = m /\ t.user = u)
    <3>1. Paying(slot', m, u) = Paying(slot, m, u)
      BY <2>4 DEF Paying, FeedbackTyped, SlotType
    <3>2. usage'[m][u] = usage[m][u]
      BY <1>0, <2>4 DEF FeedbackTyped
    <3> QED BY <2>1, <3>1, <3>2
  <2> QED BY <2>3, <2>4
<1>2. usage' \in [0..LastDay -> [Participants -> Nat]]
  BY <1>0, <1>1 DEF FeedbackTyped
<1> QED BY <1>1, <1>2 DEF Counted

(* A spent reservation counts as a held one.                                *)
LEMMA SpentCounts ==
  ASSUME FeedbackTyped, Counted, NEW r \in Analyses, slot[r].state = "held", slot' = [slot EXCEPT ![r].state = "spent"],
         usage' = usage
  PROVE  Counted'
<1>1. \A m \in 0..LastDay, u \in Participants : Paying(slot', m, u) = Paying(slot, m, u)
  BY DEF Paying, FeedbackTyped, SlotType
<1> QED BY <1>1 DEF Counted

(* A request that goes on without touching reservations.                    *)
Goes(r) ==
  \/ Feedback!RecordConsent(r) \/ Feedback!VerifyConsent(r) \/ Feedback!ReadQuotas(r)
  \/ Feedback!Answer(r) \/ Feedback!StoreFeedback(r) \/ Feedback!CountCall(r) \/ Feedback!Crash(r)

LEMMA MovesOne ==
  ASSUME FeedbackTyped, NEW r \in Analyses, NEW phase \in Waiting \cup Opened \cup {"reserved", "failed", "done"},
         analysis[r].phase # "idle", Feedback!To(r, phase)
  PROVE  /\ analysis' \in [Analyses -> AnalysisType]
         /\ \A x \in Analyses : analysis'[x].phase = "idle" \/ analysis'[x].user \in Participants
         /\ analysis'[r].phase = phase /\ \A x \in Analyses \ {r} : analysis'[x] = analysis[x]
<1>1. analysis[r] \in AnalysisType /\ analysis \in [Analyses -> AnalysisType]
  BY DEF FeedbackTyped
<1>2. analysis' = [analysis EXCEPT ![r] = [analysis[r] EXCEPT !.phase = phase]]
  BY <1>1 DEF Feedback!To
<1>3. [analysis[r] EXCEPT !.phase = phase] \in AnalysisType
  BY <1>1 DEF AnalysisType
<1>4. analysis'[r].user = analysis[r].user /\ analysis'[r].phase = phase
  BY <1>1, <1>2 DEF AnalysisType
<1> QED BY <1>1, <1>2, <1>3, <1>4 DEF FeedbackTyped

LEMMA GoesOn ==
  ASSUME FeedbackTyped, NEW r \in Analyses, Goes(r)
  PROVE  /\ UNCHANGED <<slot, usage, paired, day>>
         /\ analysis' \in [Analyses -> AnalysisType]
         /\ \A x \in Analyses : analysis'[x].phase = "idle" \/ analysis'[x].user \in Participants
         /\ \A x \in Analyses \ {r} : analysis'[x] = analysis[x]
         /\ analysis'[r].phase \in Waiting => analysis[r].phase \in Waiting
         /\ analysis'[r].phase \in Opened => analysis[r].phase \in Opened
         /\ analysis'[r].phase # "reserved"
         /\ analysis[r].phase = "answered" /\ analysis'[r].phase = "stored" => Feedback!Guarded
         /\ consent' \in [Participants -> ConsentChoices]
         /\ \A u \in Participants : consent[u] \in {"withdrawn", "lapsed"} => consent'[u] = consent[u]
<1>0. UNCHANGED <<slot, usage, paired, day>>
  BY DEF Goes, Feedback!RecordConsent, Feedback!VerifyConsent, Feedback!ReadQuotas,
     Feedback!Answer, Feedback!StoreFeedback, Feedback!CountCall, Feedback!Crash
<1>1. /\ consent' \in [Participants -> ConsentChoices]
      /\ \A u \in Participants : consent[u] \in {"withdrawn", "lapsed"} => consent'[u] = consent[u]
  <2>1. CASE consent' = consent
    BY <2>1 DEF FeedbackTyped
  <2>2. CASE consent' = Feedback!Backstop(analysis[r].user)
    BY <2>2 DEF FeedbackTyped, Feedback!Backstop, ConsentChoices
  <2> QED BY <2>1, <2>2 DEF Goes, Feedback!RecordConsent, Feedback!VerifyConsent, Feedback!ReadQuotas,
       Feedback!Answer, Feedback!StoreFeedback, Feedback!CountCall, Feedback!Crash
<1>2. CASE Feedback!ReadQuotas(r)
  <2>1. PICK phase \in {"allowed", "done"} :
           analysis' = [analysis EXCEPT ![r] = [analysis[r] EXCEPT !.day = day, !.phase = phase]]
    BY <1>2 DEF Feedback!ReadQuotas, FeedbackTyped
  <2>2. analysis[r] \in AnalysisType /\ analysis \in [Analyses -> AnalysisType] /\ day \in 0..LastDay
    BY DEF FeedbackTyped
  <2>3. [analysis[r] EXCEPT !.day = day, !.phase = phase] \in AnalysisType
    BY <2>2 DEF AnalysisType, Waiting
  <2>4. /\ analysis'[r].user = analysis[r].user /\ analysis'[r].phase = phase
        /\ analysis[r].phase = "consented"
    BY <1>2, <2>1, <2>2 DEF AnalysisType, Feedback!ReadQuotas, Feedback!At
  <2> QED BY <1>0, <1>1, <2>1, <2>2, <2>3, <2>4 DEF FeedbackTyped, Waiting, Opened
<1>3. CASE ~Feedback!ReadQuotas(r)
  <2>1. \E phase \in {"recorded", "consented", "done", "answered", "stored", "counted"} :
          /\ Feedback!To(r, phase) /\ analysis[r].phase # "idle"
          /\ phase = "recorded" => analysis[r].phase = "resolved"
          /\ phase = "consented" => analysis[r].phase = "recorded"
          /\ phase = "answered" => analysis[r].phase = "open"
          /\ phase = "stored" => analysis[r].phase = "answered" /\ Feedback!Guarded
          /\ phase = "counted" => analysis[r].phase = "stored"
    BY <1>3 DEF Goes, Feedback!RecordConsent, Feedback!VerifyConsent, Feedback!At,
       Feedback!Answer, Feedback!StoreFeedback, Feedback!CountCall, Feedback!Crash
  <2>2. PICK phase \in {"recorded", "consented", "done", "answered", "stored", "counted"} :
          /\ Feedback!To(r, phase) /\ analysis[r].phase # "idle"
          /\ phase = "recorded" => analysis[r].phase = "resolved"
          /\ phase = "consented" => analysis[r].phase = "recorded"
          /\ phase = "answered" => analysis[r].phase = "open"
          /\ phase = "stored" => analysis[r].phase = "answered" /\ Feedback!Guarded
          /\ phase = "counted" => analysis[r].phase = "stored"
    BY <2>1
  <2>3. phase \in Waiting \cup Opened \cup {"reserved", "failed", "done"}
    BY DEF Waiting, Opened
  <2>4. /\ analysis' \in [Analyses -> AnalysisType]
        /\ \A x \in Analyses : analysis'[x].phase = "idle" \/ analysis'[x].user \in Participants
        /\ analysis'[r].phase = phase /\ \A x \in Analyses \ {r} : analysis'[x] = analysis[x]
    BY <2>2, <2>3, MovesOne
  <2> QED BY <1>0, <1>1, <2>2, <2>4 DEF Waiting, Opened
<1> QED BY <1>2, <1>3

LEMMA FeedbackKept == ASSUME Feedback!AiConstants, FeedbackInv, Feedback!Next PROVE FeedbackInv'
<1>0. /\ FeedbackTyped /\ SlotsFollow /\ Counted
      /\ LastDay \in Nat /\ MonthOf \in [0..LastDay -> 0..LastDay]
      /\ day \in 0..LastDay /\ Feedback!Month \in 0..LastDay
  BY DEF FeedbackInv, Feedback!AiConstants, FeedbackTyped, Feedback!Month
<1>1. CASE \/ \E u \in Participants : Feedback!GiveConsent(u) \/ Feedback!Withdraw(u)
           \/ Feedback!Lapse \/ Feedback!LoseAccess \/ Feedback!NextDay
  <2>1. UNCHANGED <<analysis, slot, usage, pool>>
    BY <1>1 DEF Feedback!GiveConsent, Feedback!Withdraw, Feedback!Lapse, Feedback!LoseAccess, Feedback!NextDay
  <2>2. consent' \in [Participants -> ConsentChoices] /\ paired' \in BOOLEAN
    BY <1>0, <1>1 DEF FeedbackTyped, ConsentChoices, Feedback!GiveConsent, Feedback!Withdraw, Feedback!Lapse, Feedback!LoseAccess, Feedback!NextDay
  <2>3. day' \in 0..LastDay
    BY <1>0, <1>1 DEF Feedback!GiveConsent, Feedback!Withdraw, Feedback!Lapse, Feedback!LoseAccess, Feedback!NextDay
  <2>4. FeedbackTyped'
    BY <1>0, <2>1, <2>2, <2>3 DEF FeedbackTyped
  <2> QED BY <1>0, <2>1, <2>4 DEF FeedbackInv, SlotsFollow, Counted
<1>2. ASSUME NEW r \in Analyses, Goes(r) PROVE FeedbackInv'
  <2>1. pool' \in [0..LastDay -> Nat]
    <3>1. analysis[r].day \in 0..LastDay
      BY <1>0 DEF FeedbackTyped, AnalysisType
    <3>2. pool' = pool \/ pool' = [pool EXCEPT ![analysis[r].day] = @ + 1]
      BY <1>2 DEF Goes, Feedback!RecordConsent, Feedback!VerifyConsent, Feedback!ReadQuotas,
         Feedback!Answer, Feedback!StoreFeedback, Feedback!CountCall, Feedback!Crash
    <3>3. pool \in [0..LastDay -> Nat] /\ pool[analysis[r].day] \in Nat
      BY <1>0, <3>1 DEF FeedbackTyped
    <3>4. CASE pool' = pool
      BY <3>3, <3>4
    <3>5. CASE pool' = [pool EXCEPT ![analysis[r].day] = @ + 1]
      <4>1. pool[analysis[r].day] + 1 \in Nat
        BY <3>3
      <4> QED BY <3>3, <3>5, <4>1
    <3> QED BY <3>2, <3>4, <3>5
  <2>2. FeedbackTyped'
    BY <1>0, <1>2, <2>1, GoesOn DEF FeedbackTyped
  <2>3. SlotsFollow'
    BY <1>0, <1>2, GoesOn DEF SlotsFollow
  <2>4. Counted'
    BY <1>0, <1>2, GoesOn DEF Counted
  <2> QED BY <2>2, <2>3, <2>4 DEF FeedbackInv
<1>6. ASSUME NEW r \in Analyses, NEW u \in Participants, Feedback!Start(r, u) PROVE FeedbackInv'
  <2>1. /\ UNCHANGED <<paired, consent, slot, usage, pool, day>> /\ analysis[r].phase = "idle"
        /\ analysis' = [analysis EXCEPT ![r] = [phase |-> "resolved", user |-> u, day |-> 0]]
    BY <1>6 DEF Feedback!Start, Feedback!At
  <2>4. [phase |-> "resolved", user |-> u, day |-> 0] \in AnalysisType
    BY <1>0 DEF AnalysisType, Waiting
  <2>5. analysis' \in [Analyses -> AnalysisType]
    BY <1>0, <2>1, <2>4 DEF FeedbackTyped
  <2>6. \A x \in Analyses : analysis'[x].phase = "idle" \/ analysis'[x].user \in Participants
    BY <1>0, <2>1 DEF FeedbackTyped
  <2>2. FeedbackTyped'
    BY <1>0, <2>1, <2>5, <2>6 DEF FeedbackTyped
  <2>3. SlotsFollow'
    BY <1>0, <2>1 DEF SlotsFollow, FeedbackTyped, Waiting, Opened
  <2> QED BY <1>0, <2>1, <2>2, <2>3 DEF FeedbackInv, Counted
<1>3. ASSUME NEW r \in Analyses, Feedback!Reserve(r) PROVE FeedbackInv'
  <2> DEFINE u == analysis[r].user
             t == [state |-> "held", user |-> u, month |-> Feedback!Month]
  <2>1. u \in Participants /\ slot[r].state = "none" /\ t \in SlotType
    BY <1>0, <1>3 DEF FeedbackTyped, SlotsFollow, Feedback!Reserve, Feedback!At, Waiting, SlotType
  <2>4. analysis[r].phase # "idle"
    BY <1>3 DEF Feedback!Reserve, Feedback!At
  <2>2. CASE paired /\ Feedback!WithinMonth(u)
    <3>1. /\ slot' = [slot EXCEPT ![r] = t] /\ usage' = [usage EXCEPT ![t.month][t.user] = @ + 1]
          /\ usage[t.month][t.user] < MonthlyLimit
          /\ analysis' = [analysis EXCEPT ![r].phase = "reserved"]
      BY <1>3, <2>2 DEF Feedback!Reserve, Feedback!WithinMonth, Feedback!To
    <3>2. Counted'
      <4> HIDE DEF t, u
      <4> QED BY <1>0, <2>1, <3>1, OneMore DEF t
    <3>3. FeedbackTyped'
      <4>1. usage' \in [0..LastDay -> [Participants -> Nat]]
        BY <1>0, <2>1, <3>1 DEF FeedbackTyped
      <4>2. slot' \in [Analyses -> SlotType] /\ \A x \in Analyses : slot'[x].state = "none" \/ slot'[x].user \in Participants
        BY <1>0, <2>1, <3>1 DEF FeedbackTyped
      <4> QED BY <1>0, <1>3, <2>4, <3>1, <4>1, <4>2, MovesOne DEF FeedbackTyped, Feedback!Reserve, Feedback!To
    <3>4. SlotsFollow'
      BY <1>0, <2>4, <3>1, MovesOne DEF SlotsFollow, FeedbackTyped, Waiting, Opened, Feedback!To
    <3> QED BY <3>2, <3>3, <3>4 DEF FeedbackInv
  <2>3. CASE ~(paired /\ Feedback!WithinMonth(u))
    <3>1. UNCHANGED <<slot, usage, paired, consent, pool, day>> /\ analysis' = [analysis EXCEPT ![r].phase = "done"]
      BY <1>3, <2>3 DEF Feedback!Reserve, Feedback!To
    <3>2. FeedbackTyped' /\ SlotsFollow'
      BY <1>0, <2>1, <3>1 DEF SlotsFollow, FeedbackTyped, AnalysisType, Waiting, Opened
    <3> QED BY <1>0, <3>1, <3>2 DEF FeedbackInv, Counted
  <2> QED BY <2>2, <2>3
<1>4. ASSUME NEW r \in Analyses, Feedback!OpenSession(r) \/ Feedback!SessionFails(r) PROVE FeedbackInv'
  <2>1. /\ slot[r].state = "held" /\ UNCHANGED <<paired, consent, usage, pool, day>>
        /\ slot' \in {slot, [slot EXCEPT ![r].state = "spent"]}
        /\ \/ analysis' = [analysis EXCEPT ![r].phase = "failed"]
           \/ analysis' = [analysis EXCEPT ![r].phase = "open"] /\ slot' = [slot EXCEPT ![r].state = "spent"]
    BY <1>0, <1>4 DEF Feedback!OpenSession, Feedback!SessionFails, Feedback!At, Feedback!To, SlotsFollow
  <2>2. analysis[r].user \in Participants /\ slot[r].user \in Participants
    BY <1>0, <1>4, <2>1 DEF FeedbackTyped, Feedback!OpenSession, Feedback!SessionFails, Feedback!At
  <2>6. PICK phase \in {"failed", "open"} : /\ Feedback!To(r, phase)
                                            /\ phase = "open" => slot' = [slot EXCEPT ![r].state = "spent"]
    BY <2>1 DEF Feedback!To
  <2>7. phase \in Waiting \cup Opened \cup {"reserved", "failed", "done"} /\ analysis[r].phase # "idle"
    BY <1>4 DEF Waiting, Opened, Feedback!OpenSession, Feedback!SessionFails, Feedback!At
  <2>8. /\ analysis' \in [Analyses -> AnalysisType]
        /\ \A x \in Analyses : analysis'[x].phase = "idle" \/ analysis'[x].user \in Participants
        /\ analysis'[r].phase = phase /\ \A x \in Analyses \ {r} : analysis'[x] = analysis[x]
    BY <1>0, <2>6, <2>7, MovesOne
  <2>9. /\ slot' \in [Analyses -> SlotType] /\ \A x \in Analyses : slot'[x].state = "none" \/ slot'[x].user \in Participants
        /\ \A x \in Analyses \ {r} : slot'[x] = slot[x]
        /\ phase = "open" => slot'[r].state = "spent"
    <3>1. slot \in [Analyses -> SlotType] /\ slot[r] \in SlotType
      BY <1>0 DEF FeedbackTyped
    <3>2. CASE slot' = slot
      <4>1. phase = "open" => slot'[r].state = "spent"
        BY <2>6, <3>1 DEF SlotType
      <4> QED BY <1>0, <3>1, <3>2, <4>1 DEF FeedbackTyped
    <3>3. CASE slot' = [slot EXCEPT ![r] = [slot[r] EXCEPT !.state = "spent"]]
      <4>1. [slot[r] EXCEPT !.state = "spent"] \in SlotType
        BY <3>1 DEF SlotType
      <4>2. slot'[r].user = slot[r].user /\ slot'[r].state = "spent"
        BY <3>1, <3>3 DEF SlotType
      <4> QED BY <1>0, <2>2, <3>1, <3>3, <4>1, <4>2 DEF FeedbackTyped
    <3>4. slot' = slot \/ slot' = [slot EXCEPT ![r] = [slot[r] EXCEPT !.state = "spent"]]
      BY <2>1, <3>1
    <3> QED BY <3>2, <3>3, <3>4
  <2>3. FeedbackTyped'
    BY <1>0, <2>1, <2>8, <2>9 DEF FeedbackTyped
  <2>4. SlotsFollow'
    BY <1>0, <2>8, <2>9 DEF SlotsFollow, Waiting, Opened
  <2>5. Counted'
    BY <1>0, <2>1, SpentCounts DEF Counted
  <2> QED BY <2>3, <2>4, <2>5 DEF FeedbackInv
<1>5. ASSUME NEW r \in Analyses, Feedback!Refund(r) PROVE FeedbackInv'
  <2>1. /\ analysis[r].phase = "failed" /\ analysis' = [analysis EXCEPT ![r].phase = "done"]
        /\ UNCHANGED <<paired, consent, pool, day>>
    BY <1>5 DEF Feedback!Refund, Feedback!At, Feedback!To
  <2>4. /\ analysis' \in [Analyses -> AnalysisType]
        /\ \A x \in Analyses : analysis'[x].phase = "idle" \/ analysis'[x].user \in Participants
        /\ analysis'[r].phase = "done" /\ \A x \in Analyses \ {r} : analysis'[x] = analysis[x]
    BY <1>0, <2>1, MovesOne DEF Feedback!To
  <2>2. CASE slot[r].state = "held"
    <3>1. /\ slot' = [slot EXCEPT ![r].state = "refunded"]
          /\ usage' = [usage EXCEPT ![slot[r].month][slot[r].user] = @ - 1]
      BY <1>5, <2>2 DEF Feedback!Refund, Feedback!Refundable
    <3>2. Counted' /\ usage' \in [0..LastDay -> [Participants -> Nat]]
      BY <1>0, <2>2, <3>1, OneLess
    <3>4. /\ slot' \in [Analyses -> SlotType] /\ \A x \in Analyses : slot'[x].state = "none" \/ slot'[x].user \in Participants
          /\ \A x \in Analyses \ {r} : slot'[x] = slot[x]
      BY <1>0, <2>2, <3>1 DEF FeedbackTyped, SlotType
    <3>3. FeedbackTyped' /\ SlotsFollow'
      BY <1>0, <2>1, <2>4, <3>2, <3>4 DEF SlotsFollow, FeedbackTyped, Waiting, Opened
    <3> QED BY <3>2, <3>3 DEF FeedbackInv
  <2>3. CASE slot[r].state # "held"
    <3>1. UNCHANGED <<slot, usage>>
      BY <1>5, <2>3 DEF Feedback!Refund, Feedback!Refundable
    <3>2. FeedbackTyped' /\ SlotsFollow'
      BY <1>0, <2>1, <2>4, <3>1 DEF SlotsFollow, FeedbackTyped, Waiting, Opened
    <3> QED BY <1>0, <3>1, <3>2 DEF FeedbackInv, Counted
  <2> QED BY <2>2, <2>3
<1> QED BY <1>1, <1>2, <1>3, <1>4, <1>5, <1>6 DEF Feedback!Next, Goes

(* The monthly count is that of the reservations and never passes the limit, *)
(* and a session is always paid for, for any participants, analyses, limits  *)
(* and crashes between two statements (api/ai.js).                          *)
THEOREM QuotasAreExact ==
  ASSUME Feedback!AiConstants PROVE Feedback!Spec => [](Feedback!TypeOK /\ Feedback!QuotaIsExact)
<1>1. Feedback!Init => FeedbackInv
  BY FeedbackBegins
<1>2. FeedbackInv /\ [Feedback!Next]_(Feedback!aiVars) => FeedbackInv'
  <2>1. FeedbackInv /\ UNCHANGED Feedback!aiVars => FeedbackInv'
    BY DEF Feedback!aiVars, FeedbackInv, FeedbackTyped, SlotsFollow, Counted
  <2> QED BY <2>1, FeedbackKept
<1>3. FeedbackInv => Feedback!TypeOK
  BY DEF FeedbackInv, FeedbackTyped, Feedback!TypeOK, SlotType, ConsentChoices
<1>4. FeedbackInv => Feedback!QuotaIsExact
  <2> SUFFICES ASSUME FeedbackInv PROVE Feedback!QuotaIsExact
    OBVIOUS
  <2>1. \A S : Feedback!Cardinality(S) = Cardinality(S)
    BY Zenon DEF Feedback!Cardinality, Cardinality
  <2> QED BY <2>1 DEF FeedbackInv, Feedback!QuotaIsExact, Counted, Paying, SlotsFollow, Opened
<1> QED BY <1>1, <1>2, <1>3, <1>4, PTL DEF Feedback!Spec

(* Feedback is stored only while everybody in the room consents, a choice    *)
(* that was taken back is restored by its owner's own request, and what a    *)
(* session used stays paid (api/ai.js).                                     *)
THEOREM ConsentHolds ==
  ASSUME Feedback!AiConstants
  PROVE  Feedback!Spec => [][Feedback!ConsentIsHeld /\ Feedback!SessionsStayPaid]_(Feedback!aiVars)
<1>1. Feedback!Init => FeedbackInv
  BY FeedbackBegins
<1>2. FeedbackInv /\ [Feedback!Next]_(Feedback!aiVars) => FeedbackInv'
  <2>1. FeedbackInv /\ UNCHANGED Feedback!aiVars => FeedbackInv'
    BY DEF Feedback!aiVars, FeedbackInv, FeedbackTyped, SlotsFollow, Counted
  <2> QED BY <2>1, FeedbackKept
<1>3. ASSUME FeedbackInv, Feedback!Next PROVE Feedback!ConsentIsHeld /\ Feedback!SessionsStayPaid
  <2>0. FeedbackTyped /\ SlotsFollow
    BY <1>3 DEF FeedbackInv
  <2>1. CASE \/ \E u \in Participants : Feedback!GiveConsent(u) \/ Feedback!Withdraw(u)
             \/ Feedback!Lapse \/ Feedback!LoseAccess \/ Feedback!NextDay
    BY <2>0, <2>1 DEF Feedback!GiveConsent, Feedback!Withdraw, Feedback!Lapse, Feedback!LoseAccess, Feedback!NextDay,
       Feedback!ConsentIsHeld, Feedback!SessionsStayPaid, FeedbackTyped
  <2>2. ASSUME NEW r \in Analyses, Goes(r) \/ \E u \in Participants : Feedback!Start(r, u)
        PROVE Feedback!ConsentIsHeld /\ Feedback!SessionsStayPaid
    <3>1. CASE Goes(r)
      BY <2>0, <3>1, GoesOn DEF Feedback!ConsentIsHeld, Feedback!SessionsStayPaid, Feedback!Guarded
    <3>2. CASE \E u \in Participants : Feedback!Start(r, u)
      BY <2>0, <3>2 DEF Feedback!Start, Feedback!At, Feedback!ConsentIsHeld, Feedback!SessionsStayPaid, FeedbackTyped
    <3> QED BY <2>2, <3>1, <3>2
  <2>3. ASSUME NEW r \in Analyses, Feedback!Reserve(r) \/ Feedback!OpenSession(r) \/ Feedback!SessionFails(r) \/ Feedback!Refund(r)
        PROVE Feedback!ConsentIsHeld /\ Feedback!SessionsStayPaid
    <3>1. consent' = consent /\ \A x \in Analyses : analysis'[x].phase = "stored" => analysis[x].phase = "stored"
      <4>1. PICK phase \in {"reserved", "open", "failed", "done"} : Feedback!To(r, phase) /\ analysis[r].phase # "idle"
        BY <2>3 DEF Feedback!Reserve, Feedback!OpenSession, Feedback!SessionFails, Feedback!Refund, Feedback!At
      <4>2. phase \in Waiting \cup Opened \cup {"reserved", "failed", "done"}
        BY DEF Opened
      <4>3. analysis'[r].phase = phase /\ \A x \in Analyses \ {r} : analysis'[x] = analysis[x]
        BY <2>0, <4>1, <4>2, MovesOne
      <4>4. consent' = consent
        BY <2>3 DEF Feedback!Reserve, Feedback!OpenSession, Feedback!SessionFails, Feedback!Refund
      <4> QED BY <4>3, <4>4
    <3>2. slot[r].state = "spent" => slot'[r].state = "spent"
      BY <2>0, <2>3 DEF Feedback!Reserve, Feedback!OpenSession, Feedback!SessionFails, Feedback!Refund, Feedback!Refundable, Feedback!At,
         SlotsFollow, Waiting, FeedbackTyped, SlotType
    <3>3. \A x \in Analyses \ {r} : slot'[x] = slot[x]
      BY <2>0, <2>3 DEF Feedback!Reserve, Feedback!OpenSession, Feedback!SessionFails, Feedback!Refund, FeedbackTyped
    <3> QED BY <3>1, <3>2, <3>3 DEF Feedback!ConsentIsHeld, Feedback!SessionsStayPaid
  <2> QED BY <1>3, <2>1, <2>2, <2>3 DEF Feedback!Next, Goes
<1>4. FeedbackInv /\ [Feedback!Next]_(Feedback!aiVars) =>
        [Feedback!ConsentIsHeld /\ Feedback!SessionsStayPaid]_(Feedback!aiVars)
  BY <1>3
<1> QED BY <1>1, <1>2, <1>4, PTL DEF Feedback!Spec

-----------------------------------------------------------------------------
(* Key rotation.                                                            *)
CONSTANTS Rings, Instances, Operators, Letters, None, MaxOperations, MaxDeploys
VARIABLES control, ring, approval, letter, work, accepted, retired, deploys

Rotation == INSTANCE KeyRotation

Materials == UNION {Rotation!KeysOf(r) : r \in Rings}
LetterType == [status : {"none", "actionable", "retained", "gone"}, form : 0..2,
               key : Materials \cup {None}, approved : BOOLEAN]
WorkType == [step : {"idle", "asked", "ok", "failed", "unanswered", "accepted", "reported"},
             operation : {None, "adopt", "advance", "status"}, ring : Rings \cup {None},
             version : Nat, generation : Nat, asked : Nat]

RotationTyped ==
  /\ ring \in [Instances -> Rings] /\ approval \in [Instances -> Rings \cup {None}]
  /\ letter \in [Letters -> LetterType] /\ work \in [Operators -> WorkType]
  /\ accepted \subseteq Materials /\ retired \subseteq Materials
  /\ \A o \in Operators : work[o].step # "idle" => work[o].ring \in Rings

(* The control goes through the accepted keys upwards.                      *)
ControlClimbs ==
  /\ IsFiniteSet(accepted) /\ control.generation = Cardinality(accepted)
  /\ control.key = None <=> accepted = {}
  /\ control.key # None => control.key \in accepted
  /\ \A k \in accepted : k.version <= control.key.version
  /\ \A j, k \in accepted : j.version = k.version => j = k

(* What was accepted when somebody looked was accepted.                     *)
LooksAreTrue ==
  /\ \A i \in Instances : approval[i] # None => Rotation!ActiveKey(approval[i]) \in accepted
  /\ \A o \in Operators : work[o].step \in {"ok", "accepted", "reported"} => Rotation!ActiveKey(work[o].ring) \in accepted
  /\ \A l \in Letters : letter[l].form = 2 => letter[l].key \in accepted

(* A key that was taken away is behind the control.                         *)
RetiredAreBehind == \A k \in retired : control.key # None /\ k.version < control.key.version

RotationInv == RotationTyped /\ ControlClimbs /\ LooksAreTrue /\ RetiredAreBehind /\ Rotation!IssuedStayOpenable

LEMMA RingFacts ==
  ASSUME Rotation!KeyConstants, NEW r \in Rings
  PROVE  /\ Rotation!ActiveKey(r) \in Rotation!KeysOf(r) /\ Rotation!ActiveKey(r) # None
         /\ Rotation!KeysOf(r) \subseteq Materials /\ r.active \in Nat /\ r.write \in {1, 2}
         /\ Rotation!ActiveKey(r).version = r.active
         /\ \A k \in Rotation!KeysOf(r) : k.version \in Nat
BY DEF Rotation!KeyConstants, Rotation!Parsed, Rotation!ActiveKey, Rotation!KeysOf, Rotation!Key, Materials

LEMMA MaterialFacts == ASSUME Rotation!KeyConstants PROVE None \notin Materials /\ \A k \in Materials : k.version \in Nat
BY RingFacts DEF Rotation!KeyConstants, Materials

LEMMA SealedFacts ==
  ASSUME Rotation!KeyConstants, NEW r \in Rings, NEW a \in BOOLEAN
  PROVE  /\ Rotation!Sealed(r, a) \in LetterType /\ Rotation!Sealed(r, a).key = Rotation!ActiveKey(r)
         /\ Rotation!Sealed(r, a).approved = a
BY RingFacts DEF Rotation!Sealed, LetterType

LEMMA RotationBegins == ASSUME Rotation!KeyConstants, Rotation!Init PROVE RotationInv
<1>1. RotationTyped
  <2>1. ring \in [Instances -> Rings] /\ approval \in [Instances -> Rings \cup {None}]
    BY DEF Rotation!Init
  <2>2. letter \in [Letters -> LetterType]
    <3>1. Rotation!NoLetter \in LetterType
      BY DEF Rotation!NoLetter, LetterType
    <3>2. \A r \in Rings : Rotation!Sealed(r, FALSE) \in LetterType
      BY SealedFacts
    <3>3. {Rotation!NoLetter} \cup {Rotation!Sealed(r, FALSE) : r \in {r \in Rings : r.active = 1 /\ r.write = 1}} \subseteq LetterType
      BY <3>1, <3>2
    <3> QED BY <3>3 DEF Rotation!Init
  <2>3. Rotation!NoWork \in WorkType /\ Rotation!NoWork.step = "idle"
    BY DEF Rotation!NoWork, WorkType
  <2>4. work \in [Operators -> WorkType] /\ \A o \in Operators : work[o].step = "idle"
    BY <2>3 DEF Rotation!Init
  <2> QED BY <2>1, <2>2, <2>4 DEF RotationTyped, Rotation!Init
<1>2. ControlClimbs
  BY FS_EmptySet DEF ControlClimbs, Rotation!Init
<1>3. LooksAreTrue
  BY DEF LooksAreTrue, Rotation!Init, Rotation!NoWork, Rotation!NoLetter, Rotation!Sealed
<1> QED BY <1>1, <1>2, <1>3 DEF RotationInv, RetiredAreBehind, Rotation!IssuedStayOpenable, Rotation!Init

(* A letter sealed with the accepted key.                                   *)
LEMMA SealedNow ==
  ASSUME Rotation!KeyConstants, RotationInv, NEW l \in Letters, NEW r \in Rings, NEW a \in BOOLEAN,
         Rotation!ActiveKey(r) \in accepted, a \/ Rotation!Accepts(r),
         letter' = [letter EXCEPT ![l] = Rotation!Sealed(r, a)], approval' \in [Instances -> Rings \cup {None}],
         \A i \in Instances : approval'[i] \in {None, approval[i]},
         UNCHANGED <<control, ring, work, accepted, retired>>
  PROVE  RotationInv'
<1>0. RotationTyped /\ ControlClimbs /\ LooksAreTrue /\ RetiredAreBehind /\ Rotation!IssuedStayOpenable
  BY DEF RotationInv
<1>1. /\ Rotation!Sealed(r, a) \in LetterType /\ Rotation!Sealed(r, a).key = Rotation!ActiveKey(r)
      /\ Rotation!Sealed(r, a).approved = a
  BY SealedFacts
<1>2. letter'[l] = Rotation!Sealed(r, a) /\ \A x \in Letters \ {l} : letter'[x] = letter[x]
  BY <1>0 DEF RotationTyped
<1>3. RotationTyped'
  BY <1>0, <1>1 DEF RotationTyped
<1>4. LooksAreTrue'
  BY <1>0, <1>1, <1>2 DEF LooksAreTrue
<1>5. Rotation!IssuedStayOpenable'
  <2> SUFFICES ASSUME NEW x \in Letters, letter'[x].status \in {"actionable", "retained"}, NEW k \in retired, letter'[x].key = k
               PROVE letter'[x].approved
    BY DEF Rotation!IssuedStayOpenable, Rotation!Held
  <2>1. CASE x = l
    <3>1. k.version < control.key.version /\ k.version \in Nat
      BY <1>0, MaterialFacts DEF RetiredAreBehind, RotationTyped
    <3>2. ~Rotation!Accepts(r)
      BY <1>1, <1>2, <2>1, <3>1 DEF Rotation!Accepts
    <3> QED BY <1>1, <1>2, <2>1, <3>2
  <2>2. CASE x # l
    BY <1>0, <1>2, <2>2 DEF Rotation!IssuedStayOpenable, Rotation!Held
  <2> QED BY <2>1, <2>2
<1> QED BY <1>0, <1>3, <1>4, <1>5 DEF RotationInv, ControlClimbs, RetiredAreBehind

(* A letter that is delivered or ends.                                      *)
LEMMA LetterMoves ==
  ASSUME RotationInv, NEW l \in Letters, letter[l].status \in {"actionable", "retained"}, NEW status \in {"retained", "gone"},
         letter' = [letter EXCEPT ![l].status = status], UNCHANGED <<control, ring, approval, work, accepted, retired>>
  PROVE  RotationInv'
<1>0. RotationTyped /\ ControlClimbs /\ LooksAreTrue /\ RetiredAreBehind /\ Rotation!IssuedStayOpenable
  BY DEF RotationInv
<1>1. letter \in [Letters -> LetterType] /\ letter[l] \in LetterType
  BY <1>0 DEF RotationTyped
<1>2. letter' = [letter EXCEPT ![l] = [letter[l] EXCEPT !.status = status]]
  BY <1>1
<1>3. [letter[l] EXCEPT !.status = status] \in LetterType
  BY <1>1 DEF LetterType
<1>4. /\ letter'[l].form = letter[l].form /\ letter'[l].key = letter[l].key /\ letter'[l].approved = letter[l].approved
      /\ \A x \in Letters \ {l} : letter'[x] = letter[x]
  BY <1>1, <1>2 DEF LetterType
<1>5. RotationTyped'
  BY <1>0, <1>1, <1>2, <1>3 DEF RotationTyped
<1>6. LooksAreTrue'
  BY <1>0, <1>4 DEF LooksAreTrue
<1>7. Rotation!IssuedStayOpenable'
  BY <1>0, <1>4 DEF Rotation!IssuedStayOpenable, Rotation!Held
<1> QED BY <1>0, <1>5, <1>6, <1>7 DEF RotationInv, ControlClimbs, RetiredAreBehind

(* What an operator does to itself.                                         *)
LEMMA OperatorMoves ==
  ASSUME RotationTyped, NEW o \in Operators, NEW t \in WorkType, t.step # "idle" => t.ring \in Rings,
         work' = [work EXCEPT ![o] = t], UNCHANGED <<ring, approval, letter>>,
         accepted' \subseteq Materials, retired' \subseteq Materials
  PROVE  RotationTyped' /\ work'[o] = t /\ \A x \in Operators \ {o} : work'[x] = work[x]
BY DEF RotationTyped

LEMMA OperatorOnly ==
  ASSUME RotationInv, NEW o \in Operators, NEW t \in WorkType, t.step # "idle" => t.ring \in Rings,
         t.step \in {"ok", "accepted", "reported"} => Rotation!ActiveKey(t.ring) \in accepted,
         work' = [work EXCEPT ![o] = t], UNCHANGED <<control, ring, approval, letter, accepted, retired>>
  PROVE  RotationInv'
<1>0. RotationTyped /\ ControlClimbs /\ LooksAreTrue /\ RetiredAreBehind /\ Rotation!IssuedStayOpenable
  BY DEF RotationInv
<1>1. RotationTyped' /\ work'[o] = t /\ \A x \in Operators \ {o} : work'[x] = work[x]
  BY <1>0, OperatorMoves DEF RotationTyped
<1>2. LooksAreTrue'
  BY <1>0, <1>1 DEF LooksAreTrue
<1> QED BY <1>0, <1>1, <1>2 DEF RotationInv, ControlClimbs, RetiredAreBehind, Rotation!IssuedStayOpenable, Rotation!Held

LEMMA Steps ==
  ASSUME RotationTyped, NEW o \in Operators, work[o].step # "idle",
         NEW step \in {"ok", "failed", "unanswered", "accepted", "reported"}
  PROVE  LET t == [work[o] EXCEPT !.step = step] IN
           t \in WorkType /\ t.ring = work[o].ring /\ t.ring \in Rings /\ t.step = step
<1>1. work[o] \in WorkType /\ work[o].ring \in Rings
  BY DEF RotationTyped
<1> QED BY <1>1 DEF WorkType

LEMMA AcceptsMeans ==
  ASSUME Rotation!KeyConstants, ControlClimbs, NEW r \in Rings, Rotation!Accepts(r)
  PROVE  Rotation!ActiveKey(r) \in accepted
BY RingFacts DEF Rotation!Accepts, ControlClimbs

(* The control moves to a key of its own.                                   *)
LEMMA ControlMoves ==
  ASSUME Rotation!KeyConstants, RotationInv, NEW o \in Operators, work[o].step = "asked",
         ~Rotation!Accepts(work[o].ring), Rotation!Continues(o),
         control' = [key |-> Rotation!ActiveKey(work[o].ring), generation |-> control.generation + 1],
         accepted' = accepted \cup {Rotation!ActiveKey(work[o].ring)},
         NEW step \in {"ok", "unanswered"}, work' = [work EXCEPT ![o] = [work[o] EXCEPT !.step = step]],
         UNCHANGED <<ring, approval, letter, retired>>
  PROVE  RotationInv'
<1>0. RotationTyped /\ ControlClimbs /\ LooksAreTrue /\ RetiredAreBehind /\ Rotation!IssuedStayOpenable
  BY DEF RotationInv
<1> DEFINE r == work[o].ring
           k == Rotation!ActiveKey(r)
           t == [work[o] EXCEPT !.step = step]
<1>1. r \in Rings /\ t \in WorkType /\ t.ring = r /\ t.step = step
  BY <1>0, Steps
<1>2. /\ k # None /\ k \in Materials /\ k.version = r.active /\ r.active \in Nat
  BY <1>1, RingFacts
<1>3. control'.key = k /\ control'.generation = control.generation + 1
  OBVIOUS
<1>4. \A j \in accepted : j.version < k.version /\ j.version \in Nat
  <2>1. CASE control.key = None
    BY <1>0, <2>1 DEF ControlClimbs
  <2>2. CASE control.key # None
    <3>1. control.key.version < k.version /\ control.key \in accepted
      BY <1>0, <1>2, <2>2 DEF Rotation!Continues, ControlClimbs
    <3>2. \A j \in accepted : j.version \in Nat /\ j.version <= control.key.version
      BY <1>0, MaterialFacts DEF RotationTyped, ControlClimbs
    <3> QED BY <1>2, <3>1, <3>2
  <2> QED BY <2>1, <2>2
<1>5. ControlClimbs'
  <2>1. k \notin accepted
    BY <1>2, <1>4
  <2>2. IsFiniteSet(accepted') /\ Cardinality(accepted') = Cardinality(accepted) + 1
    BY <1>0, <2>1, FS_AddElement DEF ControlClimbs
  <2>3. \A j \in accepted' : j.version <= k.version
    BY <1>2, <1>4
  <2>4. \A i, j \in accepted' : i.version = j.version => i = j
    BY <1>0, <1>2, <1>4 DEF ControlClimbs
  <2> QED BY <1>0, <1>2, <1>3, <2>2, <2>3, <2>4 DEF ControlClimbs
<1>6. RotationTyped' /\ work'[o] = t /\ \A x \in Operators \ {o} : work'[x] = work[x]
  BY <1>0, <1>1, <1>2, OperatorMoves DEF RotationTyped
<1>7. LooksAreTrue'
  BY <1>0, <1>1, <1>6 DEF LooksAreTrue
<1>8. RetiredAreBehind'
  <2> SUFFICES ASSUME NEW x \in retired PROVE x.version < k.version
    BY <1>2, <1>3 DEF RetiredAreBehind
  <2>1. x.version \in Nat /\ control.key # None /\ x.version < control.key.version
    BY <1>0, MaterialFacts DEF RotationTyped, RetiredAreBehind
  <2>2. control.key \in accepted
    BY <1>0, <2>1 DEF ControlClimbs
  <2> QED BY <1>2, <1>4, <2>1, <2>2
<1>9. Rotation!IssuedStayOpenable'
  BY <1>0 DEF Rotation!IssuedStayOpenable, Rotation!Held
<1> QED BY <1>5, <1>6, <1>7, <1>8, <1>9 DEF RotationInv

(* A key is taken away on the strength of a report.                         *)
LEMMA KeysRetire ==
  ASSUME Rotation!KeyConstants, RotationInv, NEW o \in Operators, Rotation!Retire(o)
  PROVE  RotationInv'
<1>0. RotationTyped /\ ControlClimbs /\ LooksAreTrue /\ RetiredAreBehind /\ Rotation!IssuedStayOpenable
  BY DEF RotationInv
<1> DEFINE r == work[o].ring
           t == [work[o] EXCEPT !.step = "reported"]
<1>1. /\ work[o].step = "accepted" /\ work' = [work EXCEPT ![o] = t]
      /\ retired' = retired \cup Rotation!Unused(r)
      /\ UNCHANGED <<control, ring, approval, letter, accepted>>
  BY DEF Rotation!Retire, Rotation!At, Rotation!Done, Rotation!Works
<1>2. r \in Rings /\ t \in WorkType /\ t.ring = r /\ t.step = "reported"
  BY <1>0, <1>1, Steps
<1>3. Rotation!Unused(r) \subseteq Materials /\ \A k \in Rotation!Unused(r) : k.version \in Nat
  BY <1>2, RingFacts DEF Rotation!Unused
<1>4. RotationTyped' /\ work'[o] = t /\ \A x \in Operators \ {o} : work'[x] = work[x]
  BY <1>0, <1>1, <1>2, <1>3, OperatorMoves DEF RotationTyped
<1>5. Rotation!ActiveKey(r) \in accepted /\ Rotation!ActiveKey(r).version = r.active
  BY <1>0, <1>1, <1>2, RingFacts DEF LooksAreTrue
<1>6. LooksAreTrue'
  BY <1>0, <1>1, <1>2, <1>4, <1>5 DEF LooksAreTrue
<1>7. RetiredAreBehind'
  <2>1. control.key # None /\ control.key \in accepted
    BY <1>0, <1>5 DEF ControlClimbs
  <2>2. control.key.version \in Nat /\ r.active <= control.key.version /\ r.active \in Nat
    BY <1>0, <1>2, <1>5, <2>1, MaterialFacts, RingFacts DEF RotationTyped, ControlClimbs
  <2>3. \A k \in Rotation!Unused(r) : k.version < control.key.version
    BY <1>3, <2>2 DEF Rotation!Unused
  <2> QED BY <1>0, <1>1, <2>1, <2>3 DEF RetiredAreBehind
<1>8. Rotation!IssuedStayOpenable'
  <2> SUFFICES ASSUME NEW l \in Rotation!Held, NEW k \in retired', letter[l].key = k PROVE letter[l].approved
    BY <1>1 DEF Rotation!IssuedStayOpenable, Rotation!Held
  <2>1. CASE k \in retired
    BY <1>0, <2>1 DEF Rotation!IssuedStayOpenable
  <2>2. CASE k \in Rotation!Unused(r)
    <3>1. Rotation!Legacy = {} /\ Rotation!Named(k.version) = {}
      BY <2>2 DEF Rotation!Unused, Rotation!MaterialReady
    <3>2. l \in Rotation!Named(k.version)
      BY <3>1 DEF Rotation!Named
    <3> QED BY <3>1, <3>2
  <2> QED BY <1>1, <2>1, <2>2
<1> QED BY <1>0, <1>1, <1>4, <1>6, <1>7, <1>8 DEF RotationInv, ControlClimbs

LEMMA RotationKept == ASSUME Rotation!KeyConstants, RotationInv, Rotation!Next PROVE RotationInv'
<1>0. RotationTyped /\ ControlClimbs /\ LooksAreTrue /\ RetiredAreBehind /\ Rotation!IssuedStayOpenable
  BY DEF RotationInv
<1>1. ASSUME NEW i \in Instances, Rotation!Deploy(i) \/ Rotation!BeginApproval(i) PROVE RotationInv'
  <2>1. UNCHANGED <<control, letter, work, accepted, retired>>
    BY <1>1 DEF Rotation!Deploy, Rotation!BeginApproval
  <2>2. RotationTyped'
    BY <1>0, <1>1, <2>1 DEF RotationTyped, Rotation!Deploy, Rotation!BeginApproval
  <2>3. LooksAreTrue'
    <3>1. CASE Rotation!Deploy(i)
      BY <1>0, <2>1, <3>1 DEF LooksAreTrue, Rotation!Deploy
    <3>2. CASE Rotation!BeginApproval(i)
      <4>1. ring[i] \in Rings /\ approval' = [approval EXCEPT ![i] = ring[i]] /\ Rotation!Accepts(ring[i])
        BY <1>0, <3>2 DEF Rotation!BeginApproval, RotationTyped
      <4>2. Rotation!ActiveKey(ring[i]) \in accepted
        BY <1>0, <4>1, AcceptsMeans
      <4> QED BY <1>0, <2>1, <4>1, <4>2 DEF LooksAreTrue, RotationTyped
    <3> QED BY <1>1, <3>1, <3>2
  <2> QED BY <1>0, <2>1, <2>2, <2>3 DEF RotationInv, ControlClimbs, RetiredAreBehind, Rotation!IssuedStayOpenable, Rotation!Held
<1>2. ASSUME NEW i \in Instances, NEW l \in Letters, Rotation!Issue(i, l) \/ Rotation!Resend(i, l) PROVE RotationInv'
  <2>1. PICK a \in BOOLEAN : letter' = [letter EXCEPT ![l] = Rotation!Sealed(ring[i], a)]
    <3>1. letter[l].approved \in BOOLEAN
      BY <1>0 DEF RotationTyped, LetterType
    <3> QED BY <1>2, <3>1 DEF Rotation!Issue, Rotation!Resend
  <2>2. /\ ring[i] \in Rings /\ Rotation!Accepts(ring[i]) /\ UNCHANGED <<control, ring, approval, work, accepted, retired>>
        /\ approval \in [Instances -> Rings \cup {None}]
    BY <1>0, <1>2 DEF Rotation!Issue, Rotation!Resend, RotationTyped
  <2>3. Rotation!ActiveKey(ring[i]) \in accepted
    BY <1>0, <2>2, AcceptsMeans
  <2> QED BY <2>1, <2>2, <2>3, SealedNow
<1>3. ASSUME NEW i \in Instances, NEW l \in Letters, Rotation!Approve(i, l) PROVE RotationInv'
  <2>1. /\ approval[i] # None /\ approval' = [approval EXCEPT ![i] = None] /\ approval \in [Instances -> Rings \cup {None}]
        /\ letter' = [letter EXCEPT ![l] = Rotation!Sealed(approval[i], TRUE)]
        /\ UNCHANGED <<control, ring, work, accepted, retired>>
    BY <1>0, <1>3 DEF Rotation!Approve, RotationTyped
  <2>2. approval[i] \in Rings /\ Rotation!ActiveKey(approval[i]) \in accepted
    BY <1>0, <2>1 DEF LooksAreTrue
  <2>3. approval' \in [Instances -> Rings \cup {None}] /\ \A j \in Instances : approval'[j] \in {None, approval[j]}
    BY <2>1
  <2> QED BY <2>1, <2>2, <2>3, SealedNow
<1>4. ASSUME NEW i \in Instances, NEW l \in Letters, Rotation!Deliver(i, l) PROVE RotationInv'
  BY <1>4, LetterMoves DEF Rotation!Deliver
<1>5. ASSUME NEW l \in Letters, Rotation!End(l) PROVE RotationInv'
  BY <1>5, LetterMoves DEF Rotation!End, Rotation!Held
<1>6. ASSUME NEW o \in Operators, Rotation!Ask(o) \/ Rotation!Rest(o) PROVE RotationInv'
  <2>0. work[o] \in WorkType /\ work[o].asked \in Nat
    BY <1>0 DEF RotationTyped, WorkType
  <2>1. CASE Rotation!Ask(o)
    <3>1. /\ control.generation \in Nat
          /\ (IF control.key = None THEN 0 ELSE control.key.version) \in Nat
      <4>1. control.generation \in Nat
        BY <1>0, FS_CardinalityType DEF ControlClimbs
      <4>2. control.key # None => control.key.version \in Nat
        BY <1>0, MaterialFacts DEF ControlClimbs, RotationTyped
      <4> QED BY <4>1, <4>2
    <3>2. PICK r \in Rings, operation \in {"adopt", "advance", "status"} :
             work' = [work EXCEPT ![o] = [step |-> "asked", operation |-> operation, ring |-> r,
                        version |-> IF control.key = None THEN 0 ELSE control.key.version,
                        generation |-> control.generation, asked |-> work[o].asked + 1]]
      BY <2>1 DEF Rotation!Ask, Rotation!Works
    <3> DEFINE t == [step |-> "asked", operation |-> operation, ring |-> r,
                     version |-> IF control.key = None THEN 0 ELSE control.key.version,
                     generation |-> control.generation, asked |-> work[o].asked + 1]
    <3>3. t \in WorkType /\ t.ring \in Rings /\ t.step = "asked"
      BY <2>0, <3>1 DEF WorkType
    <3>4. work' = [work EXCEPT ![o] = t] /\ UNCHANGED <<control, ring, approval, letter, accepted, retired>>
      BY <2>1, <3>2 DEF Rotation!Ask
    <3> HIDE DEF t
    <3> QED BY <3>3, <3>4, OperatorOnly
  <2>2. CASE Rotation!Rest(o)
    <3> DEFINE t == [Rotation!NoWork EXCEPT !.asked = work[o].asked]
    <3>1. t \in WorkType /\ t.step = "idle"
      BY <2>0 DEF WorkType, Rotation!NoWork
    <3>2. work' = [work EXCEPT ![o] = t] /\ UNCHANGED <<control, ring, approval, letter, accepted, retired>>
      BY <2>2 DEF Rotation!Rest, Rotation!Works
    <3> HIDE DEF t
    <3> QED BY <3>1, <3>2, OperatorOnly
  <2> QED BY <1>6, <2>1, <2>2
<1>7. ASSUME NEW o \in Operators,
             Rotation!Transition(o) \/ Rotation!NotCommitted(o) \/ Rotation!ReadBack(o) \/ Rotation!ReadControl(o)
      PROVE RotationInv'
  <2>1. work[o].step \in {"asked", "unanswered"} /\ work[o].step # "idle" /\ work[o].ring \in Rings
    BY <1>0, <1>7 DEF Rotation!Transition, Rotation!NotCommitted, Rotation!ReadBack, Rotation!ReadControl, Rotation!At, RotationTyped
  <2>2. ASSUME NEW step \in {"ok", "failed", "unanswered", "accepted", "reported"},
               step \in {"ok", "accepted", "reported"} => Rotation!Accepts(work[o].ring), Rotation!Done(o, step),
               UNCHANGED <<control, ring, approval, letter, accepted, retired>>
        PROVE RotationInv'
    <3> DEFINE t == [work[o] EXCEPT !.step = step]
    <3>1. t \in WorkType /\ t.ring = work[o].ring /\ t.ring \in Rings /\ t.step = step
      BY <1>0, <2>1, Steps
    <3>2. work' = [work EXCEPT ![o] = t]
      BY <2>2 DEF Rotation!Done, Rotation!Works
    <3>3. t.step \in {"ok", "accepted", "reported"} => Rotation!ActiveKey(t.ring) \in accepted
      BY <1>0, <2>1, <2>2, <3>1, AcceptsMeans
    <3> HIDE DEF t
    <3> QED BY <2>2, <3>1, <3>2, <3>3, OperatorOnly
  <2>3. CASE Rotation!NotCommitted(o)
    BY <2>2, <2>3 DEF Rotation!NotCommitted
  <2>4. CASE Rotation!ReadBack(o)
    BY <2>2, <2>4 DEF Rotation!ReadBack, Rotation!Reconciled
  <2>5. CASE Rotation!ReadControl(o)
    BY <2>2, <2>5 DEF Rotation!ReadControl
  <2>6. CASE Rotation!Transition(o)
    <3>1. CASE UNCHANGED <<control, accepted>>
      <4>1. \/ Rotation!Accepts(work[o].ring) /\ Rotation!Done(o, "ok")
            \/ Rotation!Done(o, "failed")
            \/ /\ control' = [key |-> Rotation!ActiveKey(work[o].ring), generation |-> control.generation + 1]
               /\ ~Rotation!Accepts(work[o].ring)
        BY <2>6 DEF Rotation!Transition
      <4>2. UNCHANGED <<control, ring, approval, letter, accepted, retired>>
        BY <2>6, <3>1 DEF Rotation!Transition
      <4>3. CASE control'.key = Rotation!ActiveKey(work[o].ring) /\ ~Rotation!Accepts(work[o].ring)
        BY <4>2, <4>3 DEF Rotation!Accepts
      <4> QED BY <2>2, <4>1, <4>2, <4>3
    <3>2. CASE ~UNCHANGED <<control, accepted>>
      <4>1. /\ work[o].step = "asked" /\ ~Rotation!Accepts(work[o].ring) /\ Rotation!Continues(o)
            /\ control' = [key |-> Rotation!ActiveKey(work[o].ring), generation |-> control.generation + 1]
            /\ accepted' = accepted \cup {Rotation!ActiveKey(work[o].ring)}
            /\ \E step \in {"ok", "unanswered"} : work' = [work EXCEPT ![o] = [work[o] EXCEPT !.step = step]]
            /\ UNCHANGED <<ring, approval, letter, retired>>
        BY <2>6, <3>2 DEF Rotation!Transition, Rotation!At, Rotation!Done, Rotation!Works
      <4> QED BY <4>1, ControlMoves
    <3> QED BY <3>1, <3>2
  <2> QED BY <1>7, <2>3, <2>4, <2>5, <2>6
<1> QED BY <1>1, <1>2, <1>3, <1>4, <1>5, <1>6, <1>7, KeysRetire DEF Rotation!Next

(* Whatever is deployed, asked for and lost, no letter whose producer looked *)
(* at the control is left sealed with a key that was taken away; letters are *)
(* sealed with accepted keys, one of a version; and an operator's answer is  *)
(* true (api/_credential-key-control.js, scripts/credential-key-control.mjs).*)
THEOREM RotationIsSafe ==
  ASSUME Rotation!KeyConstants
  PROVE  Rotation!Spec =>
           [](Rotation!TypeOK /\ Rotation!IssuedStayOpenable /\ Rotation!OneKeyOfAVersion /\ Rotation!AnswersAreTrue)
<1>1. Rotation!Init => RotationInv
  BY RotationBegins
<1>2. RotationInv /\ [Rotation!Next]_(Rotation!keyVars) => RotationInv'
  <2>1. RotationInv /\ UNCHANGED Rotation!keyVars => RotationInv'
    BY DEF Rotation!keyVars, RotationInv, RotationTyped, ControlClimbs, LooksAreTrue, RetiredAreBehind,
       Rotation!IssuedStayOpenable, Rotation!Held
  <2> QED BY <2>1, RotationKept
<1>3. RotationInv => Rotation!TypeOK /\ Rotation!IssuedStayOpenable /\ Rotation!OneKeyOfAVersion /\ Rotation!AnswersAreTrue
  <2> SUFFICES ASSUME RotationInv
               PROVE Rotation!TypeOK /\ Rotation!IssuedStayOpenable /\ Rotation!OneKeyOfAVersion /\ Rotation!AnswersAreTrue
    OBVIOUS
  <2>1. \A S : Rotation!Cardinality(S) = Cardinality(S)
    BY Zenon DEF Rotation!Cardinality, Cardinality
  <2>2. Rotation!TypeOK
    BY <2>1 DEF RotationInv, RotationTyped, ControlClimbs, Rotation!TypeOK, LetterType, Materials
  <2> QED BY <2>2 DEF RotationInv, RotationTyped, ControlClimbs, LooksAreTrue, Rotation!OneKeyOfAVersion, Rotation!AnswersAreTrue, Rotation!At
<1> QED BY <1>1, <1>2, <1>3, PTL DEF Rotation!Spec

-----------------------------------------------------------------------------
(* Schema migrations.                                                       *)
CONSTANTS Runners, Remote, Operation, LatestVersion, Looks, Starts, MaxAttempts, MaxWrites
VARIABLES db, lock, staged, migrating, rehearsed, trail

Schema == INSTANCE Migration WITH Latest <- LatestVersion, run <- migrating

StateType  == [ledger : Seq({"applied", "adopted"}), schema : Nat, writes : Nat, fit : BOOLEAN]
FingerType == [through : Nat, ledger : Seq({"applied", "adopted"}), schema : Nat,
               members : (Nat \X BOOLEAN) \cup {None}]
CommitType == [by : Runners, on : FingerType, schema : Nat]
MigratingType ==
  [phase : {"idle", "planned", "bound", "ready", "written", "refused", "failed", "ok", "changed"},
   through : 0..LatestVersion, expected : FingerType \cup {None}, from : Nat, next : Nat,
   attempt : 0..MaxAttempts, planned : Nat]

MigrationTyped ==
  /\ db \in StateType /\ db.schema <= LatestVersion
  /\ lock \in Runners \cup {None} /\ staged \in StateType \cup {None} /\ (staged = None <=> lock = None)
  /\ migrating \in [Runners -> MigratingType] /\ rehearsed \subseteq FingerType /\ trail \in Seq(CommitType)

(* The server's open transaction holds the outcome of its run, on the state  *)
(* that the run expects.                                                    *)
LockHolds == lock # None =>
  /\ migrating[lock].phase \in {"written", "failed"} /\ migrating[lock].next <= migrating[lock].through
  /\ staged = Schema!Result(lock) /\ Schema!AsExpected(lock) /\ Schema!Ready(staged, migrating[lock].through)

(* Every commit has made the ledger longer.                                 *)
LedgerClimbs == \A m \in 1..Len(trail) : Len(trail[m].on.ledger) < Len(db.ledger)

(* What a run expects is no newer than the database, and no older than what  *)
(* others have committed on since it looked.                                *)
Knows(r) ==
  /\ migrating[r].expected \in FingerType /\ migrating[r].through \in 1..LatestVersion
  /\ migrating[r].planned <= Len(trail) /\ Len(migrating[r].expected.ledger) <= Len(db.ledger)
  /\ \A m \in migrating[r].planned + 1..Len(trail) :
       trail[m].by # r => Len(migrating[r].expected.ledger) <= Len(trail[m].on.ledger)

Seen(members, s) == members[1] <= s.writes /\ (members[1] = s.writes => members = <<s.writes, s.fit>>)

Outset(r) ==
  /\ Operation[r] = "adopt" => Len(migrating[r].expected.ledger) = 0
  /\ Operation[r] = "apply" /\ r \in Remote =>
       Len(migrating[r].expected.ledger) = migrating[r].through - 1 /\ migrating[r].through > 1

AsSeen(r) ==
  Len(migrating[r].expected.ledger) = Len(db.ledger) =>
    /\ migrating[r].expected.ledger = db.ledger /\ migrating[r].expected.schema = db.schema
    /\ Schema!Inspected(db, migrating[r].through) =>
         migrating[r].expected.members \in Nat \X BOOLEAN /\ Seen(migrating[r].expected.members, db)

InWork(r) == migrating[r].phase \in {"ready", "written"} \/ lock = r

Progress(r) ==
  /\ Len(migrating[r].expected.ledger) + 1 = migrating[r].next /\ migrating[r].next <= migrating[r].through + 1
  /\ Operation[r] = "apply" => Cardinality(Schema!By(r)) + migrating[r].from + 1 = migrating[r].next
  /\ Operation[r] = "apply" /\ r \in Remote => migrating[r].from + 1 = migrating[r].through
  /\ Operation[r] = "adopt" =>
       \/ migrating[r].next = 1 /\ Schema!By(r) = {}
       \/ migrating[r].next = migrating[r].through + 1 /\ Cardinality(Schema!By(r)) = 1

(* A fingerprint that a rehearsal attested is of the state that the run      *)
(* found, while that stands.                                                *)
Attests(f, r) ==
  /\ Len(migrating[r].expected.ledger) <= Len(f.ledger) /\ Len(f.ledger) <= Len(db.ledger)
  /\ f.members # None /\ Len(migrating[r].expected.ledger) = Len(f.ledger) =>
       migrating[r].expected.members[1] <= f.members[1]
  /\ Len(f.ledger) = Len(db.ledger) =>
       /\ f.ledger = db.ledger /\ f.schema = db.schema
       /\ f.members # None => Schema!Inspected(db, migrating[r].through) /\ f.members \in Nat \X BOOLEAN /\ Seen(f.members, db)

NothingBetweenOf(r) ==
  \A n \in Schema!By(r) : \A m \in migrating[r].planned + 1..n : trail[m].by = r

RehearsedOf(r) ==
  \A n \in Schema!By(r) :
     /\ Cardinality(Schema!By(r)) = 1
     /\ \E f \in rehearsed : /\ f.ledger = trail[n].on.ledger /\ f.schema = trail[n].on.schema
                             /\ f.members \in {None, trail[n].on.members}

RunHolds(r) ==
  /\ migrating[r].phase \in {"idle", "planned", "bound", "refused"} => Schema!By(r) = {}
  /\ migrating[r].phase \in {"idle", "planned", "bound", "ready", "written"} => migrating[r].attempt < MaxAttempts
  /\ migrating[r].phase # "idle" => Knows(r)
  /\ migrating[r].phase \in {"planned", "bound"} => Outset(r)
  /\ migrating[r].phase = "planned" => AsSeen(r)
  /\ InWork(r) => Progress(r)
  /\ r \in Remote /\ (migrating[r].phase = "bound" \/ (InWork(r) /\ migrating[r].next <= migrating[r].through)) =>
       \E f \in rehearsed : Attests(f, r)
  /\ migrating[r].phase = "ok" =>
       IF Operation[r] = "adopt" THEN Cardinality(Schema!By(r)) = 1
       ELSE Cardinality(Schema!By(r)) + migrating[r].from = migrating[r].through
  /\ NothingBetweenOf(r) /\ (r \in Remote => RehearsedOf(r))

MigrationInv ==
  /\ MigrationTyped /\ LockHolds /\ LedgerClimbs /\ Schema!LedgerIsTheSchema
  /\ \A r \in Runners : RunHolds(r)

-----------------------------------------------------------------------------
LEMMA FingerFacts ==
  ASSUME NEW s \in StateType, NEW through \in Nat
  PROVE  LET f == Schema!Fingerprint(s, through) IN
         /\ f \in FingerType /\ f.through = through /\ f.ledger = s.ledger /\ f.schema = s.schema
         /\ f.members = (IF Schema!Inspected(s, through) THEN <<s.writes, s.fit>> ELSE None)
BY DEF Schema!Fingerprint, StateType, FingerType

LEMMA ByIsFinite ==
  ASSUME trail \in Seq(CommitType), NEW r
  PROVE  IsFiniteSet(Schema!By(r)) /\ Cardinality(Schema!By(r)) \in Nat /\ (Cardinality(Schema!By(r)) = 0 <=> Schema!By(r) = {})
<1>1. IsFiniteSet(1..Len(trail))
  BY FS_Interval
<1>2. IsFiniteSet(Schema!By(r))
  BY <1>1, FS_Subset DEF Schema!By
<1> QED BY <1>2, FS_CardinalityType, FS_EmptySet

LEMMA MigrationBegins == ASSUME Schema!MigrationConstants, Schema!Init PROVE MigrationInv
<1>0. LatestVersion \in Nat /\ MaxAttempts \in Nat \ {0} /\ Starts \subseteq 0..LatestVersion
  BY DEF Schema!MigrationConstants
<1>1. PICK s \in Starts : db = [ledger |-> <<>>, schema |-> s, writes |-> 0, fit |-> TRUE]
  BY DEF Schema!Init
<1>2. db \in StateType /\ db.schema <= LatestVersion /\ db.ledger = <<>>
  BY <1>0, <1>1 DEF StateType
<1>3. Schema!NoRun \in MigratingType /\ Schema!NoRun.phase = "idle" /\ Schema!NoRun.attempt = 0
  BY <1>0 DEF Schema!NoRun, MigratingType
<1>4. MigrationTyped
  BY <1>2, <1>3 DEF MigrationTyped, Schema!Init
<1>5. \A r \in Runners : migrating[r].phase = "idle" /\ migrating[r].attempt = 0 /\ Schema!By(r) = {}
  BY <1>3 DEF Schema!Init, Schema!By
<1>6. ASSUME NEW r \in Runners PROVE RunHolds(r)
  <2>1. lock # r
    BY DEF Schema!Init, Schema!MigrationConstants
  <2> QED BY <1>0, <1>5, <2>1 DEF RunHolds, InWork, NothingBetweenOf, RehearsedOf
<1> QED BY <1>2, <1>4, <1>6 DEF MigrationInv, LockHolds, LedgerClimbs, Schema!LedgerIsTheSchema, Schema!Init

-----------------------------------------------------------------------------
(* The database, the lock and the commits stay: what holds of a run that     *)
(* stays holds on.                                                          *)
LEMMA OthersHold ==
  ASSUME MigrationInv, UNCHANGED <<db, trail>>, rehearsed \subseteq rehearsed',
         NEW x \in Runners, migrating'[x] = migrating[x], lock' = x => lock = x
  PROVE  RunHolds(x)'
<1>1. RunHolds(x) /\ Schema!By(x)' = Schema!By(x) /\ Schema!Inspected(db, migrating[x].through)' = Schema!Inspected(db, migrating[x].through)
  BY DEF MigrationInv, Schema!By, Schema!Inspected, Schema!Exact, Schema!Classification, Schema!Current
<1>2. Knows(x)' = Knows(x) /\ Outset(x)' = Outset(x) /\ NothingBetweenOf(x)' = NothingBetweenOf(x)
  BY <1>1 DEF Knows, Outset, NothingBetweenOf
<1>3. AsSeen(x)' = AsSeen(x) /\ Progress(x)' = Progress(x)
  BY <1>1 DEF AsSeen, Progress, Seen
<1>4. \A f : Attests(f, x)' = Attests(f, x)
  BY <1>1 DEF Attests, Seen
<1>5. RehearsedOf(x) => RehearsedOf(x)'
  BY <1>1 DEF RehearsedOf
<1>6. InWork(x)' => InWork(x)
  BY DEF InWork
<1> QED BY <1>1, <1>2, <1>3, <1>4, <1>5, <1>6 DEF RunHolds

LEMMA OneRun ==
  ASSUME MigrationInv, NEW r \in Runners, migrating'[r] \in MigratingType,
         migrating' = [migrating EXCEPT ![r] = migrating'[r]],
         UNCHANGED <<db, lock, staged, rehearsed, trail>>, RunHolds(r)',
         lock = r => /\ migrating'[r].phase \in {"written", "failed"} /\ migrating'[r].next = migrating[r].next
                     /\ migrating'[r].through = migrating[r].through /\ migrating'[r].expected = migrating[r].expected
  PROVE  MigrationInv'
<1>0. MigrationTyped /\ LockHolds /\ migrating \in [Runners -> MigratingType]
  BY DEF MigrationInv, MigrationTyped
<1>1. \A x \in Runners \ {r} : migrating'[x] = migrating[x]
  BY <1>0
<1>2. MigrationTyped'
  BY <1>0 DEF MigrationTyped
<1>3. LockHolds'
  <2> SUFFICES ASSUME lock # None
               PROVE  /\ migrating'[lock].phase \in {"written", "failed"} /\ migrating'[lock].next <= migrating'[lock].through
                      /\ staged = Schema!Result(lock)' /\ Schema!AsExpected(lock)' /\ Schema!Ready(staged, migrating'[lock].through)
    BY DEF LockHolds, Schema!Ready, Schema!Exact, Schema!Classification, Schema!Current
  <2>1. lock \in Runners
    BY <1>0 DEF MigrationTyped
  <2>2. /\ migrating'[lock].phase \in {"written", "failed"} /\ migrating'[lock].next = migrating[lock].next
        /\ migrating'[lock].through = migrating[lock].through /\ migrating'[lock].expected = migrating[lock].expected
    BY <1>0, <1>1, <2>1 DEF LockHolds
  <2>3. Schema!Result(lock)' = Schema!Result(lock) /\ Schema!AsExpected(lock)' = Schema!AsExpected(lock)
    BY <2>2 DEF Schema!Result, Schema!Adopted, Schema!Applied, Schema!Current, Schema!AsExpected, Schema!Known,
       Schema!Fingerprint, Schema!Inspected, Schema!Exact, Schema!Classification
  <2> QED BY <1>0, <2>2, <2>3 DEF LockHolds
<1>4. \A x \in Runners : RunHolds(x)'
  <2> SUFFICES ASSUME NEW x \in Runners, x # r PROVE RunHolds(x)'
    OBVIOUS
  <2> QED BY <1>1, OthersHold
<1> QED BY <1>2, <1>3, <1>4 DEF MigrationInv, LedgerClimbs, Schema!LedgerIsTheSchema

(* A run whose phase alone moves.                                           *)
LEMMA PhaseMoves ==
  ASSUME MigrationInv, NEW r \in Runners,
         NEW phase \in {"idle", "planned", "bound", "ready", "written", "refused", "failed", "ok", "changed"},
         Schema!To(r, phase), UNCHANGED <<db, rehearsed, trail>>
  PROVE  /\ migrating'[r] \in MigratingType /\ migrating' = [migrating EXCEPT ![r] = migrating'[r]]
         /\ migrating'[r].phase = phase /\ migrating'[r].next = migrating[r].next
         /\ migrating'[r].through = migrating[r].through /\ migrating'[r].expected = migrating[r].expected
         /\ migrating'[r].from = migrating[r].from /\ migrating'[r].planned = migrating[r].planned
         /\ migrating'[r].attempt = migrating[r].attempt
         /\ Schema!By(r)' = Schema!By(r) /\ Knows(r)' = Knows(r) /\ Outset(r)' = Outset(r) /\ AsSeen(r)' = AsSeen(r)
         /\ Progress(r)' = Progress(r) /\ NothingBetweenOf(r)' = NothingBetweenOf(r) /\ RehearsedOf(r)' = RehearsedOf(r)
         /\ \A f : Attests(f, r)' = Attests(f, r)
<1> DEFINE t == [migrating[r] EXCEPT !.phase = phase]
<1>0. migrating \in [Runners -> MigratingType] /\ migrating[r] \in MigratingType
  BY DEF MigrationInv, MigrationTyped
<1>1. t \in MigratingType /\ migrating' = [migrating EXCEPT ![r] = t] /\ migrating'[r] = t
  BY <1>0 DEF MigratingType, Schema!To
<1>2. /\ t.phase = phase /\ t.next = migrating[r].next /\ t.through = migrating[r].through /\ t.expected = migrating[r].expected
      /\ t.from = migrating[r].from /\ t.planned = migrating[r].planned /\ t.attempt = migrating[r].attempt
  BY <1>0 DEF MigratingType
<1> HIDE DEF t
<1>6. migrating'[r] \in MigratingType /\ migrating' = [migrating EXCEPT ![r] = migrating'[r]]
  BY <1>1
<1>3. /\ Schema!By(r)' = Schema!By(r)
      /\ Schema!Inspected(db, migrating[r].through)' = Schema!Inspected(db, migrating[r].through)
  BY <1>1, <1>2 DEF Schema!By, Schema!Inspected, Schema!Exact, Schema!Classification, Schema!Current
<1>4. /\ Knows(r)' = Knows(r) /\ Outset(r)' = Outset(r) /\ Progress(r)' = Progress(r)
      /\ NothingBetweenOf(r)' = NothingBetweenOf(r) /\ RehearsedOf(r)' = RehearsedOf(r)
  BY <1>1, <1>2, <1>3 DEF Knows, Outset, Progress, NothingBetweenOf, RehearsedOf
<1>5. AsSeen(r)' = AsSeen(r) /\ \A f : Attests(f, r)' = Attests(f, r)
  BY <1>1, <1>2, <1>3 DEF AsSeen, Attests, Seen
<1> QED BY <1>1, <1>2, <1>3, <1>4, <1>5, <1>6

LEMMA StopsHold ==
  ASSUME Schema!MigrationConstants, MigrationInv, NEW r \in Runners, Schema!Lose(r) \/ Schema!Stop(r) PROVE MigrationInv'
<1>1. Schema!To(r, "failed") /\ UNCHANGED <<db, lock, staged, rehearsed, trail>> /\ migrating[r].phase \in {"written", "planned", "bound", "ready"}
  BY DEF Schema!Lose, Schema!Stop, Schema!At
<1>2. RunHolds(r)
  BY DEF MigrationInv
<1>3. InWork(r)' => InWork(r)
  BY <1>1, PhaseMoves DEF InWork
<1>4. RunHolds(r)'
  BY <1>1, <1>2, <1>3, PhaseMoves DEF RunHolds
<1> QED BY <1>1, <1>4, PhaseMoves, OneRun

LEMMA FinishHolds ==
  ASSUME Schema!MigrationConstants, MigrationInv, NEW r \in Runners, Schema!Finish(r) PROVE MigrationInv'
<1>1. PICK phase \in {"ok", "changed"} : Schema!To(r, phase)
  BY DEF Schema!Finish
<1>2. /\ UNCHANGED <<db, lock, staged, rehearsed, trail>> /\ migrating[r].phase = "ready" /\ migrating[r].next > migrating[r].through
  BY DEF Schema!Finish, Schema!At
<1>3. RunHolds(r) /\ Progress(r) /\ lock # r /\ Operation[r] \in {"apply", "adopt"}
  BY <1>2 DEF MigrationInv, RunHolds, InWork, LockHolds, Schema!MigrationConstants
<1>4. /\ migrating[r] \in MigratingType /\ migrating[r].next \in Nat /\ migrating[r].through \in Nat /\ migrating[r].from \in Nat
      /\ trail \in Seq(CommitType) /\ migrating[r].through \in 1..LatestVersion
  BY <1>2, <1>3 DEF MigrationInv, MigrationTyped, MigratingType, RunHolds, Knows
<1>5. Cardinality(Schema!By(r)) \in Nat
  BY <1>4, ByIsFinite
<1>6. IF Operation[r] = "adopt" THEN Cardinality(Schema!By(r)) = 1
      ELSE Cardinality(Schema!By(r)) + migrating[r].from = migrating[r].through
  <2>1. migrating[r].next = migrating[r].through + 1
    BY <1>2, <1>3, <1>4 DEF Progress
  <2>2. CASE Operation[r] = "adopt"
    <3>1. migrating[r].next # 1
      BY <1>4, <2>1
    <3> QED BY <1>3, <2>2, <3>1 DEF Progress
  <2>3. CASE Operation[r] = "apply"
    <3>1. Cardinality(Schema!By(r)) + migrating[r].from + 1 = migrating[r].through + 1
      BY <1>3, <2>1, <2>3 DEF Progress
    <3>2. ASSUME NEW c \in Nat, NEW a \in Nat, NEW n \in Nat, c + a + 1 = n + 1 PROVE c + a = n
      BY <3>2
    <3>3. Cardinality(Schema!By(r)) + migrating[r].from = migrating[r].through
      BY <1>4, <1>5, <3>1, <3>2
    <3>4. Operation[r] # "adopt"
      BY <2>3
    <3> QED BY <3>3, <3>4
  <2> QED BY <1>3, <2>2, <2>3
<1>7. ~InWork(r)'
  BY <1>1, <1>2, <1>3, PhaseMoves DEF InWork
<1>8. RunHolds(r)'
  BY <1>1, <1>2, <1>3, <1>6, <1>7, PhaseMoves DEF RunHolds
<1> QED BY <1>1, <1>2, <1>3, <1>8, PhaseMoves, OneRun

LEMMA PlanHolds ==
  ASSUME Schema!MigrationConstants, MigrationInv, NEW r \in Runners, Schema!Plan(r) PROVE MigrationInv'
<1> DEFINE through == Schema!Target(r)
           t == [Schema!NoRun EXCEPT !.phase = "planned", !.through = through,
                                     !.expected = Schema!Fingerprint(db, through), !.planned = Len(trail)]
<1>0. MigrationTyped /\ RunHolds(r) /\ LatestVersion \in Nat /\ MaxAttempts \in Nat \ {0}
  BY DEF MigrationInv, Schema!MigrationConstants
<1>1. /\ through \in 1..LatestVersion /\ migrating' = [migrating EXCEPT ![r] = t]
      /\ UNCHANGED <<db, lock, staged, rehearsed, trail>> /\ migrating[r].phase = "idle"
  BY DEF Schema!Plan, Schema!At
<1>2. db \in StateType /\ trail \in Seq(CommitType) /\ Len(trail) \in Nat /\ migrating \in [Runners -> MigratingType] /\ through \in Nat
  BY <1>0, <1>1 DEF MigrationTyped
<1>3. /\ t.phase = "planned" /\ t.through = through /\ t.expected = Schema!Fingerprint(db, through) /\ t.planned = Len(trail)
      /\ t.attempt = 0 /\ t.next = 0 /\ t.from = 0
  BY DEF Schema!NoRun
<1>4. t \in MigratingType
  <2>1. Schema!Fingerprint(db, through) \in FingerType
    BY <1>2, FingerFacts
  <2>2. through \in 0..LatestVersion /\ 0 \in 0..MaxAttempts
    BY <1>0, <1>1
  <2> HIDE DEF through
  <2> QED BY <1>2, <2>1, <2>2 DEF MigratingType, Schema!NoRun
<1>5. /\ t.expected \in FingerType /\ t.expected.ledger = db.ledger /\ t.expected.schema = db.schema
      /\ t.expected.members = (IF Schema!Inspected(db, through) THEN <<db.writes, db.fit>> ELSE None)
  BY <1>2, <1>3, FingerFacts
<1>6. /\ Operation[r] = "adopt" => Len(db.ledger) = 0
      /\ Operation[r] = "apply" /\ r \in Remote => Len(db.ledger) = through - 1 /\ through > 1
  BY <1>2 DEF Schema!Plan, Schema!Eligible, Schema!Classification, Schema!Current, Schema!Target, StateType
<1>7. migrating'[r] = t /\ lock # r /\ Schema!By(r)' = {}
  <2>1. lock # r
    BY <1>1 DEF MigrationInv, LockHolds, Schema!MigrationConstants
  <2>2. Schema!By(r)' = Schema!By(r) /\ Schema!By(r) = {}
    BY <1>0, <1>1 DEF RunHolds, Schema!By
  <2> QED BY <1>1, <1>2, <2>1, <2>2
<1> HIDE DEF t, through
<1>8. Knows(r)'
  BY <1>1, <1>2, <1>3, <1>5, <1>7 DEF Knows, StateType
<1>9. Outset(r)'
  BY <1>1, <1>3, <1>5, <1>6, <1>7 DEF Outset
<1>10. AsSeen(r)'
  <2>1. Schema!Inspected(db, through) = Schema!Inspected(db, through)'
    BY <1>1, <1>3, <1>7 DEF Schema!Inspected, Schema!Exact, Schema!Classification, Schema!Current, through, Schema!Target
  <2>2. Schema!Inspected(db, migrating[r].through)' => Schema!Inspected(db, through)
    BY <1>1, <1>3, <1>7 DEF Schema!Inspected, Schema!Exact, Schema!Classification, Schema!Current
  <2>3. db.writes \in Nat /\ db.fit \in BOOLEAN
    BY <1>2 DEF StateType
  <2>4. Schema!Inspected(db, through) => t.expected.members \in Nat \X BOOLEAN /\ Seen(t.expected.members, db)
    BY <1>5, <2>3 DEF Seen
  <2> QED BY <1>1, <1>3, <1>5, <1>7, <2>2, <2>4 DEF AsSeen, Seen
<1>11. ~InWork(r)'
  BY <1>1, <1>3, <1>7 DEF InWork
<1>12. NothingBetweenOf(r)' /\ RehearsedOf(r)'
  BY <1>7 DEF NothingBetweenOf, RehearsedOf
<1>13. RunHolds(r)'
  BY <1>0, <1>3, <1>7, <1>8, <1>9, <1>10, <1>11, <1>12 DEF RunHolds
<1> QED BY <1>1, <1>4, <1>7, <1>13, OneRun

LEMMA BindHolds ==
  ASSUME Schema!MigrationConstants, MigrationInv, NEW r \in Runners, Schema!Bind(r) PROVE MigrationInv'
<1>0. MigrationTyped /\ RunHolds(r) /\ Operation[r] \in {"apply", "adopt"}
  BY DEF MigrationInv, Schema!MigrationConstants
<1>1. /\ migrating[r].phase = "planned" /\ r \in Remote /\ UNCHANGED <<db, lock, staged, rehearsed, trail>>
      /\ Schema!To(r, "refused") \/ (Schema!Attested(r) /\ Schema!To(r, "bound"))
  BY DEF Schema!Bind, Schema!At
<1>2. lock # r
  BY <1>1 DEF MigrationInv, LockHolds, Schema!MigrationConstants
<1>3. Knows(r) /\ Outset(r) /\ AsSeen(r)
  BY <1>0, <1>1 DEF RunHolds
<1>4. CASE Schema!To(r, "refused")
  <2>1. ~InWork(r)'
    BY <1>1, <1>2, <1>4, PhaseMoves DEF InWork
  <2>2. RunHolds(r)'
    BY <1>0, <1>1, <1>4, <2>1, PhaseMoves DEF RunHolds
  <2> QED BY <1>1, <1>2, <1>4, <2>2, PhaseMoves, OneRun
<1>5. CASE Schema!Attested(r) /\ Schema!To(r, "bound")
  <2> DEFINE source == IF Operation[r] = "adopt" THEN migrating[r].through ELSE migrating[r].through - 1
             f == Schema!Fingerprint(db, source)
  <2>1. ~InWork(r)'
    BY <1>1, <1>2, <1>5, PhaseMoves DEF InWork
  <2>2. f \in rehearsed
    BY <1>5 DEF Schema!Attested
  <2>3. source \in Nat /\ db \in StateType /\ migrating[r].through \in Nat /\ Len(db.ledger) \in Nat
    BY <1>0, <1>3 DEF Knows, MigrationTyped, StateType
  <2>4. /\ f.ledger = db.ledger /\ f.schema = db.schema
        /\ f.members = (IF Schema!Inspected(db, source) THEN <<db.writes, db.fit>> ELSE None)
    BY <2>3, FingerFacts
  <2> HIDE DEF f
  <2>5. Schema!Inspected(db, source) => Schema!Inspected(db, migrating[r].through)
    <3>1. CASE Operation[r] = "adopt"
      BY <3>1
    <3>2. CASE Operation[r] = "apply"
      <4>1. Len(db.ledger) > 0
        <5>1. Len(migrating[r].expected.ledger) = migrating[r].through - 1 /\ migrating[r].through > 1
          BY <1>1, <1>3, <3>2 DEF Outset
        <5> QED BY <1>3, <2>3, <5>1 DEF Knows
      <4> HIDE DEF source
      <4> QED BY <4>1 DEF Schema!Inspected, Schema!Exact, Schema!Classification, Schema!Current
    <3> QED BY <1>0, <3>1, <3>2
  <2>6. Attests(f, r)
    <3>1. Len(migrating[r].expected.ledger) <= Len(f.ledger) /\ Len(f.ledger) <= Len(db.ledger)
      BY <1>3, <2>3, <2>4 DEF Knows
    <3>2. f.members # None => /\ f.members = <<db.writes, db.fit>> /\ f.members \in Nat \X BOOLEAN
                              /\ Schema!Inspected(db, migrating[r].through) /\ Seen(f.members, db)
      <4>1. db.writes \in Nat /\ db.fit \in BOOLEAN
        BY <2>3 DEF StateType
      <4> QED BY <2>4, <2>5, <4>1 DEF Seen
    <3>3. f.members # None /\ Len(migrating[r].expected.ledger) = Len(f.ledger) =>
            migrating[r].expected.members[1] <= f.members[1]
      <4> HIDE DEF source
      <4> QED BY <1>3, <2>4, <3>2 DEF AsSeen, Seen
    <3> HIDE DEF source
    <3> QED BY <2>4, <3>1, <3>2, <3>3 DEF Attests
  <2>7. Attests(f, r)'
    <3>1. \A g : Attests(g, r)' = Attests(g, r)
      BY <1>1, <1>5, PhaseMoves
    <3>2. f' = f
      BY <1>1, <1>5, PhaseMoves DEF f, Schema!Fingerprint, Schema!Inspected, Schema!Exact, Schema!Classification, Schema!Current
    <3> QED BY <2>6, <3>1, <3>2
  <2>8. \E g \in rehearsed' : Attests(g, r)'
    <3>1. \A g : Attests(g, r)' = Attests(g, r)
      BY <1>1, <1>5, PhaseMoves
    <3> QED BY <1>1, <2>2, <2>6, <3>1
  <2>9. RunHolds(r)'
    BY <1>0, <1>1, <1>3, <1>5, <2>1, <2>8, PhaseMoves DEF RunHolds
  <2> QED BY <1>1, <1>2, <1>5, <2>9, PhaseMoves, OneRun
<1> QED BY <1>1, <1>4, <1>5

(* What a run that looks, waits or opens its transaction keeps.             *)
LEMMA RunKeeps ==
  ASSUME MigrationInv, NEW r \in Runners, UNCHANGED <<db, rehearsed, trail>>,
         migrating'[r].through = migrating[r].through, migrating'[r].expected = migrating[r].expected,
         migrating'[r].planned = migrating[r].planned
  PROVE  /\ Schema!By(r)' = Schema!By(r) /\ Knows(r)' = Knows(r) /\ Outset(r)' = Outset(r)
         /\ NothingBetweenOf(r)' = NothingBetweenOf(r) /\ RehearsedOf(r)' = RehearsedOf(r)
         /\ \A f : Attests(f, r)' = Attests(f, r)
<1>1. /\ Schema!By(r)' = Schema!By(r)
      /\ Schema!Inspected(db, migrating[r].through)' = Schema!Inspected(db, migrating[r].through)
  BY DEF Schema!By, Schema!Inspected, Schema!Exact, Schema!Classification, Schema!Current
<1>2. /\ Knows(r)' = Knows(r) /\ Outset(r)' = Outset(r)
      /\ NothingBetweenOf(r)' = NothingBetweenOf(r) /\ RehearsedOf(r)' = RehearsedOf(r)
  BY <1>1 DEF Knows, Outset, NothingBetweenOf, RehearsedOf
<1>3. \A f : Attests(f, r)' = Attests(f, r)
  BY <1>1 DEF Attests, Seen
<1> QED BY <1>1, <1>2, <1>3

LEMMA StartHolds ==
  ASSUME Schema!MigrationConstants, MigrationInv, NEW r \in Runners, Schema!Start(r) PROVE MigrationInv'
<1> DEFINE phase == IF Schema!AsExpected(r) THEN "ready" ELSE "refused"
           t == [migrating[r] EXCEPT !.phase = phase, !.from = Schema!Current(db), !.next = Schema!Current(db) + 1]
<1>0. /\ MigrationTyped /\ RunHolds(r) /\ Operation[r] \in {"apply", "adopt"}
      /\ migrating \in [Runners -> MigratingType] /\ migrating[r] \in MigratingType /\ db \in StateType
  BY DEF MigrationInv, Schema!MigrationConstants, MigrationTyped
<1>1. /\ migrating[r].phase = (IF r \in Remote THEN "bound" ELSE "planned") /\ UNCHANGED <<db, lock, staged, rehearsed, trail>>
      /\ migrating' = [migrating EXCEPT ![r] = t]
  BY <1>0 DEF Schema!Start, Schema!At
<1>2. lock # r
  BY <1>1 DEF MigrationInv, LockHolds, Schema!MigrationConstants
<1>3. Knows(r) /\ Outset(r) /\ Schema!By(r) = {} /\ migrating[r].attempt < MaxAttempts
  BY <1>0, <1>1 DEF RunHolds
<1>4. Schema!Current(db) \in Nat
  BY <1>0 DEF Schema!Current, StateType
<1>5. t \in MigratingType
  <2>1. phase \in {"ready", "refused"}
    OBVIOUS
  <2> HIDE DEF phase
  <2>2. Schema!Current(db) + 1 \in Nat
    BY <1>4
  <2> QED BY <1>0, <1>4, <2>1, <2>2 DEF MigratingType
<1>6. /\ t.phase = phase /\ t.from = Schema!Current(db) /\ t.next = Schema!Current(db) + 1
      /\ t.through = migrating[r].through /\ t.expected = migrating[r].expected /\ t.planned = migrating[r].planned
      /\ t.attempt = migrating[r].attempt
  BY <1>0 DEF MigratingType
<1> HIDE DEF t
<1>7. migrating'[r] = t
  BY <1>0, <1>1
<1>8. /\ Schema!By(r)' = Schema!By(r) /\ Knows(r)' = Knows(r) /\ Outset(r)' = Outset(r)
      /\ NothingBetweenOf(r)' = NothingBetweenOf(r) /\ RehearsedOf(r)' = RehearsedOf(r)
      /\ \A f : Attests(f, r)' = Attests(f, r)
  BY <1>1, <1>6, <1>7, RunKeeps
<1>9. Schema!AsExpected(r) => Progress(r)'
  <2> SUFFICES ASSUME Schema!AsExpected(r) PROVE Progress(r)'
    OBVIOUS
  <2>1. migrating[r].through \in Nat /\ LatestVersion \in Nat
    BY <1>3 DEF Knows, Schema!MigrationConstants
  <2>2. /\ migrating[r].expected.ledger = db.ledger /\ Schema!Current(db) <= migrating[r].through
    <3>1. Schema!Fingerprint(db, migrating[r].through).ledger = db.ledger
      BY <1>0, <2>1, FingerFacts
    <3> QED BY <3>1 DEF Schema!AsExpected, Schema!Known
  <2>3. Cardinality({}) = 0
    BY FS_EmptySet
  <2>4. /\ Operation[r] = "adopt" => Schema!Current(db) = 0
        /\ Operation[r] = "apply" /\ r \in Remote => Schema!Current(db) = migrating[r].through - 1
    BY <1>3, <2>2 DEF Outset, Schema!Current
  <2>5. Cardinality(Schema!By(r)') = 0 /\ Schema!By(r)' = {}
    BY <1>3, <1>8, <2>3
  <2>6. Len(migrating'[r].expected.ledger) = Schema!Current(db)
    BY <1>6, <1>7, <2>2 DEF Schema!Current
  <2> QED BY <1>0, <1>4, <1>6, <1>7, <2>1, <2>2, <2>4, <2>5, <2>6 DEF Progress
<1>10. InWork(r)' => Schema!AsExpected(r)
  BY <1>1, <1>2, <1>6, <1>7 DEF InWork
<1>11. r \in Remote => \E f \in rehearsed' : Attests(f, r)'
  <2>1. r \in Remote => \E f \in rehearsed : Attests(f, r)
    BY <1>0, <1>1 DEF RunHolds
  <2>2. rehearsed' = rehearsed
    BY <1>1
  <2> QED BY <1>8, <2>1, <2>2
<1>12. RunHolds(r)'
  BY <1>0, <1>3, <1>6, <1>7, <1>8, <1>9, <1>10, <1>11 DEF RunHolds
<1> QED BY <1>1, <1>2, <1>5, <1>7, <1>12, OneRun

LEMMA BusyHolds ==
  ASSUME Schema!MigrationConstants, MigrationInv, NEW r \in Runners, Schema!Busy(r) PROVE MigrationInv'
<1> DEFINE phase == IF migrating[r].attempt + 1 = MaxAttempts THEN "failed" ELSE "ready"
           t == [migrating[r] EXCEPT !.attempt = migrating[r].attempt + 1, !.phase = phase]
<1>0. /\ MigrationTyped /\ RunHolds(r) /\ MaxAttempts \in Nat
      /\ migrating \in [Runners -> MigratingType] /\ migrating[r] \in MigratingType
  BY DEF MigrationInv, Schema!MigrationConstants, MigrationTyped
<1>1. /\ migrating[r].phase = "ready" /\ UNCHANGED <<db, lock, staged, rehearsed, trail>>
      /\ migrating' = [migrating EXCEPT ![r] = t]
  BY <1>0 DEF Schema!Busy, Schema!At
<1>2. lock # r /\ migrating[r].attempt < MaxAttempts /\ migrating[r].attempt \in Nat
  BY <1>0, <1>1 DEF MigrationInv, LockHolds, Schema!MigrationConstants, RunHolds, MigratingType
<1>3. t \in MigratingType
  <2>1. phase \in {"ready", "failed"} /\ migrating[r].attempt + 1 \in 0..MaxAttempts
    BY <1>0, <1>2
  <2> HIDE DEF phase
  <2> QED BY <1>0, <2>1 DEF MigratingType
<1>4. /\ t.phase = phase /\ t.from = migrating[r].from /\ t.next = migrating[r].next
      /\ t.through = migrating[r].through /\ t.expected = migrating[r].expected /\ t.planned = migrating[r].planned
      /\ t.attempt = migrating[r].attempt + 1
  BY <1>0 DEF MigratingType
<1> HIDE DEF t
<1>5. migrating'[r] = t
  BY <1>0, <1>1
<1>6. /\ Schema!By(r)' = Schema!By(r) /\ Knows(r)' = Knows(r) /\ Outset(r)' = Outset(r)
      /\ NothingBetweenOf(r)' = NothingBetweenOf(r) /\ RehearsedOf(r)' = RehearsedOf(r)
      /\ \A f : Attests(f, r)' = Attests(f, r)
  BY <1>1, <1>4, <1>5, RunKeeps
<1>7. InWork(r) /\ Progress(r)' = Progress(r)
  BY <1>1, <1>4, <1>5, <1>6 DEF InWork, Progress
<1>8. t.phase \in {"ready", "failed"} /\ (t.phase = "ready" => t.attempt < MaxAttempts)
  BY <1>0, <1>2, <1>4
<1>9. RunHolds(r)'
  BY <1>0, <1>1, <1>4, <1>5, <1>6, <1>7, <1>8 DEF RunHolds
<1> QED BY <1>1, <1>2, <1>3, <1>5, <1>9, OneRun

LEMMA ResultFacts ==
  ASSUME NEW r \in Runners, db \in StateType, Schema!LedgerIsTheSchema, migrating[r].through \in Nat,
         Schema!Ready(Schema!Result(r), migrating[r].through)
  PROVE  /\ Schema!Result(r) \in StateType
         /\ Len(Schema!Result(r).ledger) =
              IF Operation[r] = "adopt" THEN migrating[r].through ELSE Len(db.ledger) + 1
         /\ Schema!Result(r).ledger # <<>> =>
              /\ Schema!Result(r).schema = Len(Schema!Result(r).ledger)
              /\ \A v, w \in 1..Len(Schema!Result(r).ledger) :
                   v < w /\ Schema!Result(r).ledger[w] = "adopted" => Schema!Result(r).ledger[v] = "adopted"
<1>1. CASE Operation[r] = "adopt"
  <2> DEFINE g == [v \in 1..migrating[r].through |-> "adopted"]
  <2>1. g \in Seq({"applied", "adopted"}) /\ Len(g) = migrating[r].through
    OBVIOUS
  <2>2. Schema!Result(r) = [db EXCEPT !.ledger = g]
    BY <1>1 DEF Schema!Result, Schema!Adopted
  <2>3. Schema!Result(r).ledger = g /\ Schema!Result(r) \in StateType
    BY <2>1, <2>2 DEF StateType
  <2>4. g # <<>> => Len(g) > 0
    BY <2>1
  <2>5. Len(g) > 0 => Schema!Result(r).schema = Len(g)
    BY <2>3 DEF Schema!Ready, Schema!Exact, Schema!Classification, Schema!Current
  <2> QED BY <1>1, <2>1, <2>3, <2>4, <2>5
<1>2. CASE Operation[r] # "adopt"
  <2> DEFINE g == Append(db.ledger, "applied")
  <2>1. g \in Seq({"applied", "adopted"}) /\ Len(g) = Len(db.ledger) + 1 /\ Len(db.ledger) \in Nat
    BY DEF StateType
  <2>2. Schema!Result(r) = [db EXCEPT !.ledger = g, !.schema = Len(db.ledger) + 1]
    BY <1>2 DEF Schema!Result, Schema!Applied, Schema!Current
  <2>4. \A v, w \in 1..Len(g) : v < w /\ g[w] = "adopted" => g[v] = "adopted"
    <3> SUFFICES ASSUME NEW v \in 1..Len(g), NEW w \in 1..Len(g), v < w, g[w] = "adopted" PROVE g[v] = "adopted"
      OBVIOUS
    <3>1. g[Len(db.ledger) + 1] = "applied" /\ \A n \in 1..Len(db.ledger) : g[n] = db.ledger[n]
      BY <2>1 DEF StateType
    <3>2. w # Len(db.ledger) + 1
      BY <3>1
    <3>3. v \in 1..Len(db.ledger) /\ w \in 1..Len(db.ledger)
      BY <2>1, <3>2
    <3>4. db.ledger # <<>>
      BY <3>3
    <3> HIDE DEF g
    <3> QED BY <3>1, <3>3, <3>4 DEF Schema!LedgerIsTheSchema
  <2> HIDE DEF g
  <2>3. Schema!Result(r).ledger = g /\ Schema!Result(r).schema = Len(g) /\ Schema!Result(r) \in StateType
    <3>1. Schema!Result(r).ledger = g /\ Schema!Result(r).schema = Len(g)
      BY <2>1, <2>2 DEF StateType
    <3>2. Len(g) \in Nat
      BY <2>1
    <3> QED BY <2>1, <2>2, <3>1, <3>2 DEF StateType
  <2> QED BY <1>2, <2>1, <2>3, <2>4
<1> QED BY <1>1, <1>2

LEMMA OpenHolds ==
  ASSUME Schema!MigrationConstants, MigrationInv, NEW r \in Runners, Schema!OpenTransaction(r) PROVE MigrationInv'
<1>0. /\ MigrationTyped /\ RunHolds(r) /\ MaxAttempts \in Nat \ {0} /\ None \notin StateType
      /\ migrating \in [Runners -> MigratingType] /\ migrating[r] \in MigratingType
      /\ db \in StateType /\ Schema!LedgerIsTheSchema /\ None # r
  BY DEF MigrationInv, Schema!MigrationConstants, MigrationTyped, StateType
<1>1. /\ migrating[r].phase = "ready" /\ lock = None /\ UNCHANGED <<db, rehearsed, trail>>
      /\ migrating[r].next <= migrating[r].through
  BY DEF Schema!OpenTransaction, Schema!At
<1>2. CASE Schema!To(r, "failed") /\ UNCHANGED <<lock, staged>>
  <2>1. ~InWork(r)'
    BY <1>0, <1>1, <1>2, PhaseMoves DEF InWork
  <2>2. RunHolds(r)'
    BY <1>0, <1>1, <1>2, <2>1, PhaseMoves DEF RunHolds
  <2> QED BY <1>0, <1>1, <1>2, <2>2, PhaseMoves, OneRun
<1>3. CASE /\ Schema!AsExpected(r) /\ Schema!Ready(Schema!Result(r), migrating[r].through)
           /\ lock' = r /\ staged' = Schema!Result(r)
           /\ migrating' = [migrating EXCEPT ![r].phase = "written", ![r].attempt = 0]
  <2> DEFINE t == [migrating[r] EXCEPT !.phase = "written", !.attempt = 0]
  <2>1. migrating' = [migrating EXCEPT ![r] = t]
    BY <1>0, <1>3
  <2>2. t \in MigratingType
    <3>1. 0 \in 0..MaxAttempts
      BY <1>0
    <3> QED BY <1>0, <3>1 DEF MigratingType
  <2>3. /\ t.phase = "written" /\ t.from = migrating[r].from /\ t.next = migrating[r].next
        /\ t.through = migrating[r].through /\ t.expected = migrating[r].expected /\ t.planned = migrating[r].planned
        /\ t.attempt = 0
    BY <1>0 DEF MigratingType
  <2> HIDE DEF t
  <2>4. migrating'[r] = t /\ \A x \in Runners \ {r} : migrating'[x] = migrating[x]
    BY <1>0, <2>1
  <2>5. /\ Schema!By(r)' = Schema!By(r) /\ Knows(r)' = Knows(r) /\ Outset(r)' = Outset(r)
        /\ NothingBetweenOf(r)' = NothingBetweenOf(r) /\ RehearsedOf(r)' = RehearsedOf(r)
        /\ \A f : Attests(f, r)' = Attests(f, r)
    BY <1>1, <2>3, <2>4, RunKeeps
  <2>6. InWork(r) /\ Progress(r)' = Progress(r)
    BY <1>1, <2>3, <2>4, <2>5 DEF InWork, Progress
  <2>7. RunHolds(r)'
    BY <1>0, <1>1, <2>3, <2>4, <2>5, <2>6 DEF RunHolds
  <2>8. \A x \in Runners \ {r} : RunHolds(x)'
    <3> SUFFICES ASSUME NEW x \in Runners \ {r} PROVE RunHolds(x)'
      OBVIOUS
    <3> QED BY <1>1, <1>3, <2>4, OthersHold
  <2>9. Knows(r) /\ migrating[r].through \in Nat
    BY <1>0, <1>1 DEF RunHolds, MigratingType
  <2>10. Schema!Result(r) \in StateType
    BY <1>0, <1>3, <2>9, ResultFacts
  <2>11. MigrationTyped'
    BY <1>0, <1>1, <1>3, <2>1, <2>2, <2>10 DEF MigrationTyped
  <2>12. LockHolds'
    <3>1. Schema!Result(r)' = Schema!Result(r) /\ Schema!AsExpected(r)' = Schema!AsExpected(r)
      BY <1>1, <2>3, <2>4 DEF Schema!Result, Schema!Adopted, Schema!Applied, Schema!Current, Schema!AsExpected, Schema!Known,
         Schema!Fingerprint, Schema!Inspected, Schema!Exact, Schema!Classification
    <3>2. Schema!Ready(staged, migrating[r].through)'
      BY <1>3, <2>3, <2>4 DEF Schema!Ready, Schema!Exact, Schema!Classification, Schema!Current
    <3>3. Schema!Result(lock)' = Schema!Result(r)' /\ Schema!AsExpected(lock)' = Schema!AsExpected(r)'
      BY <1>3 DEF Schema!Result, Schema!AsExpected
    <3>4. Schema!Ready(staged, migrating[lock].through)'
      BY <1>3, <3>2
    <3> QED BY <1>1, <1>3, <2>3, <2>4, <3>1, <3>3, <3>4 DEF LockHolds
  <2> QED BY <1>1, <2>7, <2>8, <2>11, <2>12 DEF MigrationInv, LedgerClimbs, Schema!LedgerIsTheSchema
<1> QED BY <1>2, <1>3 DEF Schema!OpenTransaction

(* The database and the runs stay.                                          *)
LEMMA AbortHolds ==
  ASSUME Schema!MigrationConstants, MigrationInv, lock' = None, staged' = None, UNCHANGED <<db, migrating, rehearsed, trail>>
  PROVE  MigrationInv'
<1>1. \A x \in Runners : RunHolds(x)'
  <2> SUFFICES ASSUME NEW x \in Runners PROVE RunHolds(x)'
    OBVIOUS
  <2>1. x # None
    BY DEF Schema!MigrationConstants
  <2> QED BY <2>1, OthersHold
<1> QED BY <1>1 DEF MigrationInv, MigrationTyped, LockHolds, LedgerClimbs, Schema!LedgerIsTheSchema

LEMMA RehearseHolds ==
  ASSUME Schema!MigrationConstants, MigrationInv, Schema!Rehearse PROVE MigrationInv'
<1>1. \A x \in Runners : RunHolds(x)'
  <2> SUFFICES ASSUME NEW x \in Runners PROVE RunHolds(x)'
    OBVIOUS
  <2> QED BY OthersHold DEF Schema!Rehearse
<1>2. rehearsed' \subseteq FingerType
  <2> DEFINE through == IF Schema!Classification(db) = "managed" THEN Schema!Current(db) ELSE db.schema
  <2>1. through \in Nat /\ db \in StateType
    BY DEF MigrationInv, MigrationTyped, StateType, Schema!Current
  <2>2. rehearsed' = rehearsed \cup {Schema!Fingerprint(db, through)}
    BY DEF Schema!Rehearse
  <2>3. Schema!Fingerprint(db, through) \in FingerType
    BY <2>1, FingerFacts
  <2> QED BY <2>2, <2>3 DEF MigrationInv, MigrationTyped
<1>3. LockHolds'
  BY DEF MigrationInv, LockHolds, Schema!Rehearse, Schema!Result, Schema!Adopted, Schema!Applied, Schema!Current, Schema!AsExpected, Schema!Known,
     Schema!Fingerprint, Schema!Inspected, Schema!Exact, Schema!Classification, Schema!Ready
<1> QED BY <1>1, <1>2, <1>3 DEF MigrationInv, MigrationTyped, LedgerClimbs, Schema!LedgerIsTheSchema, Schema!Rehearse

LEMMA WriteHolds ==
  ASSUME Schema!MigrationConstants, MigrationInv, Schema!Write PROVE MigrationInv'
<1>0. MigrationTyped /\ db \in StateType
  BY DEF MigrationInv, MigrationTyped
<1>1. lock = None /\ UNCHANGED <<lock, staged, migrating, rehearsed, trail>>
  BY DEF Schema!Write
<1>2. PICK fit \in BOOLEAN : db' = [db EXCEPT !.writes = @ + 1, !.fit = fit]
  BY DEF Schema!Write
<1>3. /\ db' \in StateType /\ db'.ledger = db.ledger /\ db'.schema = db.schema /\ db'.writes = db.writes + 1
      /\ db.writes \in Nat
  <2>1. db.writes \in Nat /\ db.writes + 1 \in Nat
    BY <1>0 DEF StateType
  <2>2. db' = [db EXCEPT !.writes = db.writes + 1, !.fit = fit]
    BY <1>0, <1>2 DEF StateType
  <2> QED BY <1>0, <2>1, <2>2 DEF StateType
<1>4. MigrationTyped'
  BY <1>0, <1>1, <1>3 DEF MigrationTyped
<1>7. ASSUME NEW x \in Runners PROVE RunHolds(x)'
  <2>0. RunHolds(x)
    BY DEF MigrationInv
  <2>1. Schema!By(x)' = Schema!By(x) /\ Schema!Inspected(db, migrating[x].through)' = Schema!Inspected(db, migrating[x].through)
    BY <1>1, <1>3 DEF Schema!By, Schema!Inspected, Schema!Exact, Schema!Classification, Schema!Current
  <2>2. /\ Knows(x)' = Knows(x) /\ Outset(x)' = Outset(x) /\ NothingBetweenOf(x)' = NothingBetweenOf(x)
        /\ RehearsedOf(x)' = RehearsedOf(x) /\ Progress(x)' = Progress(x) /\ InWork(x)' = InWork(x)
    BY <1>1, <1>3, <2>1 DEF Knows, Outset, NothingBetweenOf, RehearsedOf, Progress, InWork
  <2>3. AsSeen(x) => AsSeen(x)'
    BY <1>1, <1>3, <2>1 DEF AsSeen, Seen
  <2>4. \A f : Attests(f, x) => Attests(f, x)'
    BY <1>1, <1>3, <2>1 DEF Attests, Seen
  <2> QED BY <1>1, <2>0, <2>1, <2>2, <2>3, <2>4 DEF RunHolds
<1> QED BY <1>1, <1>3, <1>4, <1>7 DEF MigrationInv, LockHolds, LedgerClimbs, Schema!LedgerIsTheSchema

(* A commit, by its run or by the server alone.                             *)
LEMMA CommitFacts ==
  ASSUME Schema!MigrationConstants, MigrationInv, NEW r \in Runners, lock = r, Schema!Committed(r)
  PROVE  /\ Len(db.ledger) < Len(db'.ledger) /\ db' \in StateType /\ db'.schema <= LatestVersion
         /\ Schema!LedgerIsTheSchema' /\ trail' \in Seq(CommitType) /\ Len(trail) \in Nat
         /\ Len(trail') = Len(trail) + 1 /\ \A m \in 1..Len(trail) : trail'[m] = trail[m]
         /\ trail'[Len(trail) + 1].by = r /\ trail'[Len(trail) + 1].on = migrating[r].expected
         /\ migrating[r].expected = Schema!Fingerprint(db, migrating[r].through)
         /\ migrating[r].expected.ledger = db.ledger
         /\ Len(db'.ledger) = (IF Operation[r] = "adopt" THEN migrating[r].through ELSE migrating[r].next)
         /\ Operation[r] = "adopt" => migrating[r].next = 1 /\ Schema!By(r) = {}
         /\ lock' = None /\ rehearsed' = rehearsed
<1>0. /\ MigrationTyped /\ RunHolds(r) /\ Progress(r) /\ Knows(r) /\ LockHolds /\ r # None /\ Schema!LedgerIsTheSchema
      /\ Operation[r] \in {"adopt", "apply"} /\ LatestVersion \in Nat
  BY DEF MigrationInv, RunHolds, InWork, LockHolds, Schema!MigrationConstants
<1>1. /\ db' = staged /\ lock' = None /\ rehearsed' = rehearsed
      /\ trail' = Append(trail, [by |-> r, on |-> Schema!Fingerprint(db, migrating[r].through), schema |-> staged.schema])
  BY DEF Schema!Committed
<1>2. /\ db' = Schema!Result(r) /\ Schema!Ready(Schema!Result(r), migrating[r].through)
      /\ migrating[r].next <= migrating[r].through
      /\ migrating[r].expected = Schema!Fingerprint(db, migrating[r].through)
  BY <1>0, <1>1 DEF LockHolds, Schema!AsExpected
<1>3. /\ db \in StateType /\ migrating[r].through \in Nat /\ migrating[r].next \in Nat /\ trail \in Seq(CommitType)
      /\ Len(trail) \in Nat /\ migrating[r].through <= LatestVersion /\ Len(db.ledger) \in Nat
  BY <1>0 DEF MigrationTyped, MigratingType, Knows, StateType
<1>4. migrating[r].expected.ledger = db.ledger /\ migrating[r].expected \in FingerType
  <2>1. LET f == Schema!Fingerprint(db, migrating[r].through) IN f \in FingerType /\ f.ledger = db.ledger
    BY <1>3, FingerFacts
  <2> QED BY <1>2, <2>1
<1>5. Len(db.ledger) + 1 = migrating[r].next
  BY <1>0, <1>4 DEF Progress
<1>6. Operation[r] = "adopt" => migrating[r].next = 1 /\ Schema!By(r) = {}
  BY <1>0, <1>2, <1>3 DEF Progress
<1>7. /\ db' \in StateType
      /\ Len(db'.ledger) = (IF Operation[r] = "adopt" THEN migrating[r].through ELSE migrating[r].next)
      /\ db'.ledger # <<>> =>
           /\ db'.schema = Len(db'.ledger)
           /\ \A v, w \in 1..Len(db'.ledger) : v < w /\ db'.ledger[w] = "adopted" => db'.ledger[v] = "adopted"
  BY <1>0, <1>2, <1>3, <1>5, ResultFacts
<1>8. Len(db.ledger) < Len(db'.ledger) /\ Len(db'.ledger) <= migrating[r].through
  BY <1>0, <1>2, <1>3, <1>5, <1>6, <1>7
<1>9. db'.ledger # <<>>
  BY <1>3, <1>8
<1>10. db'.schema <= LatestVersion
  <2>1. db'.schema = Len(db'.ledger) /\ Len(db'.ledger) \in Nat
    BY <1>7, <1>9 DEF StateType
  <2> QED BY <1>0, <1>3, <1>8, <2>1
<1>11. Schema!LedgerIsTheSchema'
  BY <1>7 DEF Schema!LedgerIsTheSchema
<1>12. [by |-> r, on |-> Schema!Fingerprint(db, migrating[r].through), schema |-> staged.schema] \in CommitType
  <2>1. staged.schema \in Nat
    BY <1>1, <1>7 DEF StateType
  <2> QED BY <1>2, <1>4, <2>1 DEF CommitType
<1>13. /\ trail' \in Seq(CommitType) /\ Len(trail') = Len(trail) + 1 /\ \A m \in 1..Len(trail) : trail'[m] = trail[m]
       /\ trail'[Len(trail) + 1] = [by |-> r, on |-> Schema!Fingerprint(db, migrating[r].through), schema |-> staged.schema]
  <2> HIDE DEF CommitType
  <2> QED BY <1>1, <1>3, <1>12
<1> QED BY <1>1, <1>2, <1>3, <1>4, <1>6, <1>7, <1>8, <1>10, <1>11, <1>13

LEMMA CommitOfAnother ==
  ASSUME Schema!MigrationConstants, MigrationInv, NEW r \in Runners, lock = r, Schema!Committed(r),
         NEW x \in Runners, x # r, migrating'[x] = migrating[x]
  PROVE  RunHolds(x)'
<1>0. RunHolds(x) /\ MigrationTyped /\ Len(db.ledger) \in Nat /\ trail \in Seq(CommitType)
  BY DEF MigrationInv, MigrationTyped, StateType
<1>1. /\ Len(db.ledger) < Len(db'.ledger) /\ Len(trail) \in Nat /\ db' \in StateType
      /\ Len(trail') = Len(trail) + 1 /\ \A m \in 1..Len(trail) : trail'[m] = trail[m]
      /\ trail'[Len(trail) + 1].by = r /\ trail'[Len(trail) + 1].on.ledger = db.ledger
      /\ lock' = None /\ rehearsed' = rehearsed
  BY CommitFacts
<1>2. Schema!By(x)' = Schema!By(x) /\ Schema!By(x) \subseteq 1..Len(trail)
  BY <1>1 DEF Schema!By
<1>3. Knows(x) => Knows(x)'
  <2> SUFFICES ASSUME Knows(x) PROVE Knows(x)'
    OBVIOUS
  <2>1. /\ migrating[x].planned \in Nat /\ Len(migrating[x].expected.ledger) \in Nat
        /\ migrating[x].planned <= Len(trail) /\ Len(migrating[x].expected.ledger) <= Len(db.ledger)
    BY <1>0 DEF Knows, MigrationTyped, MigratingType, FingerType
  <2>2. \A m \in migrating[x].planned + 1..Len(trail') :
          trail'[m].by # x => Len(migrating[x].expected.ledger) <= Len(trail'[m].on.ledger)
    <3> SUFFICES ASSUME NEW m \in migrating[x].planned + 1..Len(trail'), trail'[m].by # x
                 PROVE Len(migrating[x].expected.ledger) <= Len(trail'[m].on.ledger)
      OBVIOUS
    <3>1. CASE m = Len(trail) + 1
      BY <1>1, <2>1, <3>1
    <3>2. CASE m # Len(trail) + 1
      <4>1. m \in migrating[x].planned + 1..Len(trail) /\ m \in 1..Len(trail)
        BY <1>1, <2>1, <3>2
      <4> QED BY <1>1, <4>1 DEF Knows
    <3> QED BY <3>1, <3>2
  <2> QED BY <1>1, <2>1, <2>2 DEF Knows
<1>4. Outset(x)' = Outset(x) /\ Progress(x)' = Progress(x)
  BY <1>2 DEF Outset, Progress
<1>5. Knows(x) => AsSeen(x)'
  <2> SUFFICES ASSUME Knows(x) PROVE AsSeen(x)'
    OBVIOUS
  <2>1. /\ Len(migrating[x].expected.ledger) \in Nat /\ Len(migrating[x].expected.ledger) <= Len(db.ledger)
        /\ Len(db'.ledger) \in Nat
    BY <1>1 DEF Knows, FingerType, StateType
  <2> QED BY <1>0, <1>1, <2>1 DEF AsSeen
<1>6. InWork(x)' => InWork(x)
  BY <1>1 DEF InWork, Schema!MigrationConstants
<1>7. \A f \in rehearsed : Attests(f, x) => Attests(f, x)'
  <2> SUFFICES ASSUME NEW f \in rehearsed, Attests(f, x) PROVE Attests(f, x)'
    OBVIOUS
  <2>1. Len(f.ledger) \in Nat /\ Len(db'.ledger) \in Nat
    BY <1>0, <1>1 DEF MigrationTyped, FingerType, StateType
  <2>2. Len(f.ledger) <= Len(db'.ledger) /\ Len(f.ledger) # Len(db'.ledger)
    BY <1>0, <1>1, <2>1 DEF Attests
  <2> QED BY <2>2 DEF Attests
<1>8. NothingBetweenOf(x) => NothingBetweenOf(x)'
  <2> SUFFICES ASSUME NothingBetweenOf(x), NEW n \in Schema!By(x), NEW m \in migrating[x].planned + 1..n PROVE trail'[m].by = x
    BY <1>2 DEF NothingBetweenOf
  <2>1. migrating[x].planned \in Nat /\ n \in 1..Len(trail)
    BY <1>0, <1>2 DEF MigrationTyped, MigratingType
  <2>2. m \in 1..Len(trail)
    BY <1>1, <2>1
  <2> QED BY <1>1, <2>2 DEF NothingBetweenOf
<1>9. RehearsedOf(x) => RehearsedOf(x)'
  BY <1>1, <1>2 DEF RehearsedOf
<1> QED BY <1>0, <1>1, <1>2, <1>3, <1>4, <1>5, <1>6, <1>7, <1>8, <1>9 DEF RunHolds

LEMMA OwnCommit ==
  ASSUME Schema!MigrationConstants, MigrationInv, NEW r \in Runners, lock = r, Schema!Committed(r),
         migrating'[r].planned = migrating[r].planned, migrating'[r].through = migrating[r].through,
         migrating'[r].from = migrating[r].from
  PROVE  /\ \A m \in migrating[r].planned + 1..Len(trail') : trail'[m].by = r
         /\ NothingBetweenOf(r)' /\ (r \in Remote => RehearsedOf(r)')
         /\ Cardinality(Schema!By(r)') = Cardinality(Schema!By(r)) + 1
<1>0. /\ RunHolds(r) /\ Progress(r) /\ Knows(r) /\ MigrationTyped /\ LedgerClimbs
      /\ Operation[r] \in {"adopt", "apply"} /\ migrating[r].next <= migrating[r].through
      /\ r \in Remote => \E f \in rehearsed : Attests(f, r)
  BY DEF MigrationInv, RunHolds, InWork, LockHolds, Schema!MigrationConstants
<1>1. /\ Len(db.ledger) < Len(db'.ledger) /\ Len(trail) \in Nat
      /\ Len(trail') = Len(trail) + 1 /\ \A m \in 1..Len(trail) : trail'[m] = trail[m]
      /\ trail'[Len(trail) + 1].by = r /\ trail'[Len(trail) + 1].on = migrating[r].expected
      /\ migrating[r].expected = Schema!Fingerprint(db, migrating[r].through)
      /\ migrating[r].expected.ledger = db.ledger
      /\ Operation[r] = "adopt" => migrating[r].next = 1 /\ Schema!By(r) = {}
      /\ rehearsed' = rehearsed
  BY CommitFacts
<1>2. /\ trail \in Seq(CommitType) /\ db \in StateType /\ migrating[r].planned \in Nat /\ migrating[r].through \in Nat
      /\ migrating[r].next \in Nat /\ migrating[r].from \in Nat /\ Len(db.ledger) \in Nat /\ rehearsed \subseteq FingerType
  BY <1>0 DEF MigrationTyped, MigratingType, StateType
<1>3. Schema!By(r)' = Schema!By(r) \cup {Len(trail) + 1} /\ Len(trail) + 1 \notin Schema!By(r)
  BY <1>1 DEF Schema!By
<1>4. Cardinality(Schema!By(r)') = Cardinality(Schema!By(r)) + 1 /\ Cardinality(Schema!By(r)) \in Nat
  BY <1>2, <1>3, ByIsFinite, FS_AddElement
<1>5. \A m \in migrating[r].planned + 1..Len(trail') : trail'[m].by = r
  <2> SUFFICES ASSUME NEW m \in migrating[r].planned + 1..Len(trail'), m # Len(trail) + 1 PROVE trail'[m].by = r
    BY <1>1
  <2>1. m \in migrating[r].planned + 1..Len(trail) /\ m \in 1..Len(trail)
    BY <1>1, <1>2
  <2>2. Len(trail[m].on.ledger) < Len(db.ledger)
    BY <1>0, <2>1 DEF LedgerClimbs
  <2>3. Len(trail[m].on.ledger) \in Nat
    <3>1. trail[m] \in CommitType
      BY <1>2, <2>1
    <3> QED BY <3>1 DEF CommitType, FingerType
  <2>4. trail[m].by = r
    BY <1>0, <1>1, <1>2, <2>1, <2>2, <2>3 DEF Knows
  <2> QED BY <1>1, <2>1, <2>4
<1>6. NothingBetweenOf(r)'
  <2> SUFFICES ASSUME NEW n \in Schema!By(r)', NEW m \in migrating[r].planned + 1..n PROVE trail'[m].by = r
    BY DEF NothingBetweenOf
  <2>1. n \in 1..Len(trail')
    BY DEF Schema!By
  <2>2. m \in migrating[r].planned + 1..Len(trail')
    BY <1>1, <1>2, <2>1
  <2> QED BY <1>5, <2>2
<1>7. ASSUME r \in Remote PROVE RehearsedOf(r)'
  <2>1. Schema!By(r) = {}
    <3>1. CASE Operation[r] = "adopt"
      BY <1>1, <3>1
    <3>2. CASE Operation[r] = "apply"
      <4>1. /\ Cardinality(Schema!By(r)) + migrating[r].from + 1 = migrating[r].next
            /\ migrating[r].from + 1 = migrating[r].through
        BY <1>0, <1>7, <3>2 DEF Progress
      <4>2. Cardinality(Schema!By(r)) = 0
        BY <1>0, <1>2, <1>4, <4>1
      <4> QED BY <1>2, <4>2, ByIsFinite
    <3> QED BY <1>0, <3>1, <3>2
  <2>2. Schema!By(r)' = {Len(trail) + 1} /\ Cardinality(Schema!By(r)') = 1
    <3>1. Cardinality({}) = 0
      BY FS_EmptySet
    <3> QED BY <1>3, <1>4, <2>1, <3>1
  <2>3. PICK f \in rehearsed : Attests(f, r)
    BY <1>0, <1>7
  <2>4. Len(f.ledger) = Len(db.ledger)
    <3>1. Len(f.ledger) \in Nat
      BY <1>2 DEF FingerType
    <3> QED BY <1>1, <1>2, <2>3, <3>1 DEF Attests
  <2>5. f.ledger = migrating[r].expected.ledger /\ f.schema = migrating[r].expected.schema
    BY <1>1, <2>3, <2>4 DEF Attests, Schema!Fingerprint
  <2>6. f.members \in {None, migrating[r].expected.members}
    <3> SUFFICES ASSUME f.members # None PROVE f.members = migrating[r].expected.members
      OBVIOUS
    <3>1. /\ Schema!Inspected(db, migrating[r].through) /\ f.members \in Nat \X BOOLEAN /\ Seen(f.members, db)
          /\ migrating[r].expected.members[1] <= f.members[1]
      BY <1>1, <2>3, <2>4 DEF Attests
    <3>2. migrating[r].expected.members = <<db.writes, db.fit>>
      BY <1>1, <3>1 DEF Schema!Fingerprint
    <3>3. db.writes \in Nat /\ f.members[1] \in Nat
      BY <1>2, <3>1 DEF StateType
    <3>4. f.members[1] = db.writes
      BY <3>1, <3>2, <3>3 DEF Seen
    <3> QED BY <3>1, <3>2, <3>4 DEF Seen
  <2> QED BY <1>1, <2>2, <2>5, <2>6 DEF RehearsedOf
<1> QED BY <1>4, <1>5, <1>6, <1>7

(* What a commit does to the rest.                                          *)
LEMMA CommitHolds ==
  ASSUME Schema!MigrationConstants, MigrationInv, NEW r \in Runners, lock = r, Schema!Committed(r),
         migrating' = [migrating EXCEPT ![r] = migrating'[r]], migrating'[r] \in MigratingType, RunHolds(r)'
  PROVE  MigrationInv'
<1>0. MigrationTyped /\ LedgerClimbs
  BY DEF MigrationInv
<1>1. /\ Len(db.ledger) < Len(db'.ledger) /\ db' \in StateType /\ db'.schema <= LatestVersion
      /\ Schema!LedgerIsTheSchema' /\ trail' \in Seq(CommitType) /\ Len(trail) \in Nat
      /\ Len(trail') = Len(trail) + 1 /\ \A m \in 1..Len(trail) : trail'[m] = trail[m]
      /\ trail'[Len(trail) + 1].on.ledger = db.ledger /\ lock' = None /\ rehearsed' = rehearsed
  BY CommitFacts
<1>2. \A x \in Runners : RunHolds(x)'
  <2> SUFFICES ASSUME NEW x \in Runners, x # r PROVE RunHolds(x)'
    OBVIOUS
  <2>1. migrating'[x] = migrating[x]
    BY <1>0 DEF MigrationTyped
  <2> QED BY <2>1, CommitOfAnother
<1>3. LedgerClimbs'
  <2> SUFFICES ASSUME NEW m \in 1..Len(trail') PROVE Len(trail'[m].on.ledger) < Len(db'.ledger)
    BY DEF LedgerClimbs
  <2>1. Len(db.ledger) \in Nat /\ Len(db'.ledger) \in Nat /\ Len(trail'[m].on.ledger) \in Nat
    <3>1. trail'[m] \in CommitType
      BY <1>1
    <3>2. Len(trail'[m].on.ledger) \in Nat
      BY <3>1 DEF CommitType, FingerType
    <3> QED BY <1>0, <1>1, <3>2 DEF MigrationTyped, StateType
  <2>2. Len(trail'[m].on.ledger) <= Len(db.ledger)
    <3>1. CASE m = Len(trail) + 1
      BY <1>1, <2>1, <3>1
    <3>2. CASE m # Len(trail) + 1
      <4>1. m \in 1..Len(trail)
        BY <1>1, <3>2
      <4>2. Len(trail[m].on.ledger) < Len(db.ledger) /\ trail'[m] = trail[m]
        BY <1>0, <1>1, <4>1 DEF LedgerClimbs
      <4> QED BY <2>1, <4>2
    <3> QED BY <3>1, <3>2
  <2> QED BY <1>1, <2>1, <2>2
<1>4. MigrationTyped'
  <2>1. staged' = None
    BY DEF Schema!Committed
  <2> QED BY <1>0, <1>1, <2>1 DEF MigrationTyped
<1> QED BY <1>1, <1>2, <1>3, <1>4 DEF MigrationInv, LockHolds

LEMMA RunCommits ==
  ASSUME Schema!MigrationConstants, MigrationInv, NEW r \in Runners, Schema!Commit(r) PROVE MigrationInv'
<1> DEFINE t == [migrating[r] EXCEPT !.phase = "ready", !.expected = Schema!Fingerprint(staged, migrating[r].through),
                                     !.next = Schema!Current(staged) + 1]
<1>0. /\ MigrationTyped /\ RunHolds(r) /\ lock = r /\ Schema!Committed(r) /\ migrating[r].phase = "written"
      /\ migrating \in [Runners -> MigratingType] /\ migrating[r] \in MigratingType /\ db' = staged
      /\ Operation[r] \in {"adopt", "apply"} /\ r # None
  BY DEF MigrationInv, MigrationTyped, Schema!Commit, Schema!At, Schema!Committed, Schema!MigrationConstants
<1>1. migrating' = [migrating EXCEPT ![r] = t]
  BY <1>0 DEF Schema!Commit
<1>2. Progress(r) /\ Knows(r) /\ migrating[r].next <= migrating[r].through /\ migrating[r].attempt < MaxAttempts
  BY <1>0 DEF RunHolds, InWork, MigrationInv, LockHolds
<1>3. /\ Len(db.ledger) < Len(db'.ledger) /\ db' \in StateType /\ Len(trail) \in Nat /\ Len(trail') = Len(trail) + 1
      /\ Len(db'.ledger) = (IF Operation[r] = "adopt" THEN migrating[r].through ELSE migrating[r].next)
      /\ Operation[r] = "adopt" => migrating[r].next = 1 /\ Schema!By(r) = {}
      /\ lock' = None
  BY <1>0, CommitFacts
<1>4. /\ migrating[r].through \in Nat /\ migrating[r].next \in Nat /\ migrating[r].from \in Nat /\ migrating[r].planned \in Nat
      /\ migrating[r].planned <= Len(trail) /\ migrating[r].through \in 1..LatestVersion /\ trail \in Seq(CommitType)
  BY <1>0, <1>2 DEF MigratingType, Knows, MigrationTyped
<1>5. /\ Schema!Fingerprint(staged, migrating[r].through) \in FingerType
      /\ Schema!Fingerprint(staged, migrating[r].through).ledger = staged.ledger
  <2>1. staged \in StateType
    BY <1>0, <1>3
  <2> QED BY <1>4, <2>1, FingerFacts
<1>6. Schema!Current(staged) \in Nat /\ Schema!Current(staged) = Len(db'.ledger)
  BY <1>0, <1>3 DEF Schema!Current, StateType
<1>7. t \in MigratingType
  <2>1. Schema!Current(staged) + 1 \in Nat
    BY <1>6
  <2> QED BY <1>0, <1>5, <2>1 DEF MigratingType
<1>8. /\ t.phase = "ready" /\ t.next = Len(db'.ledger) + 1 /\ t.expected \in FingerType /\ t.expected.ledger = db'.ledger
      /\ t.from = migrating[r].from /\ t.planned = migrating[r].planned /\ t.through = migrating[r].through
      /\ t.attempt = migrating[r].attempt
  BY <1>0, <1>5, <1>6 DEF MigratingType
<1> HIDE DEF t
<1>9. migrating'[r] = t
  BY <1>0, <1>1
<1>10. /\ \A m \in migrating[r].planned + 1..Len(trail') : trail'[m].by = r
       /\ NothingBetweenOf(r)' /\ (r \in Remote => RehearsedOf(r)')
       /\ Cardinality(Schema!By(r)') = Cardinality(Schema!By(r)) + 1
  BY <1>0, <1>8, <1>9, OwnCommit
<1>11. Knows(r)'
  <2>1. /\ migrating'[r].expected \in FingerType /\ migrating'[r].through \in 1..LatestVersion
        /\ migrating'[r].planned = migrating[r].planned /\ migrating'[r].expected.ledger = db'.ledger
    BY <1>4, <1>8, <1>9
  <2>2. migrating'[r].planned <= Len(trail') /\ Len(migrating'[r].expected.ledger) <= Len(db'.ledger)
    BY <1>3, <1>4, <2>1 DEF StateType
  <2>3. \A m \in migrating'[r].planned + 1..Len(trail') : trail'[m].by = r
    BY <1>10, <2>1
  <2> QED BY <2>1, <2>2, <2>3 DEF Knows
<1>12. Cardinality(Schema!By(r)) \in Nat /\ Cardinality({}) = 0
  BY <1>4, ByIsFinite, FS_EmptySet
<1>13. Progress(r)' /\ (r \in Remote => t.next > t.through)
  <2>1. CASE Operation[r] = "adopt"
    <3>1. t.next = migrating[r].through + 1
      BY <1>3, <1>8, <2>1
    <3>2. Cardinality(Schema!By(r)') = 1
      <4>1. Schema!By(r) = {}
      BY <1>3, <2>1
    <4>2. Cardinality(Schema!By(r)) = 0
      BY <1>12, <4>1
    <4>3. Cardinality(Schema!By(r)') = Cardinality(Schema!By(r)) + 1
      BY <1>10
    <4> QED BY <4>2, <4>3
    <3> QED BY <1>4, <1>8, <1>9, <2>1, <3>1, <3>2 DEF Progress
  <2>2. CASE Operation[r] = "apply"
    <3>1. t.next = migrating[r].next + 1
      BY <1>3, <1>8, <2>2
    <3>2. Cardinality(Schema!By(r)) + migrating[r].from + 1 = migrating[r].next
      BY <1>2, <2>2 DEF Progress
    <3>3. Cardinality(Schema!By(r)') + t.from + 1 = t.next
      <4>1. Cardinality(Schema!By(r)') = Cardinality(Schema!By(r)) + 1 /\ t.from = migrating[r].from
        BY <1>8, <1>10
      <4>2. \A c, a, n \in Nat : c + a + 1 = n => (c + 1) + a + 1 = n + 1
        OBVIOUS
      <4> QED BY <1>4, <1>12, <3>1, <3>2, <4>1, <4>2
    <3>4. r \in Remote => t.from + 1 = t.through
      BY <1>2, <1>8, <2>2 DEF Progress
    <3>5. r \in Remote => t.next > t.through
      BY <1>4, <1>8, <1>12, <3>1, <3>2, <3>4
    <3>6. t.next <= t.through + 1 /\ Len(t.expected.ledger) + 1 = t.next
      BY <1>2, <1>4, <1>8, <3>1
    <3> QED BY <1>9, <2>2, <3>3, <3>4, <3>5, <3>6 DEF Progress
  <2> QED BY <1>0, <2>1, <2>2
<1>14. RunHolds(r)'
  <2>1. r \in Remote => ~(t.next <= t.through)
    BY <1>4, <1>8, <1>13, <1>6
  <2> QED BY <1>2, <1>8, <1>9, <1>10, <1>11, <1>13, <2>1 DEF RunHolds
<1> QED BY <1>0, <1>1, <1>7, <1>9, <1>14, CommitHolds

LEMMA ServerCommits ==
  ASSUME Schema!MigrationConstants, MigrationInv, NEW r \in Runners, lock = r, migrating[r].phase # "written",
         Schema!Committed(r), UNCHANGED migrating
  PROVE  MigrationInv'
<1>0. /\ MigrationTyped /\ RunHolds(r) /\ migrating[r].phase = "failed" /\ r # None
      /\ migrating \in [Runners -> MigratingType] /\ migrating[r] \in MigratingType
  BY DEF MigrationInv, MigrationTyped, LockHolds, Schema!MigrationConstants
<1>1. /\ Len(db.ledger) < Len(db'.ledger) /\ db' \in StateType /\ Len(trail) \in Nat /\ Len(trail') = Len(trail) + 1 /\ lock' = None
  BY CommitFacts
<1>2. /\ \A m \in migrating[r].planned + 1..Len(trail') : trail'[m].by = r
      /\ NothingBetweenOf(r)' /\ (r \in Remote => RehearsedOf(r)')
  BY OwnCommit
<1>3. Knows(r)'
  <2>1. Knows(r)
    BY <1>0 DEF RunHolds
  <2>2. /\ Len(db.ledger) \in Nat /\ Len(db'.ledger) \in Nat /\ Len(migrating[r].expected.ledger) \in Nat
        /\ migrating[r].planned \in Nat
    BY <1>0, <1>1, <2>1 DEF Knows, MigrationTyped, MigratingType, StateType, FingerType
  <2>3. /\ migrating'[r].expected \in FingerType /\ migrating'[r].through \in 1..LatestVersion
        /\ migrating'[r].planned = migrating[r].planned
    BY <2>1 DEF Knows
  <2>4. migrating'[r].planned <= Len(trail') /\ Len(migrating'[r].expected.ledger) <= Len(db'.ledger)
    BY <1>1, <2>1, <2>2 DEF Knows
  <2>5. \A m \in migrating'[r].planned + 1..Len(trail') : trail'[m].by = r
    BY <1>2, <2>3
  <2> QED BY <2>3, <2>4, <2>5 DEF Knows
<1>4. RunHolds(r)'
  BY <1>0, <1>1, <1>2, <1>3 DEF RunHolds, InWork
<1> QED BY <1>0, <1>4, CommitHolds

LEMMA MigrationKept == ASSUME Schema!MigrationConstants, MigrationInv, Schema!Next PROVE MigrationInv'
<1>1. CASE Schema!Rehearse \/ Schema!Write
  BY <1>1, RehearseHolds, WriteHolds
<1>2. ASSUME NEW r \in Runners, Schema!ServerEnds(r) PROVE MigrationInv'
  <2>1. lock = r /\ migrating[r].phase # "written" /\ UNCHANGED migrating
    BY <1>2 DEF Schema!ServerEnds, Schema!At
  <2>2. CASE Schema!Committed(r)
    BY <2>1, <2>2, ServerCommits
  <2>3. CASE lock' = None /\ staged' = None /\ UNCHANGED <<db, rehearsed, trail>>
    BY <2>1, <2>3, AbortHolds
  <2> QED BY <1>2, <2>2, <2>3 DEF Schema!ServerEnds
<1>3. ASSUME NEW r \in Runners, \/ Schema!Plan(r) \/ Schema!Bind(r) \/ Schema!Start(r) \/ Schema!OpenTransaction(r)
                                \/ Schema!Busy(r) \/ Schema!Commit(r) \/ Schema!Lose(r) \/ Schema!Stop(r) \/ Schema!Finish(r)
      PROVE MigrationInv'
  BY <1>3, PlanHolds, BindHolds, StartHolds, OpenHolds, BusyHolds, RunCommits, StopsHold, FinishHolds
<1> QED BY <1>1, <1>2, <1>3 DEF Schema!Next

(* The ledger tells the schema; a run writes on nothing but what its         *)
(* operator saw; its report is true, a refusal too; and production changes   *)
(* only by the one version after a state that a rehearsal restored: for any  *)
(* runs, versions and retries, with transactions that the server ends long   *)
(* after their runs (db/migration-runner.js).                               *)
THEOREM MigrationsAreSafe ==
  ASSUME Schema!MigrationConstants
  PROVE  Schema!Spec => [](/\ Schema!TypeOK /\ Schema!LedgerIsTheSchema /\ Schema!NothingBetween
                           /\ Schema!ReportsAreTrue /\ Schema!ProductionIsRehearsed)
<1>1. Schema!Init => MigrationInv
  BY MigrationBegins
<1>2. MigrationInv /\ [Schema!Next]_(Schema!migrationVars) => MigrationInv'
  <2>1. ASSUME MigrationInv, UNCHANGED Schema!migrationVars PROVE MigrationInv'
    <3>1. \A x \in Runners : RunHolds(x)'
      <4> SUFFICES ASSUME NEW x \in Runners PROVE RunHolds(x)'
        OBVIOUS
      <4> QED BY <2>1, OthersHold DEF Schema!migrationVars
    <3>2. LockHolds'
      BY <2>1 DEF MigrationInv, LockHolds, Schema!migrationVars, Schema!Result, Schema!Adopted, Schema!Applied, Schema!Current,
         Schema!AsExpected, Schema!Known, Schema!Fingerprint, Schema!Inspected, Schema!Exact, Schema!Classification, Schema!Ready
    <3> QED BY <2>1, <3>1, <3>2 DEF MigrationInv, MigrationTyped, LedgerClimbs, Schema!LedgerIsTheSchema, Schema!migrationVars
  <2> QED BY <2>1, MigrationKept
<1>3. MigrationInv => /\ Schema!TypeOK /\ Schema!LedgerIsTheSchema /\ Schema!NothingBetween
                      /\ Schema!ReportsAreTrue /\ Schema!ProductionIsRehearsed
  <2> SUFFICES ASSUME MigrationInv PROVE /\ Schema!TypeOK /\ Schema!LedgerIsTheSchema /\ Schema!NothingBetween
                                         /\ Schema!ReportsAreTrue /\ Schema!ProductionIsRehearsed
    OBVIOUS
  <2>0. MigrationTyped /\ LockHolds /\ \A r \in Runners : RunHolds(r)
    BY DEF MigrationInv
  <2>1. \A S : Schema!Cardinality(S) = Cardinality(S)
    BY Zenon DEF Schema!Cardinality, Cardinality
  <2>2. Schema!TypeOK
    BY <2>0 DEF MigrationTyped, MigratingType, StateType, Schema!TypeOK
  <2>3. Schema!NothingBetween
    BY <2>0 DEF RunHolds, NothingBetweenOf, Schema!NothingBetween
  <2>4. Schema!ReportsAreTrue
    <3> SUFFICES ASSUME NEW r \in Runners
                 PROVE /\ migrating[r].phase = "ok" =>
                            Cardinality(Schema!By(r)) =
                              (IF Operation[r] = "adopt" THEN 1 ELSE migrating[r].through - migrating[r].from)
                       /\ migrating[r].phase = "refused" => Schema!By(r) = {} /\ lock # r
      BY <2>1 DEF Schema!ReportsAreTrue
    <3>1. /\ Cardinality(Schema!By(r)) \in Nat /\ migrating[r].through \in Nat /\ migrating[r].from \in Nat
      BY <2>0, ByIsFinite DEF MigrationTyped, MigratingType
    <3>2. CASE migrating[r].phase = "ok"
      BY <2>0, <3>1, <3>2 DEF RunHolds
    <3>3. CASE migrating[r].phase = "refused"
      <4>1. r # None
        BY DEF Schema!MigrationConstants
      <4>2. Schema!By(r) = {}
        BY <2>0, <3>3 DEF RunHolds
      <4>3. lock # r
        BY <2>0, <3>3, <4>1 DEF LockHolds
      <4> QED BY <3>3, <4>2, <4>3
    <3> QED BY <3>2, <3>3
  <2>5. Schema!ProductionIsRehearsed
    <3> SUFFICES ASSUME NEW r \in Remote, r \in Runners
                 PROVE \A n \in Schema!By(r) :
                         /\ Cardinality(Schema!By(r)) = 1
                         /\ \E f \in rehearsed : f.ledger = trail[n].on.ledger /\ f.schema = trail[n].on.schema
                                                 /\ f.members \in {None, trail[n].on.members}
      BY <2>1 DEF Schema!ProductionIsRehearsed, Schema!MigrationConstants
    <3> QED BY <2>0 DEF RunHolds, RehearsedOf
  <2> QED BY <2>2, <2>3, <2>4, <2>5 DEF MigrationInv
<1> QED BY <1>1, <1>2, <1>3, PTL DEF Schema!Spec
============================================================================
