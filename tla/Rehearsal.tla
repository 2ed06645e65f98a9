----------------------------- MODULE Rehearsal -----------------------------
(* The weekly backup and restore rehearsal: scripts/turso-backup-restore-    *)
(* rehearsal.mjs with its run, its cleanup mode and its private journal, the *)
(* monitor that judges the two summaries, and the workflow that calls them.  *)
(* The run blocks the writes of production, reads the evidence of its rows,  *)
(* branches a disposable database from the same instant, lifts the block,    *)
(* compares, migrates the branch, and deletes it.                            *)
(*                                                                           *)
(* The platform's requests are sent over a network: an answer may be lost,   *)
(* and a request that timed out, or was in flight when its process was       *)
(* killed, may still be carried out later.  A database's content is a        *)
(* counter of its writes.                                                    *)
EXTENDS Naturals, FiniteSets

CONSTANTS Expected,      \* TURSO_PRODUCTION_EXPECTED_BLOCK_WRITES
          Selected,      \* the schema version of production
          Latest,        \* LATEST_MIGRATION_VERSION
          MaxAttempts,   \* attempts of one change of the write state (3)
          MaxWrites,     \* bound: writes of the application
          MaxMeddling,   \* bound: changes an operator makes by hand
          None

(* Assumed of every instance.                                                *)
RehearsalConstants ==
    /\ Expected \in BOOLEAN
    /\ Latest \in Nat /\ Selected \in 0 .. Latest
    /\ MaxAttempts \in Nat \ {0}
    /\ {MaxWrites, MaxMeddling} \subseteq Nat

VARIABLES
    source,     \* production: [blocked, data, version]
    late,       \* changes of the write state still on their way
    slot,       \* the restore's name: [whose, data, version], whose "nobody", "ours", "other" or "coming"
    journal,    \* state.json: None or [status, restored, attempted, id, deleted]
    run,        \* the process at work: [pc, tries, acked, touched, attempted, id, err, deleted]
    seen,       \* what it has read: [pitr, source, restored]
    report,     \* the job: [rehearsal, cleanup, alert]
    ghost       \* [meddled, overtaken, born, kept]

vars == <<source, late, slot, journal, run, seen, report, ghost>>

Body == {"identity", "prepare", "block", "locked", "evidence", "create", "created",
         "unblock", "unblocked", "ready", "compare", "migrate", "verify"}
Finally == {"f_unblock", "f_delete", "f_journal", "result"}
Cleanup == {"c_read", "c_state", "c_delete"}
Setters == {"block", "unblock", "f_unblock", "c_state"}

AllEvidence == [rows : 0 .. MaxWrites, version : {Selected}]
TypeOK ==
    /\ source \in [blocked : BOOLEAN, data : 0 .. MaxWrites, version : {Selected}]
    /\ late \subseteq BOOLEAN
    /\ slot \in [whose : {"nobody", "ours", "other", "coming"}, data : 0 .. MaxWrites + 1, version : {Selected, Latest}]
    /\ \/ journal = None
       \/ journal \in [status : {"prepared", "active", "failed_clean", "recovery_required", "complete"},
                       restored : BOOLEAN, attempted : BOOLEAN, id : BOOLEAN, deleted : BOOLEAN]
    /\ run \in [pc : Body \cup Finally \cup Cleanup \cup {"monitor", "over"}, tries : 0 .. MaxAttempts,
                acked : BOOLEAN, touched : BOOLEAN, attempted : BOOLEAN, id : BOOLEAN,
                err : BOOLEAN, deleted : BOOLEAN]
    /\ seen \in [pitr : 0 .. MaxWrites, source : AllEvidence, restored : AllEvidence]
    /\ report \in [rehearsal : {"none", "attested", "error"}, cleanup : {"none", "ok", "failed"},
                   alert : BOOLEAN]
    /\ ghost \in [meddled : 0 .. MaxMeddling, overtaken : BOOLEAN, born : 0 .. MaxWrites, kept : BOOLEAN]

Init ==
    /\ \E w \in {"nobody", "other"} : slot = [whose |-> w, data |-> 0, version |-> Selected]
    /\ source = [blocked |-> Expected, data |-> 0, version |-> Selected]
    /\ late = {}
    /\ journal = None
    /\ run = [pc |-> "identity", tries |-> 0, acked |-> FALSE, touched |-> FALSE,
              attempted |-> FALSE, id |-> FALSE, err |-> FALSE, deleted |-> FALSE]
    /\ LET nothing == [rows |-> 0, version |-> Selected]
       IN seen = [pitr |-> 0, source |-> nothing, restored |-> nothing]
    /\ report = [rehearsal |-> "none", cleanup |-> "none", alert |-> FALSE]
    /\ ghost = [meddled |-> 0, overtaken |-> FALSE, born |-> 0, kept |-> TRUE]

----------------------------------------------------------------------------
(* The run's body.  At(pc) says where the process stands, To(pc) where it    *)
(* goes; a failure of the body goes to the finally block.                    *)

At(pc) == run.pc = pc
To(pc) == [run EXCEPT !.pc = pc, !.tries = 0, !.acked = FALSE]
Failed == [To(IF run.touched THEN "f_unblock" ELSE "f_delete") EXCEPT !.err = TRUE]

(* The source must be the database it is expected to be, in the write state  *)
(* the protected configuration expects.                                      *)
ReadIdentity ==
    /\ At("identity")
    /\ run' = IF source.blocked = Expected THEN To("prepare") ELSE Failed
    /\ UNCHANGED <<source, late, slot, journal, seen, report, ghost>>

(* The journal is written before the first request that changes anything.    *)
PersistPrepared ==
    /\ At("prepare")
    /\ journal' = [status |-> "prepared", restored |-> FALSE, attempted |-> FALSE,
                   id |-> FALSE, deleted |-> FALSE]
    /\ run' = [To("block") EXCEPT !.touched = TRUE]
    /\ UNCHANGED <<source, late, slot, seen, report, ghost>>

(* setAndConfirmWriteState: a PATCH, then reads of the configuration and of  *)
(* the database until both agree; a timeout is retried.                      *)
Wanted == IF At("block") THEN TRUE ELSE Expected
Patch ==
    /\ run.pc \in Setters /\ ~run.acked
    /\ source' = [source EXCEPT !.blocked = Wanted]
    /\ run' = [run EXCEPT !.acked = TRUE]
    /\ UNCHANGED <<late, slot, journal, seen, report, ghost>>

AfterConfirm ==
    CASE At("block") -> "locked"
      [] At("unblock") -> "unblocked"
      [] At("f_unblock") -> "f_delete"
      [] At("c_state") -> "c_delete"
Restored(j) == IF j = None THEN None ELSE [j EXCEPT !.restored = TRUE]
Confirm ==
    /\ run.pc \in Setters /\ run.acked
    /\ source.blocked = Wanted
    /\ run' = [To(AfterConfirm) EXCEPT !.touched = At("block")]
    /\ journal' = CASE At("f_unblock") -> Restored(journal)
                    [] At("c_state") -> [Restored(journal) EXCEPT !.status = "active"]
                    [] OTHER -> journal
    /\ ghost' = [ghost EXCEPT !.overtaken = @ /\ At("block")]
    /\ UNCHANGED <<source, late, slot, seen, report>>

GiveUp ==
    CASE At("f_unblock") -> To("f_delete")
      [] At("c_state") -> To("monitor")
      [] OTHER -> Failed
SetTimesOut ==
    /\ run.pc \in Setters
    /\ late' \in IF run.acked THEN {late} ELSE {late, late \cup {Wanted}}
    /\ run' = IF run.tries + 1 < MaxAttempts
              THEN [run EXCEPT !.tries = @ + 1, !.acked = FALSE] ELSE GiveUp
    /\ report' = IF At("c_state") /\ run'.pc = "monitor"
                 THEN [report EXCEPT !.cleanup = "failed"] ELSE report
    /\ UNCHANGED <<source, slot, journal, seen, ghost>>
NotConfirmed ==
    /\ run.pc \in Setters /\ run.acked
    /\ source.blocked # Wanted
    /\ run' = GiveUp
    /\ report' = IF At("c_state") THEN [report EXCEPT !.cleanup = "failed"] ELSE report
    /\ UNCHANGED <<source, late, slot, journal, seen, ghost>>

(* The recovery instant is the clock's, cut to the second: what was written  *)
(* in that second may be missing from it.  The block must still be there.    *)
ChooseInstant ==
    /\ At("locked")
    /\ \E p \in {source.data} \cup {d \in 0 .. MaxWrites : d + 1 = source.data} :
          seen' = [seen EXCEPT !.pitr = p]
    /\ run' = IF source.blocked THEN To("evidence") ELSE Failed
    /\ UNCHANGED <<source, late, slot, journal, report, ghost>>

(* collectDatabaseEvidence reads the rows and the schema version from one    *)
(* snapshot; production's through a client that only reads.                  *)
Evidence(db) == [rows |-> db.data, version |-> db.version]
ReadSource ==
    /\ At("evidence")
    /\ seen' = [seen EXCEPT !.source = Evidence(source)]
    /\ run' = [To("create") EXCEPT !.attempted = TRUE]
    /\ journal' = [journal EXCEPT !.status = "active", !.attempted = TRUE]
    /\ UNCHANGED <<source, late, slot, report, ghost>>

(* createPitrDatabase, sent once: the branch is of any instant from the one  *)
(* asked for to now.  A name that is taken is refused.                       *)
Branch ==
    \E d \in seen.pitr .. source.data :
        /\ slot' = [whose |-> "ours", data |-> d, version |-> source.version]
        /\ ghost' = [ghost EXCEPT !.born = d]
CreateRestore ==
    /\ At("create")
    /\ slot.whose = "nobody"
    /\ Branch
    /\ run' = [To("created") EXCEPT !.id = TRUE]
    /\ UNCHANGED <<source, late, journal, seen, report>>
PersistIdentity ==
    /\ At("created")
    /\ journal' = [journal EXCEPT !.id = TRUE]
    /\ run' = To("unblock")
    /\ UNCHANGED <<source, late, slot, seen, report, ghost>>
PersistRestored ==
    /\ At("unblocked")
    /\ journal' = Restored(journal)
    /\ run' = To("ready")
    /\ UNCHANGED <<source, late, slot, seen, report, ghost>>
AwaitRestore ==
    /\ At("ready")
    /\ slot.whose = "ours"
    /\ run' = To("compare")
    /\ UNCHANGED <<source, late, slot, journal, seen, report, ghost>>

(* compareBackupRestoreEvidence: the branch is what the source was; then the *)
(* pending migrations run on the branch, and its evidence is read again: a   *)
(* migration may change rows it must preserve.                               *)
Matches(restored) == restored = seen.source
CompareEvidence ==
    /\ At("compare")
    /\ LET restored == Evidence(slot)
       IN IF Matches(restored)
          THEN run' = To("migrate") /\ seen' = [seen EXCEPT !.restored = restored]
          ELSE run' = Failed /\ UNCHANGED seen
    /\ UNCHANGED <<source, late, slot, journal, report, ghost>>
MigrateRestore ==
    /\ At("migrate")
    /\ \E rows \in {slot.data, MaxWrites + 1} :
          slot' = [slot EXCEPT !.version = Latest, !.data = rows]
    /\ ghost' = [ghost EXCEPT !.kept = slot'.data = slot.data]
    /\ run' = To("verify")
    /\ UNCHANGED <<source, late, journal, seen, report>>
Preserves(before, after) == after.version = Latest /\ after.rows = before.rows
VerifyPreservation ==
    /\ At("verify")
    /\ run' = IF Preserves(seen.restored, Evidence(slot)) THEN To("f_delete") ELSE Failed
    /\ UNCHANGED <<source, late, slot, journal, seen, report, ghost>>

(* Any other failure of the body: a rejected or lost request, a database     *)
(* operation that timed out, the journal that could not be written, SIGTERM. *)
(* A request that was in flight may still be carried out.                    *)
InFlight ==
    \/ UNCHANGED <<late, slot>>
    \/ /\ run.pc \in Setters /\ ~run.acked
       /\ late' = late \cup {Wanted}
       /\ UNCHANGED slot
    \/ /\ At("create") /\ slot.whose = "nobody"
       /\ slot' = [slot EXCEPT !.whose = "coming"]
       /\ UNCHANGED late
BodyFails ==
    /\ run.pc \in Body
    /\ InFlight
    /\ run' = Failed
    /\ UNCHANGED <<source, journal, seen, report, ghost>>

----------------------------------------------------------------------------
(* The finally block and the cleanup step share cleanupRestore: without an   *)
(* identity nothing is deleted; a database that is gone is deleted; ours is  *)
(* deleted by name and then looked for again.                                *)

CleanupRestore(attempted, id, deleted) ==
    \/ /\ ~attempted \/ (id /\ slot.whose = "nobody")
       /\ deleted = TRUE /\ UNCHANGED slot
    \/ /\ attempted /\ id /\ slot.whose = "ours"
       /\ slot' = [slot EXCEPT !.whose = "nobody"]
       /\ deleted \in BOOLEAN                        \* the answer may be lost
    \/ /\ attempted
       /\ deleted = FALSE /\ UNCHANGED slot          \* unidentified, another's, or no answer

FinishRestore ==
    /\ At("f_delete")
    /\ \E deleted \in BOOLEAN :
          /\ CleanupRestore(run.attempted, run.id, deleted)
          /\ run' = [To("f_journal") EXCEPT !.deleted = deleted]
    /\ UNCHANGED <<source, late, journal, seen, report, ghost>>
(* What became of both reaches the journal in one write, which may fail:     *)
(* then the journal keeps what it said.                                      *)
FinalStatus == IF ~run.deleted \/ run.touched THEN "recovery_required"
               ELSE IF run.err THEN "failed_clean" ELSE "complete"
FinishJournal ==
    /\ At("f_journal")
    /\ \/ /\ journal' = IF journal = None THEN None
                        ELSE [journal EXCEPT !.restored = ~run.touched, !.deleted = run.deleted,
                                             !.status = FinalStatus]
          /\ run' = To("result")
       \/ /\ run' = [To("result") EXCEPT !.err = TRUE]
          /\ UNCHANGED journal
    /\ UNCHANGED <<source, late, slot, seen, report, ghost>>
(* The attestation is checked once more as it is made: the state of          *)
(* production is restored, the branch deleted, its evidence the source's.    *)
SafetyHolds == ~run.touched /\ run.deleted
Attested == SafetyHolds /\ Matches(seen.restored)
WriteSummary ==
    /\ At("result")
    /\ report' = [report EXCEPT !.rehearsal = IF ~run.err /\ Attested THEN "attested" ELSE "error"]
    /\ run' = To("c_read")
    /\ UNCHANGED <<source, late, slot, journal, seen, ghost>>

(* SIGKILL after the grace period: the process leaves its journal, and no    *)
(* summary.                                                                  *)
KillRun ==
    /\ run.pc \in Body \cup Finally
    /\ InFlight
    /\ run' = To("c_read")
    /\ UNCHANGED <<source, journal, seen, report, ghost>>

(* runInterruptedCleanup.                                                    *)
ReadJournal ==
    /\ At("c_read")
    /\ \/ /\ journal = None                          \* passes for no monitor, in any state
          /\ run' = To("monitor")
          /\ report' = [report EXCEPT !.cleanup = "failed"]
          /\ UNCHANGED <<journal, ghost>>
       \/ /\ journal # None
          /\ journal.status = "complete" /\ journal.restored /\ journal.deleted
          /\ run' = To("monitor")
          /\ report' = [report EXCEPT !.cleanup = "ok"]
          /\ UNCHANGED <<journal, ghost>>
       \/ /\ journal # None
          /\ ~(journal.status = "complete" /\ journal.restored /\ journal.deleted)
          /\ IF source.blocked # Expected
             THEN run' = To("c_state") /\ UNCHANGED <<journal, ghost>>
             ELSE /\ run' = To("c_delete")
                  /\ journal' = [Restored(journal) EXCEPT !.status = "active"]
                  /\ ghost' = [ghost EXCEPT !.overtaken = FALSE]
          /\ UNCHANGED report
    /\ UNCHANGED <<source, late, slot, seen>>
CleanUp ==
    /\ At("c_delete")
    /\ \E deleted \in BOOLEAN :
          /\ CleanupRestore(journal.attempted, journal.id, deleted)
          /\ journal' = [journal EXCEPT !.deleted = deleted,
                                        !.status = IF deleted THEN "complete" ELSE "recovery_required"]
          /\ report' = [report EXCEPT !.cleanup = IF deleted THEN "ok" ELSE "failed"]
    /\ run' = To("monitor")
    /\ UNCHANGED <<source, late, seen, ghost>>
KillCleanup ==
    /\ run.pc \in Cleanup
    /\ InFlight
    /\ run' = To("monitor")
    /\ UNCHANGED <<source, journal, seen, report, ghost>>

(* assessBackupRestoreRun: healthy only with both summaries, a cleanup that  *)
(* passed and an attestation that verifies.                                  *)
CleanupPassed == report.cleanup = "ok"
Verifies == report.rehearsal = "attested"
Healthy == CleanupPassed /\ Verifies
Monitor ==
    /\ At("monitor")
    /\ report' = [report EXCEPT !.alert = ~Healthy]
    /\ run' = To("over")
    /\ UNCHANGED <<source, late, slot, journal, seen, ghost>>

----------------------------------------------------------------------------
(* The rest of the world: the application, the network, an operator.         *)
ApplicationWrites ==
    /\ ~source.blocked /\ source.data < MaxWrites
    /\ source' = [source EXCEPT !.data = @ + 1]
    /\ UNCHANGED <<late, slot, journal, run, seen, report, ghost>>
LateArrives ==
    \/ \E v \in late :
          /\ late' = late \ {v}
          /\ source' = [source EXCEPT !.blocked = v]
          /\ ghost' = [ghost EXCEPT !.overtaken = @ \/ v # Expected]
          /\ UNCHANGED <<slot, journal, run, seen, report>>
    \/ /\ slot.whose = "coming"
       /\ Branch
       /\ UNCHANGED <<source, late, journal, run, seen, report>>
OperatorToggles ==
    /\ ghost.meddled < MaxMeddling
    /\ source' = [source EXCEPT !.blocked = ~@]
    /\ ghost' = [ghost EXCEPT !.meddled = @ + 1, !.overtaken = source.blocked = Expected]
    /\ UNCHANGED <<late, slot, journal, run, seen, report>>

RunNext ==
    \/ ReadIdentity \/ PersistPrepared \/ ChooseInstant \/ ReadSource \/ CreateRestore
    \/ PersistIdentity \/ PersistRestored \/ AwaitRestore \/ CompareEvidence \/ MigrateRestore
    \/ VerifyPreservation \/ BodyFails \/ FinishRestore \/ FinishJournal \/ WriteSummary \/ KillRun
StateNext == Patch \/ Confirm \/ SetTimesOut \/ NotConfirmed
JobNext == ReadJournal \/ CleanUp \/ KillCleanup \/ Monitor
WorldNext == ApplicationWrites \/ LateArrives \/ OperatorToggles
Next == RunNext \/ StateNext \/ JobNext \/ WorldNext

Spec == Init /\ [][Next]_vars

----------------------------------------------------------------------------
(* What the run changes is written down before it is changed: a block, or a  *)
(* request for one, has a journal that does not yet call the state restored, *)
(* and a branch, or a request for one, a journal that names it.              *)
JournalCovers ==
    /\ (source.blocked # Expected \/ (~Expected) \in late) /\ ~ghost.overtaken /\ ghost.meddled = 0
          => journal # None
    /\ run.pc \in Body \ {"unblocked"} /\ source.blocked # Expected /\ ~ghost.overtaken
          => journal # None /\ ~journal.restored
    /\ slot.whose \in {"ours", "coming"} => journal # None /\ journal.attempted

(* A job that ends without an alert has left production in the write state   *)
(* it expects, and none of its branches, unless a request it had given up,   *)
(* or an operator, changed the state after it was confirmed.                 *)
SilenceMeansClean ==
    At("over") /\ ~report.alert =>
        /\ source.blocked = Expected \/ ghost.overtaken
        /\ slot.whose \notin {"ours", "coming"}

(* An attestation tells the truth: the branch held exactly the rows that     *)
(* were read from production, and the migrations kept them.                  *)
AttestationIsTrue ==
    report.rehearsal = "attested" => ghost.born = seen.source.rows /\ ghost.kept

(* A step: a database that merely has the restore's name is never deleted.   *)
OthersAreKept == slot.whose = "other" => slot'.whose = "other"
============================================================================
