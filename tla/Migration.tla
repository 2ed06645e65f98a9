------------------------------ MODULE Migration ------------------------------
(* Schema migrations: runners that bring one database from the version its  *)
(* operator saw to the next ones, one write transaction per version, or     *)
(* adopt a schema that has no ledger (db/migration-runner.js), from a local *)
(* script (scripts/db-migrate.mjs) or from the protected workflow, which    *)
(* also needs a rehearsal on a copy (scripts/turso-production-migrate.mjs). *)
(* The application writes meanwhile, a runner may die in a transaction, and *)
(* the answer to a commit may be lost.                                      *)
EXTENDS Naturals, Sequences, FiniteSets

CONSTANTS
  Runners, Remote,  \* the runs of the tool; those of the protected workflow
  Operation,        \* of each run: "apply" or "adopt"
  None,
  Latest,           \* LATEST_MIGRATION_VERSION
  Looks,            \* the first version whose state includes the memberships (2)
  Starts,           \* schemas without a ledger that the database may start with; 0 is none
  MaxAttempts,      \* of withMigrationRetry
  MaxWrites         \* bound: writes of the application that the memberships show

(* Assumed of every instance. *)
MigrationConstants ==
  /\ Remote \subseteq Runners /\ None \notin Runners /\ Operation \in [Runners -> {"apply", "adopt"}]
  /\ Latest \in Nat /\ Starts \subseteq 0..Latest /\ MaxAttempts \in Nat \ {0} /\ MaxWrites \in Nat
  /\ Looks \in Nat
  /\ None \notin [ledger : Seq({"applied", "adopted"}), schema : Nat, writes : Nat, fit : BOOLEAN]

VARIABLES
  db,         \* the schema, its ledger and the memberships
  lock,       \* the run whose write transaction the server has open
  staged,     \* what that transaction would commit
  run,        \* what each run remembers
  rehearsed,  \* fingerprints of sources a rehearsal attested
  trail       \* commits so far: who, and the fingerprint they were written on

migrationVars == <<db, lock, staged, run, rehearsed, trail>>

NoRun == [phase |-> "idle", through |-> 0, expected |-> None, from |-> 0, next |-> 0,
          attempt |-> 0, planned |-> 0]

Init ==
  /\ \E s \in Starts : db = [ledger |-> <<>>, schema |-> s, writes |-> 0, fit |-> TRUE]
  /\ lock = None /\ staged = None /\ rehearsed = {} /\ trail = <<>>
  /\ run = [r \in Runners |-> NoRun]

-----------------------------------------------------------------------------
(* inspectMigrationState for the migrations up to `through`; a ledger that   *)
(* is longer is refused (validateMigrationLedger).                          *)
Current(s) == Len(s.ledger)
Classification(s) == IF Current(s) > 0 THEN "managed" ELSE IF s.schema > 0 THEN "unmanaged" ELSE "fresh"
Known(s, through) == Current(s) <= through
Exact(s, through) ==
  s.schema = CASE Classification(s) = "managed" -> Current(s)
               [] Classification(s) = "fresh"   -> 0
               [] OTHER                         -> through

Inspected(s, through) ==
  Exact(s, through) /\ \/ Classification(s) = "unmanaged" /\ through >= Looks
                       \/ Current(s) >= Looks

Ready(s, through) == Exact(s, through) /\ (Current(s) >= Looks => s.fit)
Eligible(s, through) ==
  Classification(s) = "unmanaged" /\ Exact(s, through) /\ (through >= Looks => s.fit)

(* The fingerprint tells apart whatever was inspected.                       *)
Fingerprint(s, through) ==
  [through |-> through, ledger |-> s.ledger, schema |-> s.schema,
   members |-> IF Inspected(s, through) THEN <<s.writes, s.fit>> ELSE None]

-----------------------------------------------------------------------------
To(r, phase) == run' = [run EXCEPT ![r].phase = phase]
At(r, phase) == run[r].phase = phase

(* The rehearsal restores a backup and attests the state of its source.      *)
Rehearse ==
  LET through == IF Classification(db) = "managed" THEN Current(db) ELSE db.schema IN
  /\ Remote # {} /\ Classification(db) # "fresh" /\ Ready(db, through)
  /\ Classification(db) = "unmanaged" => Eligible(db, through)
  /\ rehearsed' = rehearsed \cup {Fingerprint(db, through)}
  /\ UNCHANGED <<db, lock, staged, run, trail>>

(* The operator looks at the status and asks for what it offers: the next    *)
(* version in production, the latest one locally.                           *)
Target(r) ==
  CASE Operation[r] = "adopt" -> db.schema
    [] r \in Remote           -> Current(db) + 1
    [] OTHER                  -> Latest

Plan(r) ==
  LET through == Target(r) IN
  /\ At(r, "idle") /\ through \in 1..Latest
  /\ IF Operation[r] = "adopt" THEN Eligible(db, through)
     ELSE /\ Classification(db) # "unmanaged" /\ Ready(db, through)
          /\ r \in Remote => Classification(db) = "managed"
  /\ run' = [run EXCEPT ![r] = [NoRun EXCEPT !.phase = "planned", !.through = through,
                                             !.expected = Fingerprint(db, through),
                                             !.planned = Len(trail)]]
  /\ UNCHANGED <<db, lock, staged, rehearsed, trail>>

Attested(r) ==
  LET source == IF Operation[r] = "adopt" THEN run[r].through ELSE run[r].through - 1 IN
  Known(db, source) /\ Fingerprint(db, source) \in rehearsed

(* inspectBoundState                                                        *)
Bind(r) ==
  /\ At(r, "planned") /\ r \in Remote
  /\ To(r, IF Attested(r) THEN "bound" ELSE "refused")
  /\ UNCHANGED <<db, lock, staged, rehearsed, trail>>

AsExpected(r) ==
  Known(db, run[r].through) /\ Fingerprint(db, run[r].through) = run[r].expected

(* The first look of applyMigrations and adoptMigrations.                    *)
Start(r) ==
  /\ IF r \in Remote THEN At(r, "bound") ELSE At(r, "planned")
  /\ run' = [run EXCEPT ![r].phase = IF AsExpected(r) THEN "ready" ELSE "refused",
                        ![r].from = Current(db), ![r].next = Current(db) + 1]
  /\ UNCHANGED <<db, lock, staged, rehearsed, trail>>

Adopted(s, through) == [s EXCEPT !.ledger = [v \in 1..through |-> "adopted"]]
Applied(s)          == [s EXCEPT !.ledger = Append(@, "applied"), !.schema = Current(s) + 1]

Result(r) == IF Operation[r] = "adopt" THEN Adopted(db, run[r].through) ELSE Applied(db)

(* The body of applyOneVersion, or of the adoption, up to its commit: the    *)
(* state is looked at again behind the write lock, and the outcome is       *)
(* inspected before it is committed.                                        *)
OpenTransaction(r) ==
  /\ At(r, "ready") /\ run[r].next <= run[r].through /\ lock = None
  /\ IF AsExpected(r) /\ Ready(Result(r), run[r].through)
     THEN /\ lock' = r /\ staged' = Result(r)
          /\ run' = [run EXCEPT ![r].phase = "written", ![r].attempt = 0]
     ELSE /\ To(r, "failed") /\ UNCHANGED <<lock, staged>>
  /\ UNCHANGED <<db, rehearsed, trail>>

(* SQLITE_BUSY: the attempt is repeated a few times.                         *)
Busy(r) ==
  /\ At(r, "ready") /\ run[r].next <= run[r].through /\ lock # None
  /\ run' = [run EXCEPT ![r].attempt = @ + 1,
                        ![r].phase = IF run[r].attempt + 1 = MaxAttempts THEN "failed" ELSE @]
  /\ UNCHANGED <<db, lock, staged, rehearsed, trail>>

Committed(r) ==
  /\ db' = staged /\ lock' = None /\ staged' = None
  /\ trail' = Append(trail, [by |-> r, on |-> Fingerprint(db, run[r].through), schema |-> staged.schema])
  /\ UNCHANGED rehearsed

Commit(r) ==
  /\ At(r, "written") /\ lock = r
  /\ run' = [run EXCEPT ![r].phase = "ready",
                        ![r].expected = Fingerprint(staged, run[r].through),
                        ![r].next = Current(staged) + 1]
  /\ Committed(r)

(* A statement or the commit fails or times out, or the process ends: the    *)
(* run reports a failure, and its transaction is still the server's to end. *)
Lose(r) ==
  /\ At(r, "written")
  /\ To(r, "failed")
  /\ UNCHANGED <<db, lock, staged, rehearsed, trail>>

ServerEnds(r) ==
  /\ lock = r /\ ~At(r, "written")
  /\ \/ Committed(r)
     \/ lock' = None /\ staged' = None /\ UNCHANGED <<db, rehearsed, trail>>
  /\ UNCHANGED run

(* The process ends, or a timeout strikes, outside a transaction.            *)
Stop(r) ==
  /\ run[r].phase \in {"planned", "bound", "ready"} /\ To(r, "failed")
  /\ UNCHANGED <<db, lock, staged, rehearsed, trail>>

(* The last look of applyMigrations; an adoption has none.                  *)
Finish(r) ==
  /\ At(r, "ready") /\ run[r].next > run[r].through
  /\ To(r, IF Operation[r] = "adopt" \/ (AsExpected(r) /\ Ready(db, run[r].through))
           THEN "ok" ELSE "changed")
  /\ UNCHANGED <<db, lock, staged, rehearsed, trail>>

(* An account or a membership is written by the application.                *)
Write ==
  /\ lock = None /\ db.schema > 0 /\ db.writes < MaxWrites
  /\ \E fit \in BOOLEAN : db' = [db EXCEPT !.writes = @ + 1, !.fit = fit]
  /\ UNCHANGED <<lock, staged, run, rehearsed, trail>>

Next ==
  \/ Rehearse \/ Write
  \/ \E r \in Runners :
       \/ Plan(r) \/ Bind(r) \/ Start(r) \/ OpenTransaction(r) \/ Busy(r) \/ Commit(r)
       \/ Lose(r) \/ ServerEnds(r) \/ Stop(r) \/ Finish(r)

Spec == Init /\ [][Next]_migrationVars

-----------------------------------------------------------------------------
By(r) == {n \in 1..Len(trail) : trail[n].by = r}

TypeOK ==
  /\ db.ledger \in Seq({"applied", "adopted"}) /\ db.schema \in 0..Latest
  /\ lock \in Runners \cup {None} /\ (staged = None <=> lock = None)
  /\ \A r \in Runners : run[r].attempt <= MaxAttempts /\ run[r].through <= Latest

(* The ledger always says what the schema is, a prefix of the migrations     *)
(* that were adopted at once and then applied one by one, whatever runs     *)
(* overlap, die in a transaction or commit after they were given up.        *)
LedgerIsTheSchema ==
  db.ledger # <<>> =>
    /\ db.schema = Len(db.ledger)
    /\ \A v, w \in 1..Len(db.ledger) :
         v < w /\ db.ledger[w] = "adopted" => db.ledger[v] = "adopted"

(* A run writes on nothing but what its operator saw and what it wrote since:*)
(* no commit of another run lies between, not even a late one.              *)
NothingBetween ==
  \A r \in Runners : \A n \in By(r) :
    \A m \in run[r].planned + 1..n : trail[m].by = r

(* A run that reports success has itself written each version from where it *)
(* began; one that was refused has written nothing, nor ever will.          *)
ReportsAreTrue ==
  \A r \in Runners :
    /\ run[r].phase = "ok" =>
         Cardinality(By(r)) = (IF Operation[r] = "adopt" THEN 1 ELSE run[r].through - run[r].from)
    /\ run[r].phase = "refused" => By(r) = {} /\ lock # r

(* Production changes only from a state that a rehearsal restored, and then  *)
(* by the one next version.                                                 *)
ProductionIsRehearsed ==
  \A r \in Remote : \A n \in By(r) :
      /\ Cardinality(By(r)) = 1
      /\ \E f \in rehearsed : f.ledger = trail[n].on.ledger /\ f.schema = trail[n].on.schema
                              /\ f.members \in {None, trail[n].on.members}
=============================================================================
