------------------------------ MODULE MCParts ------------------------------
(* Parts that do not interact with one another, one from each initial state.*)
(* Only the chosen part moves, so the parts share the variables: each       *)
(* instance gives its own names to as many of them as it has.               *)
EXTENDS Naturals, Sequences, FiniteSets, TLC

CONSTANTS ann, bob, none, mail, w1, r1, r2

VARIABLES subject, v1, v2, v3, v4, v5, v6, v7, v8, v9, v10, v11, v12

shared == <<v1, v2, v3, v4, v5, v6, v7, v8, v9, v10, v11, v12>>

Same(S) == [s \in S |-> s]

-----------------------------------------------------------------------------
(* A room with a snapshot, one page editing code and the other drawing; a    *)
(* page that reloads and leaves between its edits; a fresh room.             *)
TwoPages == INSTANCE Workspace WITH
  Pages <- {ann, bob}, None <- none, Seeded <- TRUE, TooLarge <- {}, Restless <- {}, Slow <- {ann},
  Editing <- {<<ann, "code">>, <<bob, "board">>},
  MaxEdits <- 2, MaxRevision <- 3, MaxSeq <- 2, MaxRetries <- 1,
  log <- v1, typed <- v2, page <- v3, asked <- v4, posts <- v5

Reloads == INSTANCE Workspace WITH
  Pages <- {ann, bob}, None <- none, Seeded <- TRUE, TooLarge <- {2}, Restless <- {ann}, Slow <- {ann},
  Editing <- {ann} \X {"code", "board"},
  MaxEdits <- 2, MaxRevision <- 3, MaxSeq <- 2, MaxRetries <- 1,
  log <- v1, typed <- v2, page <- v3, asked <- v4, posts <- v5

Fresh == INSTANCE Workspace WITH
  Pages <- {ann, bob}, None <- none, Seeded <- FALSE, TooLarge <- {}, Restless <- {}, Slow <- {},
  Editing <- {<<ann, "code">>, <<bob, "board">>},
  MaxEdits <- 2, MaxRevision <- 2, MaxSeq <- 1, MaxRetries <- 1,
  log <- v1, typed <- v2, page <- v3, asked <- v4, posts <- v5

ASSUME WorkspacesAreLegal ==
  TwoPages!WorkspaceConstants /\ Reloads!WorkspaceConstants /\ Fresh!WorkspaceConstants

-----------------------------------------------------------------------------
(* Two analyses of one room across the end of a month.                       *)
Feedback == INSTANCE AiFeedback WITH
  Users <- {ann, bob}, Analyses <- {r1, r2}, MonthlyLimit <- 1, DailyLimit <- 1, LastDay <- 1,
  MonthOf <- Same(0..1),
  paired <- v1, consent <- v2, run <- v3, slot <- v4, usage <- v5, pool <- v6, day <- v7

ASSUME FeedbackIsLegal == Feedback!AiConstants

-----------------------------------------------------------------------------
(* Three runs of the protected workflow on a database that has a schema and  *)
(* no ledger, one of them an adoption; two local runs on a fresh one.        *)
Production == INSTANCE Migration WITH
  Runners <- {ann, bob, r1}, Remote <- {ann, bob, r1}, None <- none,
  Operation <- [r \in {ann, bob, r1} |-> IF r = ann THEN "adopt" ELSE "apply"],
  Latest <- 3, Looks <- 2, Starts <- {1, 2}, MaxAttempts <- 2, MaxWrites <- 1,
  db <- v1, lock <- v2, staged <- v3, run <- v4, rehearsed <- v5, trail <- v6

Local == INSTANCE Migration WITH
  Runners <- {ann, bob}, Remote <- {}, None <- none, Operation <- [r \in {ann, bob} |-> "apply"],
  Latest <- 3, Looks <- 2, Starts <- {0}, MaxAttempts <- 2, MaxWrites <- 1,
  db <- v1, lock <- v2, staged <- v3, run <- v4, rehearsed <- v5, trail <- v6

ASSUME MigrationsAreLegal == Production!MigrationConstants /\ Local!MigrationConstants

-----------------------------------------------------------------------------
(* A key is rotated under two instances of the application and one letter;   *)
(* two operators at odds.                                                   *)
First   == [active |-> 1, write |-> 2, keys |-> <<ann>>]
Second  == [active |-> 2, write |-> 2, keys |-> <<ann, bob>>]
Wrong   == [active |-> 2, write |-> 2, keys |-> <<ann, mail>>]

Rotation == INSTANCE KeyRotation WITH
  Rings <- {First, [First EXCEPT !.write = 1], Second, [Second EXCEPT !.write = 1], Wrong},
  Instances <- {r1, r2}, Operators <- {ann}, Letters <- {mail}, None <- none,
  MaxOperations <- 3, MaxDeploys <- 1,
  control <- v1, ring <- v2, approval <- v3, letter <- v4, work <- v5, accepted <- v6, retired <- v7, deploys <- v8

Rivals == INSTANCE KeyRotation WITH
  Rings <- {First, Second, Wrong},
  Instances <- {r1}, Operators <- {ann, bob}, Letters <- {}, None <- none,
  MaxOperations <- 2, MaxDeploys <- 1,
  control <- v1, ring <- v2, approval <- v3, letter <- v4, work <- v5, accepted <- v6, retired <- v7, deploys <- v8

ASSUME RingsAreLegal == Rotation!KeyConstants /\ Rivals!KeyConstants

-----------------------------------------------------------------------------
(* A participant's page: completion beside controls, the meeting link with a *)
(* write of its own, and the link beside completion.                        *)
Beside == INSTANCE RoomPanels WITH
  Panels <- {"completion", "controls"}, None <- none, MaxChanges <- 1, MaxWrites <- 1, Refusing <- TRUE,
  server <- v1, page <- v2, late <- v3, card <- v4, told <- v5, pair <- v6, changes <- v7, writes <- v8

Link == INSTANCE RoomPanels WITH
  Panels <- {"meeting"}, None <- none, MaxChanges <- 1, MaxWrites <- 1, Refusing <- TRUE,
  server <- v1, page <- v2, late <- v3, card <- v4, told <- v5, pair <- v6, changes <- v7, writes <- v8

Ending == INSTANCE RoomPanels WITH
  Panels <- {"completion", "meeting"}, None <- none, MaxChanges <- 1, MaxWrites <- 0, Refusing <- FALSE,
  server <- v1, page <- v2, late <- v3, card <- v4, told <- v5, pair <- v6, changes <- v7, writes <- v8

ASSUME PagesAreLegal == Beside!PanelsConstants /\ Link!PanelsConstants /\ Ending!PanelsConstants

-----------------------------------------------------------------------------
(* A backup rehearsal with an operator at hand.                              *)
Drill == INSTANCE Rehearsal WITH
  Expected <- FALSE, Selected <- 1, Latest <- 2, MaxAttempts <- 2, MaxWrites <- 2, MaxMeddling <- 1, None <- none,
  source <- v1, late <- v2, slot <- v3, journal <- v4, run <- v5, seen <- v6, report <- v7, ghost <- v8

ASSUME DrillIsLegal == Drill!RehearsalConstants

-----------------------------------------------------------------------------
(* An invocation of the outbox worker; the watchdogs of the weekly drill and  *)
(* of mail delivery.                                                         *)
Worker == INSTANCE OutboxWorker WITH
  Budget <- 9, Reserve <- 2, Window <- 1, ReminderSlice <- 2, GraceSlice <- 3, RetentionSlice <- 1, MaxRounds <- 2,
  now <- v1, at <- v2, since <- v3, jobs <- v4, lateness <- v5, rounds <- v6, trouble <- v7, early <- v8, answer <- v9

Drills == INSTANCE BackupWatchdog WITH
  Week <- 4, Grace <- 1, Deadline <- 2, Stuck <- 1, Age <- 6, Activation <- 4, Start <- 3, Horizon <- 9,
  MaxMishaps <- 1, None <- none,
  now <- v1, runs <- v2, watch <- v3, said <- v4, won <- v5, prompt <- v6, mishaps <- v7

Mails == INSTANCE DispatchWatchdog WITH
  Letters <- {1}, MaxAge <- 2, Cadence <- 2, Grace <- 3, RunDeadline <- 1, Lease <- 1, Backoff <- 2, MaxAttempts <- 2,
  MaxClaims <- 1, Window <- 4, MaxRuns <- 1, Horizon <- 6,
  now <- v1, letter <- v2, touched <- v3, cleared <- v4, probe <- v5, run <- v6

Backlog == INSTANCE DispatchWatchdog WITH
  Letters <- {1, 2}, MaxAge <- 2, Cadence <- 2, Grace <- 3, RunDeadline <- 1, Lease <- 1, Backoff <- 2, MaxAttempts <- 2,
  MaxClaims <- 1, Window <- 4, MaxRuns <- 0, Horizon <- 6,
  now <- v1, letter <- v2, touched <- v3, cleared <- v4, probe <- v5, run <- v6

ASSUME WatchesAreLegal ==
  Worker!WorkerConstants /\ Drills!WatchdogConstants /\ Mails!WatchdogConstants /\ Backlog!WatchdogConstants

-----------------------------------------------------------------------------
(* The server's answers to every small case of every exercise; catalogues    *)
(* of at most two entries, over two days.                                    *)
Entry(version, status, since, takedown, expires, approved) ==
  [slug |-> "capacity-upgrade-index", version |-> version, status |-> status, retiredAt |-> since,
   replacement |-> none, takedown |-> takedown, requestedAt |-> IF takedown = "none" THEN none ELSE 1,
   reviewed |-> 1, expires |-> expires, approved |-> approved]
Entries ==
  {Entry(1, "active", none, "none", x, a) : x \in {1, 2}, a \in BOOLEAN}
    \cup {Entry(v, "retired", d, t, 1, TRUE) : v \in {1, 2}, d \in {none, 1, 2}, t \in {"none", "requested"}}
    \cup {Entry(1, "active", none, "requested", 2, TRUE), Entry(2, "active", none, "none", 2, TRUE)}

Shelf == INSTANCE Catalogue WITH
  Shelves <- {S \in SUBSET Entries : Cardinality(S) \in 1..2}, Slugs <- {"capacity-upgrade-index"},
  Versions <- {none, 1, 2}, Size <- 0, LastDay <- 2, None <- none,
  shelf <- v1, today <- v2, suite <- v3

Exams == INSTANCE Catalogue WITH
  Shelves <- {{[Entry(1, "active", none, "none", 2, TRUE) EXCEPT !.slug = e] : e \in Shelf!Exercises}},
  Slugs <- Shelf!Exercises, Versions <- {none}, Size <- 3, LastDay <- 1, None <- none,
  shelf <- v1, today <- v2, suite <- v3

ASSUME CataloguesAreLegal == Exams!CatalogueConstants /\ Shelf!CatalogueConstants

-----------------------------------------------------------------------------
(* Two participants on their ladder; two who share a browser; one with a     *)
(* partner.                                                                 *)
Ladder == INSTANCE Suggestions WITH
  Members <- {ann, bob}, Users <- {}, Leaving <- {bob}, Exercises <- <<r1, r2, w1>>, RoomExercise <- r1,
  Topics <- (r1 :> {1}) @@ (r2 :> {1, 2}) @@ (w1 :> {2}),
  Level <- (r1 :> 0) @@ (r2 :> 1) @@ (w1 :> 1),
  Window <- 1, MaxPicks <- 2, MaxHidden <- 1, MaxTrail <- 2, None <- none,
  trail <- v1, active <- v2, live <- v3, stored <- v4, page <- v5, asks <- v6

Browser == INSTANCE Suggestions WITH
  Members <- {ann, bob}, Users <- {ann, bob}, Leaving <- {}, Exercises <- <<r1, r2>>, RoomExercise <- r1,
  Topics <- (r1 :> {1}) @@ (r2 :> {2}), Level <- (r1 :> 0) @@ (r2 :> 1),
  Window <- 1, MaxPicks <- 1, MaxHidden <- 1, MaxTrail <- 0, None <- none,
  trail <- v1, active <- v2, live <- v3, stored <- v4, page <- v5, asks <- v6

Visitor == INSTANCE Suggestions WITH
  Members <- {ann, bob}, Users <- {ann}, Leaving <- {bob}, Exercises <- <<r1, r2>>, RoomExercise <- r1,
  Topics <- (r1 :> {1}) @@ (r2 :> {2}), Level <- (r1 :> 0) @@ (r2 :> 1),
  Window <- 1, MaxPicks <- 1, MaxHidden <- 1, MaxTrail <- 1, None <- none,
  trail <- v1, active <- v2, live <- v3, stored <- v4, page <- v5, asks <- v6

ASSUME LadderIsLegal == Ladder!SuggestionConstants /\ Browser!SuggestionConstants /\ Visitor!SuggestionConstants

-----------------------------------------------------------------------------
(* One member's retries against the limits; closed items and the pages; the  *)
(* letters.                                                                 *)
Budgets == INSTANCE ProductFeedback WITH
  Users <- {ann}, Addresses <- {r1}, Circles <- {1}, Texts <- {1}, Keys <- {1, 2}, Slots <- {w1, r2}, Admins <- {},
  Hour <- 1, Day <- 2, PerHour <- 1, PerDay <- 2, Year <- 3, Batch <- 1, MaxBatches <- 1, PageSize <- 1,
  Already <- {}, Readers <- {}, Closing <- FALSE, Ids <- 1..2, Horizon <- 1, None <- none,
  now <- v1, items <- v2, events <- v3, letters <- v4, spent <- v5, posts <- v6, admins <- v7, muted <- v8,
  locked <- v9, sweep <- v10, reader <- v11

Old(id) == [id |-> id, who |-> ann, key |-> id, circle |-> 1, text |-> 1, created |-> 0, paid |-> 0, ip |-> r1, closed |-> none]

Archive == INSTANCE ProductFeedback WITH
  Users <- {ann}, Addresses <- {r1}, Circles <- {1}, Texts <- {1}, Keys <- {3}, Slots <- {w1}, Admins <- {},
  Hour <- 1, Day <- 1, PerHour <- 1, PerDay <- 1, Year <- 1, Batch <- 1, MaxBatches <- 2, PageSize <- 1,
  Already <- {Old(2)}, Readers <- {ann}, Closing <- TRUE, Ids <- {1, 2, 3}, Horizon <- 1, None <- none,
  now <- v1, items <- v2, events <- v3, letters <- v4, spent <- v5, posts <- v6, admins <- v7, muted <- v8,
  locked <- v9, sweep <- v10, reader <- v11

Letters == INSTANCE ProductFeedback WITH
  Users <- {ann}, Addresses <- {r1}, Circles <- {1}, Texts <- {1, 2}, Keys <- {1}, Slots <- {w1}, Admins <- {bob},
  Hour <- 1, Day <- 1, PerHour <- 1, PerDay <- 1, Year <- 1, Batch <- 1, MaxBatches <- 1, PageSize <- 1,
  Already <- {}, Readers <- {}, Closing <- FALSE, Ids <- {1}, Horizon <- 0, None <- none,
  now <- v1, items <- v2, events <- v3, letters <- v4, spent <- v5, posts <- v6, admins <- v7, muted <- v8,
  locked <- v9, sweep <- v10, reader <- v11

ASSUME FeedbackIsBounded == Budgets!FeedbackConstants /\ Archive!FeedbackConstants /\ Letters!FeedbackConstants

-----------------------------------------------------------------------------
From4 == <<v4, v5, v6, v7, v8, v9, v10, v11, v12>>
From6 == <<v6, v7, v8, v9, v10, v11, v12>>
From7 == <<v7, v8, v9, v10, v11, v12>>
From9 == <<v9, v10, v11, v12>>
From10 == <<v10, v11, v12>>
From8 == <<v8, v9, v10, v11, v12>>

(* Variables that a part does not use.                                       *)
Idle11 == v11 = 0 /\ v12 = 0
Idle10 == v10 = 0 /\ Idle11
Idle9 == v9 = 0 /\ Idle10
Idle8 == v8 = 0 /\ Idle9
Idle7 == v7 = 0 /\ Idle8
Idle6 == v6 = 0 /\ Idle7
Idle5 == v5 = 0 /\ Idle6
Idle4 == v4 = 0 /\ Idle5

PartsInit ==
  \/ subject = "two pages" /\ TwoPages!Init /\ Idle6
  \/ subject = "reloads" /\ Reloads!Init /\ Idle6
  \/ subject = "fresh" /\ Fresh!Init /\ Idle6
  \/ subject = "feedback" /\ Feedback!Init /\ Idle8
  \/ subject = "production" /\ Production!Init /\ Idle7
  \/ subject = "local" /\ Local!Init /\ Idle7
  \/ subject = "rotation" /\ Rotation!Init /\ Idle9
  \/ subject = "rivals" /\ Rivals!Init /\ Idle9
  \/ subject = "beside" /\ Beside!Init /\ Idle9
  \/ subject = "link" /\ Link!Init /\ Idle9
  \/ subject = "ending" /\ Ending!Init /\ Idle9
  \/ subject = "drill" /\ Drill!Init /\ Idle9
  \/ subject = "worker" /\ Worker!Init /\ Idle10
  \/ subject = "drills" /\ Drills!Init /\ Idle8
  \/ subject = "mails" /\ Mails!Init /\ Idle7
  \/ subject = "backlog" /\ Backlog!Init /\ Idle7
  \/ subject = "exams" /\ Exams!Init /\ Idle4
  \/ subject = "shelf" /\ Shelf!Init /\ Idle4
  \/ subject = "ladder" /\ Ladder!Init /\ Idle7
  \/ subject = "browser" /\ Browser!Init /\ Idle7
  \/ subject = "visitor" /\ Visitor!Init /\ Idle7
  \/ subject = "budgets" /\ Budgets!Init /\ v12 = 0
  \/ subject = "archive" /\ Archive!Init /\ v12 = 0
  \/ subject = "letters" /\ Letters!Init /\ v12 = 0

PartsNext ==
  /\ UNCHANGED subject
  /\ \/ subject = "two pages" /\ TwoPages!Next /\ UNCHANGED From6
     \/ subject = "reloads" /\ Reloads!Next /\ UNCHANGED From6
     \/ subject = "fresh" /\ Fresh!Next /\ UNCHANGED From6
     \/ subject = "feedback" /\ Feedback!Next /\ UNCHANGED From8
     \/ subject = "production" /\ Production!Next /\ UNCHANGED From7
     \/ subject = "local" /\ Local!Next /\ UNCHANGED From7
     \/ subject = "rotation" /\ Rotation!Next /\ UNCHANGED From9
     \/ subject = "rivals" /\ Rivals!Next /\ UNCHANGED From9
     \/ subject = "beside" /\ Beside!Next /\ UNCHANGED From9
     \/ subject = "link" /\ Link!Next /\ UNCHANGED From9
     \/ subject = "ending" /\ Ending!Next /\ UNCHANGED From9
     \/ subject = "drill" /\ Drill!Next /\ UNCHANGED From9
     \/ subject = "worker" /\ Worker!Next /\ UNCHANGED From10
     \/ subject = "drills" /\ Drills!Next /\ UNCHANGED From8
     \/ subject = "mails" /\ Mails!Next /\ UNCHANGED From7
     \/ subject = "backlog" /\ Backlog!Next /\ UNCHANGED From7
     \/ subject = "exams" /\ Exams!Next /\ UNCHANGED From4
     \/ subject = "shelf" /\ Shelf!Next /\ UNCHANGED From4
     \/ subject = "ladder" /\ Ladder!Next /\ UNCHANGED From7
     \/ subject = "browser" /\ Browser!Next /\ UNCHANGED From7
     \/ subject = "visitor" /\ Visitor!Next /\ UNCHANGED From7
     \/ subject = "budgets" /\ Budgets!Next /\ UNCHANGED v12
     \/ subject = "archive" /\ Archive!Next /\ UNCHANGED v12
     \/ subject = "letters" /\ Letters!Next /\ UNCHANGED v12

PartsSpec == PartsInit /\ [][PartsNext]_<<subject, shared>>

(* The properties of the parts: see there.                                   *)

(* Types of the parts.                                                       *)
TypesOK ==
  /\ subject = "two pages" => TwoPages!TypeOK
  /\ subject = "reloads" => Reloads!TypeOK
  /\ subject = "fresh" => Fresh!TypeOK
  /\ subject = "feedback" => Feedback!TypeOK
  /\ subject = "production" => Production!TypeOK
  /\ subject = "local" => Local!TypeOK
  /\ subject = "rotation" => Rotation!TypeOK
  /\ subject = "rivals" => Rivals!TypeOK
  /\ subject = "beside" => Beside!TypeOK
  /\ subject = "link" => Link!TypeOK
  /\ subject = "ending" => Ending!TypeOK
  /\ subject = "drill" => Drill!TypeOK
  /\ subject = "worker" => Worker!TypeOK
  /\ subject = "drills" => Drills!TypeOK
  /\ subject = "mails" => Mails!TypeOK
  /\ subject = "backlog" => Backlog!TypeOK
  /\ subject = "exams" => Exams!TypeOK
  /\ subject = "shelf" => Shelf!TypeOK
  /\ subject = "ladder" => Ladder!TypeOK
  /\ subject = "browser" => Browser!TypeOK
  /\ subject = "visitor" => Visitor!TypeOK
  /\ subject = "budgets" => Budgets!TypeOK
  /\ subject = "archive" => Archive!TypeOK
  /\ subject = "letters" => Letters!TypeOK

(* Work and mail are kept: a page's edits until the server has had them, and *)
(* by nobody else's write; a panel is there and has something to wait for.  *)
NothingIsLost ==
  /\ subject = "two pages" => TwoPages!WritesAreOwn /\ TwoPages!WorkIsKept /\ TwoPages!SettledPagesAgree
  /\ subject = "reloads" => Reloads!WritesAreOwn /\ Reloads!WorkIsKept /\ Reloads!SettledPagesAgree
  /\ subject = "fresh" => Fresh!WritesAreOwn /\ Fresh!WorkIsKept /\ Fresh!SettledPagesAgree
  /\ subject = "rotation" => Rotation!IssuedStayOpenable
  /\ subject = "beside" => Beside!NobodyWaitsForNothing /\ Beside!PanelsAreThere
  /\ subject = "link" => Link!NobodyWaitsForNothing
  /\ subject = "ending" => Ending!NobodyWaitsForNothing /\ Ending!PanelsAreThere
  /\ subject = "drill" => Drill!JournalCovers
  /\ subject = "worker" => Worker!OutcomesHaveTime /\ Worker!MailIsNotHeldBack

(* What the system records, answers and shows is what happened: quotas count *)
(* sessions, a ledger tells the schema, a run that reports success wrote, a  *)
(* panel is not behind its user's own write.                                *)
RecordsAreTrue ==
  /\ subject = "feedback" => Feedback!QuotaIsExact
  /\ subject = "production" =>
       /\ Production!LedgerIsTheSchema /\ Production!NothingBetween
       /\ Production!ReportsAreTrue /\ Production!ProductionIsRehearsed
  /\ subject = "local" => Local!LedgerIsTheSchema /\ Local!NothingBetween /\ Local!ReportsAreTrue
  /\ subject = "rotation" => Rotation!OneKeyOfAVersion /\ Rotation!AnswersAreTrue
  /\ subject = "rivals" => Rivals!OneKeyOfAVersion /\ Rivals!AnswersAreTrue
  /\ subject = "beside" => Beside!NotBehindOwnWrite /\ Beside!PanelsAgree
  /\ subject = "link" => Link!NotBehindOwnWrite
  /\ subject = "ending" => Ending!NotBehindOwnWrite /\ Ending!PanelsAgree
  /\ subject = "drill" => Drill!SilenceMeansClean /\ Drill!AttestationIsTrue
  /\ subject = "worker" => Worker!SuccessIsTrue /\ Worker!RetentionWaitsForMail
  /\ subject = "drills" => Drills!HealthyIsProved /\ Drills!MissIsTold /\ Drills!PromptDrillsAreQuiet
  /\ subject = "mails" => Mails!NeglectIsTold /\ Mails!ServedMailIsQuiet /\ Mails!HealthIsWhole
  /\ subject = "backlog" => Backlog!NeglectIsTold /\ Backlog!ServedMailIsQuiet
  /\ subject = "exams" => Exams!OracleIsRight
  /\ subject = "shelf" => Shelf!ServedIsCurrent
  /\ subject = "ladder" => Ladder!PageFollowsTheRoom /\ Ladder!OutsideTimesArePrivate /\ Ladder!PartnersShareTheLadder
  /\ subject = "browser" => Browser!PageFollowsTheRoom
  /\ subject = "visitor" => Visitor!PageFollowsTheRoom
  /\ subject = "budgets" => Budgets!AnswersAreTrue /\ Budgets!ItemsArePaid
  /\ subject = "letters" => Letters!AnswersAreTrue
  /\ subject = "archive" => Archive!AnswersAreTrue /\ Archive!RetentionIsExact /\ Archive!PagesAreComplete

(* A step happens only with the authority it needs: a provider is called      *)
(* under consent, a participant's write is given up only for a reason.       *)
StepsAreLicensed ==
  [][/\ subject = "feedback" => Feedback!ConsentIsHeld /\ Feedback!SessionsStayPaid
     /\ subject = "beside" => Beside!WritesAreWaitedFor
     /\ subject = "drill" => Drill!OthersAreKept
     /\ subject = "browser" => Browser!HidesAreKept
     /\ subject = "visitor" => Visitor!PartnersAreMembers /\ Visitor!HidesAreKept
     /\ subject = "letters" => Letters!LettersAreLicensed]_<<subject, shared>>
=============================================================================
