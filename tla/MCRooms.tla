------------------------------ MODULE MCRooms ------------------------------
(* What a pair shares, one part of it from each initial state: the retention *)
(* of its chat, the agreement on a time and the letters that tell it, the    *)
(* session with its receipts, controls and link, the code document, the room *)
(* of a secondary circle, and the running of submissions.  Variables that    *)
(* several modules name alike are declared once; a part that is not explored *)
(* has the value Unused, or the chat its initial state.  Each part has as    *)
(* many instances as it takes to make every constant large once:             *)
(*   run, rerun           one retention run for long, two for a shorter time *)
(*   pages, tables        both members mutate the schedule                   *)
(*   letters, renewals    the letters to one of them are followed            *)
(*   timer, meeting       the session of two, with controls or with a link   *)
(*   typing, reloading,   two pages edit; one is hidden, reloaded, reset and *)
(*   sharing, fading      signed out; two are of one account; documents are  *)
(*                        deleted under open pages                           *)
(*   typed, moving, meeting elsewhere, chatting   rooms of secondary circles *)
(*   running, crowding    two requests of one user while the pair types, and *)
(*                        three, of which two are of a pair                  *)
(* The instances are of the modules with the proofs, so that RoomsProofs can *)
(* cite the theorems for them: those of PairRoomProofs are of ChatRetention, *)
(* which it extends, and have one of SecondaryRoom (Circle, with the session *)
(* of a pair as Circle!Room) and of Scheduling (Schedule) in them; those of  *)
(* CodeProofs are of CodeDocument, with one of Execution (Execute).          *)
EXTENDS ChatRetention, TLC

CONSTANTS r1, t1, w1, w2, ann, bob, tabA, tabB, p, q, o

Alike == Permutations(Workers)

VARIABLES
  subject,
  proposals, agreed, version, view, away, silent, mail, told,
  receipt, controls, scheduled, link, overtaken, ran,
  member, context, held, seen, edits, messages, registered, signals,
  document, aged, snapshot,
  purges, completed, deps, page, copy, known, queue, saved, call, late, writing, gone, frail, outlived,
  terminal, allowed, step, code, lease, since, programs, leases, attempts, active, executed

(* The variables that only one module has, and those that are shared.        *)
chatOnly  == <<log, chat, mapped, holds, control, evidence, runs, worker>>
timeOnly  == <<proposals, version, away, silent, mail, told>>
roomOnly  == <<receipt, controls, scheduled, link, overtaken, ran>>
circleOnly == <<member, context, held, seen, edits, messages, registered, signals>>
codeOnly  == <<purges, completed, deps, page, copy, known, queue, saved, call, late, writing, gone, frail, outlived>>
runOnly   == <<terminal, allowed, step, code, lease, since, programs, leases, attempts, active, executed>>
text      == <<document, aged, snapshot>>
all == <<subject, now, chatOnly, timeOnly, roomOnly, circleOnly, codeOnly, runOnly, text, agreed, view>>

Unused == 0
NoChat  == /\ log = <<>> /\ chat = {} /\ mapped = {} /\ holds = {} /\ runs = <<>>
           /\ control = [enabled |-> FALSE, generation |-> 0]
           /\ evidence = [r \in Rooms |-> NoEvidence] /\ worker = [w \in Workers |-> Idle]
NoTimes == proposals = Unused /\ version = Unused /\ away = Unused /\ silent = Unused
           /\ mail = Unused /\ told = Unused
NoRoom  == receipt = Unused /\ controls = Unused /\ scheduled = Unused /\ link = Unused
           /\ overtaken = Unused /\ ran = Unused
NoCircle == member = Unused /\ context = Unused /\ held = Unused /\ seen = Unused
           /\ edits = Unused /\ messages = Unused /\ registered = Unused /\ signals = Unused
NoPages == purges = Unused /\ completed = Unused /\ deps = Unused /\ page = Unused /\ copy = Unused
           /\ known = Unused /\ queue = Unused /\ saved = Unused /\ call = Unused /\ late = Unused
           /\ writing = Unused /\ gone = Unused /\ frail = Unused /\ outlived = Unused
NoCalls == terminal = Unused /\ allowed = Unused /\ step = Unused /\ code = Unused /\ lease = Unused
           /\ since = Unused /\ programs = Unused /\ leases = Unused /\ attempts = Unused /\ active = Unused
           /\ executed = Unused
NoText  == document = Unused /\ aged = Unused /\ snapshot = Unused

(* --------------------------------- Parts --------------------------------- *)

OnlyTenant == [r \in Rooms |-> t1]

(* What the instances have alike: two members, their times and limits, and   *)
(* the requests of one user to two processes.                                *)
Users == {ann, bob}
First == ann
PerMinute == 1
PerRoom == 3
Minute == 1
Hour == 1
SignalsKept == 2

Times == {2, 3}
Lead == 2
MaxProposals == 2
Ends == 3
Nobody == "nobody"
BothOf(u) == {[instant |-> 2, by |-> bob], [instant |-> 3, by |-> u]}

Requests == {p, q, o}
UserOf == [r \in Requests |-> ann]
ModeOf == [r \in Requests |-> CASE r = p -> "pair" [] r = q -> "secondary" [] OTHER -> "solo"]
ServerOf == [r \in Requests |-> IF r = q THEN 2 ELSE 1]
RunLease == 1
RunMinute == 1

(* run, pages and typed                                                      *)
Typed == INSTANCE PairRoomProofs WITH
  Modes <- {"purge"}, Horizon <- 3, MaxRuns <- 1, MaxGeneration <- 2,
  Acting <- Users, Watched <- {}, Losers <- {bob}, Leavers <- {bob}, Listed <- BothOf(Nobody),
  Secondary <- FALSE, MaxVersion <- 4, MaxUnknown <- 0, LastTime <- 3,
  Controls <- FALSE, Losing <- {}, Duration <- 1, Urls <- {}, Instants <- {}, MaxNow <- 0,
  MaxRevision <- 2, Kinds <- {"completion", "code"}, Leaving <- {ann}, MaxEdits <- 1, MaxContext <- 2

(* rerun, tables and moving                                                  *)
Moving == INSTANCE PairRoomProofs WITH
  Acting <- Users, Watched <- {}, Losers <- {bob}, Leavers <- {bob}, Listed <- BothOf(ann),
  Secondary <- TRUE, MaxVersion <- 4, MaxUnknown <- 0, LastTime <- 3,
  Controls <- TRUE, Losing <- {}, Duration <- 1, Urls <- {}, Instants <- {}, MaxNow <- 1,
  MaxRevision <- 2, Kinds <- {"completion", "controls"}, Leaving <- {ann}, MaxEdits <- 0,
  MaxContext <- 3

(* letters, meeting and elsewhere                                            *)
Elsewhere == INSTANCE PairRoomProofs WITH
  Acting <- {bob}, Watched <- {ann}, Losers <- {}, Leavers <- {ann}, Listed <- BothOf(ann),
  Secondary <- FALSE, MaxVersion <- 3, MaxUnknown <- 0, LastTime <- 2,
  Controls <- FALSE, Losing <- {}, Duration <- 1, Urls <- {"url"}, Instants <- {1}, MaxNow <- 0,
  MaxRevision <- 2, Kinds <- {"completion", "link"}, Leaving <- {}, MaxEdits <- 0, MaxContext <- 1

(* renewals, timer and chatting                                              *)
Chatting == INSTANCE PairRoomProofs WITH
  Acting <- {bob}, Watched <- {ann}, Losers <- {}, Leavers <- {}, Listed <- BothOf(ann),
  Secondary <- TRUE, MaxVersion <- 3, MaxUnknown <- 1, LastTime <- 1,
  Controls <- TRUE, Losing <- {ann}, Duration <- 2, Urls <- {}, Instants <- {}, MaxNow <- 3,
  MaxRevision <- 2, Kinds <- {"chat"}, Leaving <- {ann}, MaxEdits <- 0, MaxContext <- 2

Two(f) == [r \in {p, q} |-> f[r]]
OfBoth == [t \in {tabA, tabB} |-> IF t = tabA THEN ann ELSE bob]

(* typing and running, reloading, fading and crowding                        *)
Typing == INSTANCE CodeProofs WITH
  Tabs <- {tabA, tabB}, OwnerOf <- OfBoth, Restless <- {}, MaxEdits <- 2, MaxPurges <- 0, MaxWrites <- 2,
  Requests <- {p, q}, UserOf <- Two(UserOf), ModeOf <- Two(ModeOf), ServerOf <- Two(ServerOf), MaxStored <- 2,
  RunsPerMinute <- 1, LastRun <- 2

Reloading == INSTANCE CodeProofs WITH
  Tabs <- {tabA}, OwnerOf <- [t \in {tabA} |-> ann], Restless <- {tabA}, MaxEdits <- 2, MaxPurges <- 1,
  MaxWrites <- 1, MaxStored <- 1, RunsPerMinute <- 1, LastRun <- 0

(* sharing: two pages of one account                                         *)
Sharing == INSTANCE CodeProofs WITH
  Tabs <- {tabA, tabB}, OwnerOf <- [t \in {tabA, tabB} |-> ann], Restless <- {tabB}, MaxEdits <- 2,
  MaxPurges <- 0, MaxWrites <- 0, MaxStored <- 1, RunsPerMinute <- 1, LastRun <- 0

Fading == INSTANCE CodeProofs WITH
  Tabs <- {tabA, tabB}, OwnerOf <- OfBoth, Restless <- {}, MaxEdits <- 1, MaxPurges <- 1, MaxWrites <- 2,
  MaxStored <- 1, RunsPerMinute <- 2, LastRun <- 1

(* The instances are legal.                                                  *)
ASSUME InstancesAreLegal ==
  /\ Typed!ChatRetentionConstants /\ Moving!ChatRetentionConstants
  /\ Elsewhere!ChatRetentionConstants /\ Chatting!ChatRetentionConstants
  /\ Typed!Schedule!SchedulingConstants /\ Moving!Schedule!SchedulingConstants
  /\ Elsewhere!Schedule!SchedulingConstants /\ Chatting!Schedule!SchedulingConstants
  /\ Typed!Circle!SecondaryRoomConstants /\ Moving!Circle!SecondaryRoomConstants
  /\ Elsewhere!Circle!SecondaryRoomConstants /\ Chatting!Circle!SecondaryRoomConstants
  /\ Elsewhere!Circle!Room!RoomConstants /\ Chatting!Circle!Room!RoomConstants
  /\ Typing!DocumentConstants /\ Reloading!DocumentConstants /\ Sharing!DocumentConstants /\ Fading!DocumentConstants
  /\ Typing!Execute!ExecutionConstants /\ Fading!Execute!ExecutionConstants

RoomsInit ==
  \/ /\ \/ subject = "run" /\ Typed!Init
        \/ subject = "rerun" /\ Moving!Init
     /\ NoTimes /\ NoRoom /\ NoCircle /\ NoPages /\ NoCalls /\ NoText
     /\ agreed = Unused /\ view = Unused
  \/ /\ \/ subject = "pages" /\ Typed!Schedule!Init
        \/ subject = "tables" /\ Moving!Schedule!Init
        \/ subject = "letters" /\ Elsewhere!Schedule!Init
        \/ subject = "renewals" /\ Chatting!Schedule!Init
     /\ NoChat /\ NoRoom /\ NoCircle /\ NoPages /\ NoCalls /\ NoText
  \/ /\ \/ subject = "timer" /\ Chatting!Circle!Room!Init
        \/ subject = "meeting" /\ Elsewhere!Circle!Room!Init
     /\ NoChat /\ NoTimes /\ NoCircle /\ NoPages /\ NoCalls /\ NoText
  \/ /\ \/ subject = "typing" /\ Typing!Init
        \/ subject = "reloading" /\ Reloading!Init
        \/ subject = "sharing" /\ Sharing!Init
        \/ subject = "fading" /\ Fading!Init
     /\ NoChat /\ NoTimes /\ NoRoom /\ NoCircle /\ NoCalls
     /\ now = Unused /\ agreed = Unused /\ view = Unused
  \/ /\ \/ subject = "typed" /\ Typed!Circle!Init
        \/ subject = "moving" /\ Moving!Circle!Init
        \/ subject = "elsewhere" /\ Elsewhere!Circle!Init
        \/ subject = "chatting" /\ Chatting!Circle!Init
     /\ NoChat /\ NoTimes /\ NoPages /\ NoCalls
  \/ /\ \/ subject = "running" /\ Typing!Execute!Init
        \/ subject = "crowding" /\ Fading!Execute!Init
     /\ NoChat /\ NoTimes /\ NoRoom /\ NoCircle /\ NoPages
     /\ agreed = Unused /\ view = Unused /\ aged = Unused /\ snapshot = Unused

RoomsNext ==
  \/ /\ \/ subject = "run" /\ Typed!Next
        \/ subject = "rerun" /\ Moving!Next
     /\ UNCHANGED <<subject, timeOnly, roomOnly, circleOnly, codeOnly, runOnly, text, agreed, view>>
  \/ /\ \/ subject = "pages" /\ Typed!Schedule!Next
        \/ subject = "tables" /\ Moving!Schedule!Next
        \/ subject = "letters" /\ Elsewhere!Schedule!Next
        \/ subject = "renewals" /\ Chatting!Schedule!Next
     /\ UNCHANGED <<subject, chatOnly, roomOnly, circleOnly, codeOnly, runOnly, text>>
  \/ /\ \/ subject = "timer" /\ Chatting!Circle!Room!Next
        \/ subject = "meeting" /\ Elsewhere!Circle!Room!Next
     /\ UNCHANGED <<subject, chatOnly, timeOnly, circleOnly, codeOnly, runOnly, text>>
  \/ /\ \/ subject = "typing" /\ Typing!Next
        \/ subject = "reloading" /\ Reloading!Next
        \/ subject = "sharing" /\ Sharing!Next
        \/ subject = "fading" /\ Fading!Next
     /\ UNCHANGED <<subject, now, chatOnly, timeOnly, roomOnly, circleOnly, runOnly, agreed, view>>
  \/ /\ \/ subject = "typed" /\ Typed!Circle!Next
        \/ subject = "moving" /\ Moving!Circle!Next
        \/ subject = "elsewhere" /\ Elsewhere!Circle!Next
        \/ subject = "chatting" /\ Chatting!Circle!Next
     /\ UNCHANGED <<subject, chatOnly, timeOnly, codeOnly, runOnly>>
  \/ /\ \/ subject = "running" /\ Typing!Execute!Next
        \/ subject = "crowding" /\ Fading!Execute!Next
     /\ UNCHANGED <<subject, chatOnly, timeOnly, roomOnly, circleOnly, codeOnly, agreed, view, aged, snapshot>>

RoomsSpec == RoomsInit /\ [][RoomsNext]_all

(* ------------- The properties of the parts: see their modules ------------ *)

(* Types of all that is stored, shown or under way.                          *)
TypesOK ==
  /\ subject = "run" => Typed!TypeOK
  /\ subject = "rerun" => Moving!TypeOK
  /\ subject = "pages" => Typed!Schedule!TypeOK
  /\ subject = "tables" => Moving!Schedule!TypeOK
  /\ subject = "letters" => Elsewhere!Schedule!TypeOK
  /\ subject = "renewals" => Chatting!Schedule!TypeOK
  /\ subject = "timer" => Chatting!Circle!Room!TypeOK
  /\ subject = "meeting" => Elsewhere!Circle!Room!TypeOK
  /\ subject = "typing" => Typing!TypeOK
  /\ subject = "reloading" => Reloading!TypeOK
  /\ subject = "sharing" => Sharing!TypeOK
  /\ subject = "fading" => Fading!TypeOK
  /\ subject = "typed" => Typed!Circle!TypeOK
  /\ subject = "moving" => Moving!Circle!TypeOK
  /\ subject = "elsewhere" => Elsewhere!Circle!TypeOK
  /\ subject = "chatting" => Chatting!Circle!TypeOK
  /\ subject = "running" => Typing!Execute!TypeOK
  /\ subject = "crowding" => Fading!Execute!TypeOK

(* What a member was told last, and what a page shows, is true: the letter   *)
(* that was checked last names what is agreed, the timer shows what is left  *)
(* after all the time that it ran, and a version that a page shows never     *)
(* becomes current again.                                                    *)
WhatIsShownIsTrue ==
  /\ subject = "letters" => Elsewhere!Schedule!LastLetterIsTrue
  /\ subject = "renewals" => Chatting!Schedule!LastLetterIsTrue
  /\ subject = "timer" => Chatting!Circle!Room!TimerIsConserved /\ Chatting!Circle!Room!CurrentIsFresh
  /\ subject = "meeting" => Elsewhere!Circle!Room!CurrentIsFresh
  /\ subject = "moving" => Moving!Circle!Room!TimerIsConserved
  /\ subject = "elsewhere" => Elsewhere!Circle!Room!CurrentIsFresh

(* No edit that a document had, or the only page of an account typed into    *)
(* one, is lost, what a page offers to run is what it shows, and the         *)
(* snapshot of a room repeats its document.                                  *)
CodeIsKept ==
  /\ subject = "typing" => /\ Typing!EditsSurvive /\ Typing!VersionIsShown
                           /\ Typing!StoredIsShown /\ Typing!SnapshotFollows
  /\ subject = "reloading" => /\ Reloading!EditsSurvive /\ Reloading!VersionIsShown
                              /\ Reloading!StoredIsShown /\ Reloading!SnapshotFollows
  /\ subject = "sharing" => /\ Sharing!EditsSurvive /\ Sharing!VersionIsShown
                            /\ Sharing!StoredIsShown /\ Sharing!SnapshotFollows
  /\ subject = "fading" => /\ Fading!EditsSurvive /\ Fading!VersionIsShown /\ Fading!SnapshotFollows
  /\ subject = "typed" => Typed!Circle!SnapshotFollows

(* Nobody sends or runs more than the limits, or has two leases in force.    *)
LimitsHold ==
  /\ subject = "chatting" => Chatting!Circle!RateHolds
  /\ subject = "running" => Typing!Execute!OneUnderLease /\ Typing!Execute!RunsAreLimited
  /\ subject = "crowding" => Fading!Execute!OneUnderLease /\ Fading!Execute!RunsAreLimited

(* What each step of a part is.                                              *)
Deliberate ==
  /\ subject = "pages" => Typed!Schedule!ActsOnWhatIsShown /\ Typed!Schedule!AgreesOnTheFuture
  /\ subject = "tables" => Moving!Schedule!ActsOnWhatIsShown /\ Moving!Schedule!AgreesOnTheFuture
  /\ subject = "timer" => Chatting!Circle!Room!CompletionIsFinal
  /\ subject = "meeting" => Elsewhere!Circle!Room!CompletionIsFinal
  /\ subject = "typing" => Typing!NothingMergedAfter
  /\ subject = "reloading" => Reloading!NothingMergedAfter
  /\ subject = "sharing" => Sharing!NothingMergedAfter
  /\ subject = "fading" => Fading!NothingMergedAfter
  /\ subject = "typed" => Typed!Circle!CompletionIsFinal /\ Typed!Circle!NothingFromOutside
  /\ subject = "moving" => Moving!Circle!CompletionIsFinal /\ Moving!Circle!NothingFromOutside
  /\ subject = "elsewhere" => Elsewhere!Circle!CompletionIsFinal
  /\ subject = "chatting" => Chatting!Circle!NothingFromOutside
  /\ subject = "running" => Typing!Execute!ResultsAreCurrent
  /\ subject = "crowding" => Fading!Execute!ResultsAreCurrent

(* A schedule changes only by somebody who was shown all of it, and to times *)
(* that are to come and were proposed; what a completed session consists of  *)
(* stays; a result is stored only for the version the pair has; and nothing  *)
(* is written by a member whose session has gone elsewhere.                  *)
StepsAreDeliberate == [][Deliberate]_all
=============================================================================
