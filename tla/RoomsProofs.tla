----------------------------- MODULE RoomsProofs -----------------------------
(* Each property of the composition of MCRooms holds: a behaviour of it is   *)
(* one of the part that its first state chose, the constants of that part    *)
(* are as its proof module assumes, and the theorems of that module say the  *)
(* rest.                                                                     *)
EXTENDS MCRooms, TLAPS

(* One retention run.                                                       *)
LEMMA RunRuns ==
  RoomsSpec => [](subject = "run" => Typed!TypeOK)
<1>1. /\ RoomsInit /\ subject = "run" => Typed!Init
      /\ [RoomsNext]_all /\ subject = "run" => [Typed!Next]_(Typed!vars)
      /\ [RoomsNext]_all => ((subject = "run") <=> (subject = "run")')
  BY DEF RoomsInit, RoomsNext, all, chatOnly, timeOnly, roomOnly, circleOnly, codeOnly,
         runOnly, text, Typed!vars
<1>2. Typed!Spec => []Typed!TypeOK
  BY InstancesAreLegal, Typed!TypeCorrect
<1> QED BY <1>1, <1>2, PTL DEF RoomsSpec, Typed!Spec

(* Two retention runs.                                                      *)
LEMMA RerunRuns ==
  RoomsSpec => [](subject = "rerun" => Moving!TypeOK)
<1>1. /\ RoomsInit /\ subject = "rerun" => Moving!Init
      /\ [RoomsNext]_all /\ subject = "rerun" => [Moving!Next]_(Moving!vars)
      /\ [RoomsNext]_all => ((subject = "rerun") <=> (subject = "rerun")')
  BY DEF RoomsInit, RoomsNext, all, chatOnly, timeOnly, roomOnly, circleOnly, codeOnly,
         runOnly, text, Moving!vars
<1>2. Moving!Spec => []Moving!TypeOK
  BY InstancesAreLegal, Moving!TypeCorrect
<1> QED BY <1>1, <1>2, PTL DEF RoomsSpec, Moving!Spec

(* The schedule of a primary pair.                                          *)
LEMMA PagesRuns ==
  RoomsSpec => /\ [](subject = "pages" => Typed!Schedule!TypeOK)
               /\ [][subject = "pages" => Typed!Schedule!ActsOnWhatIsShown /\ Typed!Schedule!AgreesOnTheFuture]_all
<1>1. /\ RoomsInit /\ subject = "pages" => Typed!Schedule!Init
      /\ [RoomsNext]_all /\ subject = "pages" => [Typed!Schedule!Next]_(Typed!Schedule!vars)
      /\ [RoomsNext]_all => ((subject = "pages") <=> (subject = "pages")')
      /\ [RoomsNext]_all /\ (~(subject = "pages") \/ [Typed!Schedule!ActsOnWhatIsShown /\ Typed!Schedule!AgreesOnTheFuture]_(Typed!Schedule!vars))
          => [subject = "pages" => Typed!Schedule!ActsOnWhatIsShown /\ Typed!Schedule!AgreesOnTheFuture]_all
  BY DEF RoomsInit, RoomsNext, all, chatOnly, timeOnly, roomOnly, circleOnly, codeOnly,
         runOnly, text, Typed!Schedule!vars
<1>2. Typed!Schedule!Spec
       => /\ [](Typed!Schedule!TypeOK /\ Typed!Schedule!LastLetterIsTrue)
          /\ [][Typed!Schedule!ActsOnWhatIsShown /\ Typed!Schedule!AgreesOnTheFuture]_(Typed!Schedule!vars)
  BY InstancesAreLegal, Typed!LastLettersAreTrue, Typed!ScheduleStepsHold
<1> QED BY <1>1, <1>2, PTL DEF RoomsSpec, Typed!Schedule!Spec

(* The schedule of a secondary pair.                                        *)
LEMMA TablesRuns ==
  RoomsSpec => /\ [](subject = "tables" => Moving!Schedule!TypeOK)
               /\ [][subject = "tables" => Moving!Schedule!ActsOnWhatIsShown /\ Moving!Schedule!AgreesOnTheFuture]_all
<1>1. /\ RoomsInit /\ subject = "tables" => Moving!Schedule!Init
      /\ [RoomsNext]_all /\ subject = "tables" => [Moving!Schedule!Next]_(Moving!Schedule!vars)
      /\ [RoomsNext]_all => ((subject = "tables") <=> (subject = "tables")')
      /\ [RoomsNext]_all /\ (~(subject = "tables") \/ [Moving!Schedule!ActsOnWhatIsShown /\ Moving!Schedule!AgreesOnTheFuture]_(Moving!Schedule!vars))
          => [subject = "tables" => Moving!Schedule!ActsOnWhatIsShown /\ Moving!Schedule!AgreesOnTheFuture]_all
  BY DEF RoomsInit, RoomsNext, all, chatOnly, timeOnly, roomOnly, circleOnly, codeOnly,
         runOnly, text, Moving!Schedule!vars
<1>2. Moving!Schedule!Spec
       => /\ [](Moving!Schedule!TypeOK /\ Moving!Schedule!LastLetterIsTrue)
          /\ [][Moving!Schedule!ActsOnWhatIsShown /\ Moving!Schedule!AgreesOnTheFuture]_(Moving!Schedule!vars)
  BY InstancesAreLegal, Moving!LastLettersAreTrue, Moving!ScheduleStepsHold
<1> QED BY <1>1, <1>2, PTL DEF RoomsSpec, Moving!Schedule!Spec

(* The letters of a primary pair.                                           *)
LEMMA LettersRuns ==
  RoomsSpec => [](subject = "letters" => Elsewhere!Schedule!TypeOK /\ Elsewhere!Schedule!LastLetterIsTrue)
<1>1. /\ RoomsInit /\ subject = "letters" => Elsewhere!Schedule!Init
      /\ [RoomsNext]_all /\ subject = "letters" => [Elsewhere!Schedule!Next]_(Elsewhere!Schedule!vars)
      /\ [RoomsNext]_all => ((subject = "letters") <=> (subject = "letters")')
  BY DEF RoomsInit, RoomsNext, all, chatOnly, timeOnly, roomOnly, circleOnly, codeOnly,
         runOnly, text, Elsewhere!Schedule!vars
<1>2. Elsewhere!Schedule!Spec => [](Elsewhere!Schedule!TypeOK /\ Elsewhere!Schedule!LastLetterIsTrue)
  BY InstancesAreLegal, Elsewhere!LastLettersAreTrue
<1> QED BY <1>1, <1>2, PTL DEF RoomsSpec, Elsewhere!Schedule!Spec

(* The letters of a secondary pair.                                         *)
LEMMA RenewalsRuns ==
  RoomsSpec => [](subject = "renewals" => Chatting!Schedule!TypeOK /\ Chatting!Schedule!LastLetterIsTrue)
<1>1. /\ RoomsInit /\ subject = "renewals" => Chatting!Schedule!Init
      /\ [RoomsNext]_all /\ subject = "renewals" => [Chatting!Schedule!Next]_(Chatting!Schedule!vars)
      /\ [RoomsNext]_all => ((subject = "renewals") <=> (subject = "renewals")')
  BY DEF RoomsInit, RoomsNext, all, chatOnly, timeOnly, roomOnly, circleOnly, codeOnly,
         runOnly, text, Chatting!Schedule!vars
<1>2. Chatting!Schedule!Spec => [](Chatting!Schedule!TypeOK /\ Chatting!Schedule!LastLetterIsTrue)
  BY InstancesAreLegal, Chatting!LastLettersAreTrue
<1> QED BY <1>1, <1>2, PTL DEF RoomsSpec, Chatting!Schedule!Spec

(* A session with controls.                                                 *)
LEMMA TimerRuns ==
  RoomsSpec => /\ [](subject = "timer" => Chatting!Circle!Room!TypeOK /\ Chatting!Circle!Room!TimerIsConserved /\ Chatting!Circle!Room!CurrentIsFresh)
               /\ [][subject = "timer" => Chatting!Circle!Room!CompletionIsFinal]_all
<1>1. /\ RoomsInit /\ subject = "timer" => Chatting!Circle!Room!Init
      /\ [RoomsNext]_all /\ subject = "timer" => [Chatting!Circle!Room!Next]_(Chatting!Circle!Room!vars)
      /\ [RoomsNext]_all => ((subject = "timer") <=> (subject = "timer")')
      /\ [RoomsNext]_all /\ (~(subject = "timer") \/ [Chatting!Circle!Room!CompletionIsFinal]_(Chatting!Circle!Room!vars))
          => [subject = "timer" => Chatting!Circle!Room!CompletionIsFinal]_all
  BY DEF RoomsInit, RoomsNext, all, chatOnly, timeOnly, roomOnly, circleOnly, codeOnly,
         runOnly, text, Chatting!Circle!Room!vars
<1>2. Chatting!Circle!Room!Spec
       => /\ [](Chatting!Circle!Room!TypeOK /\ Chatting!Circle!Room!TimerIsConserved /\ Chatting!Circle!Room!CurrentIsFresh)
          /\ [][Chatting!Circle!Room!CompletionIsFinal]_(Chatting!Circle!Room!vars)
  BY InstancesAreLegal, Chatting!SessionSafe, Chatting!SessionsEnd
<1> QED BY <1>1, <1>2, PTL DEF RoomsSpec, Chatting!Circle!Room!Spec

(* A session with a link.                                                   *)
LEMMA MeetingRuns ==
  RoomsSpec => /\ [](subject = "meeting" => Elsewhere!Circle!Room!TypeOK /\ Elsewhere!Circle!Room!CurrentIsFresh)
               /\ [][subject = "meeting" => Elsewhere!Circle!Room!CompletionIsFinal]_all
<1>1. /\ RoomsInit /\ subject = "meeting" => Elsewhere!Circle!Room!Init
      /\ [RoomsNext]_all /\ subject = "meeting" => [Elsewhere!Circle!Room!Next]_(Elsewhere!Circle!Room!vars)
      /\ [RoomsNext]_all => ((subject = "meeting") <=> (subject = "meeting")')
      /\ [RoomsNext]_all /\ (~(subject = "meeting") \/ [Elsewhere!Circle!Room!CompletionIsFinal]_(Elsewhere!Circle!Room!vars))
          => [subject = "meeting" => Elsewhere!Circle!Room!CompletionIsFinal]_all
  BY DEF RoomsInit, RoomsNext, all, chatOnly, timeOnly, roomOnly, circleOnly, codeOnly,
         runOnly, text, Elsewhere!Circle!Room!vars
<1>2. Elsewhere!Circle!Room!Spec
       => /\ [](Elsewhere!Circle!Room!TypeOK /\ Elsewhere!Circle!Room!TimerIsConserved /\ Elsewhere!Circle!Room!CurrentIsFresh)
          /\ [][Elsewhere!Circle!Room!CompletionIsFinal]_(Elsewhere!Circle!Room!vars)
  BY InstancesAreLegal, Elsewhere!SessionSafe, Elsewhere!SessionsEnd
<1> QED BY <1>1, <1>2, PTL DEF RoomsSpec, Elsewhere!Circle!Room!Spec

(* Two pages that edit.                                                     *)
LEMMA TypingRuns ==
  RoomsSpec => /\ [](subject = "typing" => Typing!TypeOK /\ Typing!EditsSurvive /\ Typing!VersionIsShown /\ Typing!StoredIsShown /\ Typing!SnapshotFollows)
               /\ [][subject = "typing" => Typing!NothingMergedAfter]_all
<1>1. /\ RoomsInit /\ subject = "typing" => Typing!Init
      /\ [RoomsNext]_all /\ subject = "typing" => [Typing!Next]_(Typing!vars)
      /\ [RoomsNext]_all => ((subject = "typing") <=> (subject = "typing")')
      /\ [RoomsNext]_all /\ (~(subject = "typing") \/ [Typing!NothingMergedAfter]_(Typing!vars))
          => [subject = "typing" => Typing!NothingMergedAfter]_all
  BY DEF RoomsInit, RoomsNext, all, chatOnly, timeOnly, roomOnly, circleOnly, codeOnly,
         runOnly, text, Typing!vars
<1>2. Typing!Spec
       => /\ []Typing!DocumentSafe
          /\ [][Typing!NothingMergedAfter]_(Typing!vars)
  BY InstancesAreLegal, Typing!DocumentsAreSafe, Typing!NothingIsMergedAfter
<1> QED BY <1>1, <1>2, PTL DEF RoomsSpec, Typing!Spec, Typing!DocumentSafe

(* A page that is hidden, reloaded and signed out.                          *)
LEMMA ReloadingRuns ==
  RoomsSpec => /\ [](subject = "reloading" => Reloading!TypeOK /\ Reloading!EditsSurvive /\ Reloading!VersionIsShown /\ Reloading!StoredIsShown /\ Reloading!SnapshotFollows)
               /\ [][subject = "reloading" => Reloading!NothingMergedAfter]_all
<1>1. /\ RoomsInit /\ subject = "reloading" => Reloading!Init
      /\ [RoomsNext]_all /\ subject = "reloading" => [Reloading!Next]_(Reloading!vars)
      /\ [RoomsNext]_all => ((subject = "reloading") <=> (subject = "reloading")')
      /\ [RoomsNext]_all /\ (~(subject = "reloading") \/ [Reloading!NothingMergedAfter]_(Reloading!vars))
          => [subject = "reloading" => Reloading!NothingMergedAfter]_all
  BY DEF RoomsInit, RoomsNext, all, chatOnly, timeOnly, roomOnly, circleOnly, codeOnly,
         runOnly, text, Reloading!vars
<1>2. Reloading!Spec
       => /\ []Reloading!DocumentSafe
          /\ [][Reloading!NothingMergedAfter]_(Reloading!vars)
  BY InstancesAreLegal, Reloading!DocumentsAreSafe, Reloading!NothingIsMergedAfter
<1> QED BY <1>1, <1>2, PTL DEF RoomsSpec, Reloading!Spec, Reloading!DocumentSafe

(* Two pages of one account.                                                *)
LEMMA SharingRuns ==
  RoomsSpec => /\ [](subject = "sharing" => Sharing!TypeOK /\ Sharing!EditsSurvive /\ Sharing!VersionIsShown /\ Sharing!StoredIsShown /\ Sharing!SnapshotFollows)
               /\ [][subject = "sharing" => Sharing!NothingMergedAfter]_all
<1>1. /\ RoomsInit /\ subject = "sharing" => Sharing!Init
      /\ [RoomsNext]_all /\ subject = "sharing" => [Sharing!Next]_(Sharing!vars)
      /\ [RoomsNext]_all => ((subject = "sharing") <=> (subject = "sharing")')
      /\ [RoomsNext]_all /\ (~(subject = "sharing") \/ [Sharing!NothingMergedAfter]_(Sharing!vars))
          => [subject = "sharing" => Sharing!NothingMergedAfter]_all
  BY DEF RoomsInit, RoomsNext, all, chatOnly, timeOnly, roomOnly, circleOnly, codeOnly,
         runOnly, text, Sharing!vars
<1>2. Sharing!Spec
       => /\ []Sharing!DocumentSafe
          /\ [][Sharing!NothingMergedAfter]_(Sharing!vars)
  BY InstancesAreLegal, Sharing!DocumentsAreSafe, Sharing!NothingIsMergedAfter
<1> QED BY <1>1, <1>2, PTL DEF RoomsSpec, Sharing!Spec, Sharing!DocumentSafe

(* Documents deleted under open pages.                                      *)
LEMMA FadingRuns ==
  RoomsSpec => /\ [](subject = "fading" => Fading!TypeOK /\ Fading!EditsSurvive /\ Fading!VersionIsShown /\ Fading!SnapshotFollows)
               /\ [][subject = "fading" => Fading!NothingMergedAfter]_all
<1>1. /\ RoomsInit /\ subject = "fading" => Fading!Init
      /\ [RoomsNext]_all /\ subject = "fading" => [Fading!Next]_(Fading!vars)
      /\ [RoomsNext]_all => ((subject = "fading") <=> (subject = "fading")')
      /\ [RoomsNext]_all /\ (~(subject = "fading") \/ [Fading!NothingMergedAfter]_(Fading!vars))
          => [subject = "fading" => Fading!NothingMergedAfter]_all
  BY DEF RoomsInit, RoomsNext, all, chatOnly, timeOnly, roomOnly, circleOnly, codeOnly,
         runOnly, text, Fading!vars
<1>2. Fading!Spec
       => /\ []Fading!DocumentSafe
          /\ [][Fading!NothingMergedAfter]_(Fading!vars)
  BY InstancesAreLegal, Fading!DocumentsAreSafe, Fading!NothingIsMergedAfter
<1> QED BY <1>1, <1>2, PTL DEF RoomsSpec, Fading!Spec, Fading!DocumentSafe

(* A secondary room with code.                                              *)
LEMMA TypedRuns ==
  RoomsSpec => /\ [](subject = "typed" => Typed!Circle!TypeOK /\ Typed!Circle!SnapshotFollows)
               /\ [][subject = "typed" => Typed!Circle!CompletionIsFinal /\ Typed!Circle!NothingFromOutside]_all
<1>1. /\ RoomsInit /\ subject = "typed" => Typed!Circle!Init
      /\ [RoomsNext]_all /\ subject = "typed" => [Typed!Circle!Next]_(Typed!Circle!vars)
      /\ [RoomsNext]_all => ((subject = "typed") <=> (subject = "typed")')
      /\ [RoomsNext]_all /\ (~(subject = "typed") \/ ([Typed!Circle!CompletionIsFinal]_(Typed!Circle!vars) /\ [Typed!Circle!NothingFromOutside]_(Typed!Circle!vars)))
          => [subject = "typed" => Typed!Circle!CompletionIsFinal /\ Typed!Circle!NothingFromOutside]_all
  BY DEF RoomsInit, RoomsNext, all, chatOnly, timeOnly, roomOnly, circleOnly, codeOnly,
         runOnly, text, Typed!Circle!vars, Typed!Circle!roomVars, Typed!Circle!codeVars,
         Typed!Circle!chatVars
<1>2. Typed!Circle!Spec
       => /\ []Typed!CircleSafe
          /\ [][Typed!Circle!CompletionIsFinal]_(Typed!Circle!vars)
          /\ [][Typed!Circle!NothingFromOutside]_(Typed!Circle!vars)
  BY InstancesAreLegal, Typed!CirclesAreSafe, Typed!CircleStepsHold
<1> QED BY <1>1, <1>2, PTL DEF RoomsSpec, Typed!Circle!Spec, Typed!CircleSafe

(* A secondary room with controls.                                          *)
LEMMA MovingRuns ==
  RoomsSpec => /\ [](subject = "moving" => Moving!Circle!TypeOK /\ Moving!Circle!Room!TimerIsConserved)
               /\ [][subject = "moving" => Moving!Circle!CompletionIsFinal /\ Moving!Circle!NothingFromOutside]_all
<1>1. /\ RoomsInit /\ subject = "moving" => Moving!Circle!Init
      /\ [RoomsNext]_all /\ subject = "moving" => [Moving!Circle!Next]_(Moving!Circle!vars)
      /\ [RoomsNext]_all => ((subject = "moving") <=> (subject = "moving")')
      /\ [RoomsNext]_all /\ (~(subject = "moving") \/ ([Moving!Circle!CompletionIsFinal]_(Moving!Circle!vars) /\ [Moving!Circle!NothingFromOutside]_(Moving!Circle!vars)))
          => [subject = "moving" => Moving!Circle!CompletionIsFinal /\ Moving!Circle!NothingFromOutside]_all
  BY DEF RoomsInit, RoomsNext, all, chatOnly, timeOnly, roomOnly, circleOnly, codeOnly,
         runOnly, text, Moving!Circle!vars, Moving!Circle!roomVars, Moving!Circle!codeVars,
         Moving!Circle!chatVars
<1>2. Moving!Circle!Spec
       => /\ []Moving!CircleSafe
          /\ [][Moving!Circle!CompletionIsFinal]_(Moving!Circle!vars)
          /\ [][Moving!Circle!NothingFromOutside]_(Moving!Circle!vars)
  BY InstancesAreLegal, Moving!CirclesAreSafe, Moving!CircleStepsHold
<1> QED BY <1>1, <1>2, PTL DEF RoomsSpec, Moving!Circle!Spec, Moving!CircleSafe

(* A secondary room with a link.                                            *)
LEMMA ElsewhereRuns ==
  RoomsSpec => /\ [](subject = "elsewhere" => Elsewhere!Circle!TypeOK /\ Elsewhere!Circle!Room!CurrentIsFresh)
               /\ [][subject = "elsewhere" => Elsewhere!Circle!CompletionIsFinal]_all
<1>1. /\ RoomsInit /\ subject = "elsewhere" => Elsewhere!Circle!Init
      /\ [RoomsNext]_all /\ subject = "elsewhere" => [Elsewhere!Circle!Next]_(Elsewhere!Circle!vars)
      /\ [RoomsNext]_all => ((subject = "elsewhere") <=> (subject = "elsewhere")')
      /\ [RoomsNext]_all /\ (~(subject = "elsewhere") \/ ([Elsewhere!Circle!CompletionIsFinal]_(Elsewhere!Circle!vars) /\ [Elsewhere!Circle!NothingFromOutside]_(Elsewhere!Circle!vars)))
          => [subject = "elsewhere" => Elsewhere!Circle!CompletionIsFinal]_all
  BY DEF RoomsInit, RoomsNext, all, chatOnly, timeOnly, roomOnly, circleOnly, codeOnly,
         runOnly, text, Elsewhere!Circle!vars, Elsewhere!Circle!roomVars,
         Elsewhere!Circle!codeVars, Elsewhere!Circle!chatVars
<1>2. Elsewhere!Circle!Spec
       => /\ []Elsewhere!CircleSafe
          /\ [][Elsewhere!Circle!CompletionIsFinal]_(Elsewhere!Circle!vars)
          /\ [][Elsewhere!Circle!NothingFromOutside]_(Elsewhere!Circle!vars)
  BY InstancesAreLegal, Elsewhere!CirclesAreSafe, Elsewhere!CircleStepsHold
<1> QED BY <1>1, <1>2, PTL DEF RoomsSpec, Elsewhere!Circle!Spec, Elsewhere!CircleSafe

(* The chat of a secondary room.                                            *)
LEMMA ChattingRuns ==
  RoomsSpec => /\ [](subject = "chatting" => Chatting!Circle!TypeOK /\ Chatting!Circle!RateHolds)
               /\ [][subject = "chatting" => Chatting!Circle!NothingFromOutside]_all
<1>1. /\ RoomsInit /\ subject = "chatting" => Chatting!Circle!Init
      /\ [RoomsNext]_all /\ subject = "chatting" => [Chatting!Circle!Next]_(Chatting!Circle!vars)
      /\ [RoomsNext]_all => ((subject = "chatting") <=> (subject = "chatting")')
      /\ [RoomsNext]_all /\ (~(subject = "chatting") \/ ([Chatting!Circle!CompletionIsFinal]_(Chatting!Circle!vars) /\ [Chatting!Circle!NothingFromOutside]_(Chatting!Circle!vars)))
          => [subject = "chatting" => Chatting!Circle!NothingFromOutside]_all
  BY DEF RoomsInit, RoomsNext, all, chatOnly, timeOnly, roomOnly, circleOnly, codeOnly,
         runOnly, text, Chatting!Circle!vars, Chatting!Circle!roomVars,
         Chatting!Circle!codeVars, Chatting!Circle!chatVars
<1>2. Chatting!Circle!Spec
       => /\ []Chatting!CircleSafe
          /\ [][Chatting!Circle!CompletionIsFinal]_(Chatting!Circle!vars)
          /\ [][Chatting!Circle!NothingFromOutside]_(Chatting!Circle!vars)
  BY InstancesAreLegal, Chatting!CirclesAreSafe, Chatting!CircleStepsHold
<1> QED BY <1>1, <1>2, PTL DEF RoomsSpec, Chatting!Circle!Spec, Chatting!CircleSafe

(* Submissions.                                                             *)
LEMMA RunningRuns ==
  RoomsSpec => /\ [](subject = "running" => Typing!Execute!TypeOK /\ Typing!Execute!OneUnderLease /\ Typing!Execute!RunsAreLimited)
               /\ [][subject = "running" => Typing!Execute!ResultsAreCurrent]_all
<1>1. /\ RoomsInit /\ subject = "running" => Typing!Execute!Init
      /\ [RoomsNext]_all /\ subject = "running" => [Typing!Execute!Next]_(Typing!Execute!vars)
      /\ [RoomsNext]_all => ((subject = "running") <=> (subject = "running")')
      /\ [RoomsNext]_all /\ (~(subject = "running") \/ [Typing!Execute!ResultsAreCurrent]_(Typing!Execute!vars))
          => [subject = "running" => Typing!Execute!ResultsAreCurrent]_all
  BY DEF RoomsInit, RoomsNext, all, chatOnly, timeOnly, roomOnly, circleOnly, codeOnly,
         runOnly, text, Typing!Execute!vars
<1>2. Typing!Execute!Spec
       => /\ []Typing!Execute!TypeOK /\ []Typing!Execute!OneUnderLease /\ []Typing!Execute!RunsAreLimited
          /\ [][Typing!Execute!ResultsAreCurrent]_(Typing!Execute!vars)
  BY InstancesAreLegal, Typing!ExecutionTypes, Typing!OneLeaseInForce, Typing!RunsStayLimited, Typing!ResultsAreOfTheCurrent
<1> QED BY <1>1, <1>2, PTL DEF RoomsSpec, Typing!Execute!Spec

(* Three of one user.                                                       *)
LEMMA CrowdingRuns ==
  RoomsSpec => /\ [](subject = "crowding" => Fading!Execute!TypeOK /\ Fading!Execute!OneUnderLease /\ Fading!Execute!RunsAreLimited)
               /\ [][subject = "crowding" => Fading!Execute!ResultsAreCurrent]_all
<1>1. /\ RoomsInit /\ subject = "crowding" => Fading!Execute!Init
      /\ [RoomsNext]_all /\ subject = "crowding" => [Fading!Execute!Next]_(Fading!Execute!vars)
      /\ [RoomsNext]_all => ((subject = "crowding") <=> (subject = "crowding")')
      /\ [RoomsNext]_all /\ (~(subject = "crowding") \/ [Fading!Execute!ResultsAreCurrent]_(Fading!Execute!vars))
          => [subject = "crowding" => Fading!Execute!ResultsAreCurrent]_all
  BY DEF RoomsInit, RoomsNext, all, chatOnly, timeOnly, roomOnly, circleOnly, codeOnly,
         runOnly, text, Fading!Execute!vars
<1>2. Fading!Execute!Spec
       => /\ []Fading!Execute!TypeOK /\ []Fading!Execute!OneUnderLease /\ []Fading!Execute!RunsAreLimited
          /\ [][Fading!Execute!ResultsAreCurrent]_(Fading!Execute!vars)
  BY InstancesAreLegal, Fading!ExecutionTypes, Fading!OneLeaseInForce, Fading!RunsStayLimited, Fading!ResultsAreOfTheCurrent
<1> QED BY <1>1, <1>2, PTL DEF RoomsSpec, Fading!Execute!Spec

(* Every row, page, letter, lease and request of every part has its type.    *)
THEOREM RoomsAreTyped == RoomsSpec => []TypesOK
<1> DEFINE
     ChatsTyped == /\ subject = "run" => Typed!TypeOK
                   /\ subject = "rerun" => Moving!TypeOK
     TimesTyped == /\ subject = "pages" => Typed!Schedule!TypeOK
                   /\ subject = "tables" => Moving!Schedule!TypeOK
                   /\ subject = "letters" => Elsewhere!Schedule!TypeOK
                   /\ subject = "renewals" => Chatting!Schedule!TypeOK
     SessionsTyped == /\ subject = "timer" => Chatting!Circle!Room!TypeOK
                      /\ subject = "meeting" => Elsewhere!Circle!Room!TypeOK
     CodeTyped == /\ subject = "typing" => Typing!TypeOK
                  /\ subject = "reloading" => Reloading!TypeOK
                  /\ subject = "sharing" => Sharing!TypeOK
                  /\ subject = "fading" => Fading!TypeOK
     CirclesTyped == /\ subject = "typed" => Typed!Circle!TypeOK
                     /\ subject = "moving" => Moving!Circle!TypeOK
     LinksTyped == subject = "elsewhere" => Elsewhere!Circle!TypeOK
     TalkTyped == subject = "chatting" => Chatting!Circle!TypeOK
     RunsTyped == /\ subject = "running" => Typing!Execute!TypeOK
                  /\ subject = "crowding" => Fading!Execute!TypeOK
<1>1. RoomsSpec => []ChatsTyped
  BY RunRuns, RerunRuns, PTL
<1>2. RoomsSpec => []TimesTyped
  BY PagesRuns, TablesRuns, LettersRuns, RenewalsRuns, PTL
<1>3. RoomsSpec => []SessionsTyped
  BY TimerRuns, MeetingRuns, PTL
<1>4. RoomsSpec => []CodeTyped
  BY TypingRuns, ReloadingRuns, SharingRuns, FadingRuns, PTL
<1>5. RoomsSpec => []CirclesTyped
  BY TypedRuns, MovingRuns, PTL
<1>6. RoomsSpec => []LinksTyped
  BY ElsewhereRuns, PTL
<1>7. RoomsSpec => []TalkTyped
  BY ChattingRuns, PTL
<1>8. RoomsSpec => []RunsTyped
  BY RunningRuns, CrowdingRuns, PTL
<1>9. ChatsTyped /\ TimesTyped /\ SessionsTyped /\ CodeTyped /\ CirclesTyped
      /\ LinksTyped /\ TalkTyped /\ RunsTyped => TypesOK
  BY DEF TypesOK
<1> HIDE DEF ChatsTyped, TimesTyped, SessionsTyped, CodeTyped, CirclesTyped, LinksTyped, TalkTyped, RunsTyped
<1> QED BY <1>1, <1>2, <1>3, <1>4, <1>5, <1>6, <1>7, <1>8, <1>9, PTL

(* The letter that was checked last names the time that is agreed, the timer *)
(* shows what is left, and no version that a page shows returns (api/        *)
(* _schedule-email.js:167, api/_session-controls.js:155,                     *)
(* api/_meeting-link.js).                                                    *)
THEOREM ShownIsTrue == RoomsSpec => []WhatIsShownIsTrue
BY LettersRuns, RenewalsRuns, TimerRuns, MeetingRuns, MovingRuns, ElsewhereRuns, PTL DEF WhatIsShownIsTrue

(* No edit that a document had, or the only page of an account typed into    *)
(* one, is lost, a page that offers a version to run shows its text, and the *)
(* snapshot follows the document (api/_code-document.js:629,                 *)
(* api/video.js:493).                                                        *)
THEOREM CodeStaysKept == RoomsSpec => []CodeIsKept
BY TypingRuns, ReloadingRuns, SharingRuns, FadingRuns, TypedRuns, PTL DEF CodeIsKept

(* Nobody sends or runs more than the limits, or has two leases in force     *)
(* (api/_secondary-workspace.js:109, api/data.js:2565).                      *)
THEOREM LimitsAlwaysHold == RoomsSpec => []LimitsHold
BY ChattingRuns, RunningRuns, CrowdingRuns, PTL DEF LimitsHold

(* A schedule changes only by who was shown it, a completed session stays as *)
(* it is, what is stored was run on the version that the pair has, and       *)
(* nothing is written from outside the circle (api/_schedule.js,             *)
(* api/data.js:2780, api/_workspace-access.js).                              *)
THEOREM StepsStayDeliberate == RoomsSpec => StepsAreDeliberate
<1> DEFINE
     Agreements == /\ subject = "pages" => Typed!Schedule!ActsOnWhatIsShown /\ Typed!Schedule!AgreesOnTheFuture
                   /\ subject = "tables" => Moving!Schedule!ActsOnWhatIsShown /\ Moving!Schedule!AgreesOnTheFuture
     Sessions == /\ subject = "timer" => Chatting!Circle!Room!CompletionIsFinal
                 /\ subject = "meeting" => Elsewhere!Circle!Room!CompletionIsFinal
     Typists == /\ subject = "typing" => Typing!NothingMergedAfter
                /\ subject = "reloading" => Reloading!NothingMergedAfter
                /\ subject = "sharing" => Sharing!NothingMergedAfter
                /\ subject = "fading" => Fading!NothingMergedAfter
     Circles == /\ subject = "typed" => Typed!Circle!CompletionIsFinal /\ Typed!Circle!NothingFromOutside
                /\ subject = "moving" => Moving!Circle!CompletionIsFinal /\ Moving!Circle!NothingFromOutside
                /\ subject = "elsewhere" => Elsewhere!Circle!CompletionIsFinal
                /\ subject = "chatting" => Chatting!Circle!NothingFromOutside
     Submissions == /\ subject = "running" => Typing!Execute!ResultsAreCurrent
                    /\ subject = "crowding" => Fading!Execute!ResultsAreCurrent
<1>1. RoomsSpec => [][Agreements]_all
  BY PagesRuns, TablesRuns, PTL
<1>2. RoomsSpec => [][Sessions]_all
  BY TimerRuns, MeetingRuns, PTL
<1>3. RoomsSpec => [][Typists]_all
  BY TypingRuns, ReloadingRuns, SharingRuns, FadingRuns, PTL
<1>4. RoomsSpec => [][Circles]_all
  BY TypedRuns, MovingRuns, ElsewhereRuns, ChattingRuns, PTL
<1>5. RoomsSpec => [][Submissions]_all
  BY RunningRuns, CrowdingRuns, PTL
<1>6. Agreements /\ Sessions /\ Typists /\ Circles /\ Submissions => Deliberate
  BY DEF Deliberate
<1> HIDE DEF Agreements, Sessions, Typists, Circles, Submissions
<1> QED BY <1>1, <1>2, <1>3, <1>4, <1>5, <1>6, PTL DEF StepsAreDeliberate
==============================================================================
