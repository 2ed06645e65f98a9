---------------------------- MODULE SessionRoom ----------------------------
(* The session of one pair of the primary circle: who confirmed that it took *)
(* place, the shared interview controls with their timer, and the meeting    *)
(* link of the agreed time.  Every mutation is one write transaction on the  *)
(* database clock that carries the version its page showed; a version is a   *)
(* digest, here the tuple it is computed from.  Only mutations that change   *)
(* something are actions: a refusal answers the current state (Look), and a  *)
(* repeated one is answered the same way and writes nothing.                 *)
EXTENDS Integers, FiniteSets

CONSTANTS
  Users,        \* the members whose confirmation is required
  First,        \* user_a, the candidate until somebody is chosen
  Controls,     \* whether the pair has controls (two people) or not
  Losing,       \* who may miss the answer to a mutation
  Duration,     \* SESSION_TIMER_DURATION_MS
  Urls, Instants,
  MaxNow, MaxRevision \* bounds of the model

(* Assumed of every instance. *)
RoomConstants ==
  /\ First \in Users /\ Controls \in BOOLEAN /\ (Controls => Cardinality(Users) = 2)
  /\ Losing \subseteq Users
  /\ {Duration, MaxNow, MaxRevision} \subseteq Nat /\ Duration > 0 /\ Instants \subseteq Nat \ {0}

VARIABLES
  now,
  receipt,    \* session_completion_receipts: when each member confirmed
  controls,   \* pair_session_controls; revision 0 stands for no row
  agreed,     \* the accepted time of the schedule
  scheduled,  \* its version
  link,       \* pair_meeting_links; revision 0 stands for no row
  view,       \* the versions the page of each member shows
  overtaken,  \* <<u, part>>: the part changed after the page of u read it
  ran         \* how long the timer has run since its last reset

vars == <<now, receipt, controls, agreed, scheduled, link, view, overtaken, ran>>

Never  == -1
NoTime == 0
NoUrl  == "none"
NoLink == [time |-> NoTime, url |-> NoUrl, revision |-> 0]

(* ------------------------------ Completion ------------------------------- *)

CompletionVersion == receipt
Confirmed == {u \in Users : receipt[u] # Never}

(* projectSessionCompletion: every required member confirmed.                *)
Completed == Confirmed = Users

(* The latest of the confirmations.                                          *)
CompletedAt == CHOOSE t \in {receipt[u] : u \in Users} : \A u \in Users : receipt[u] <= t

(* ------------------------------- Controls -------------------------------- *)

(* durableState: what no row means.                                          *)
NoControls == [candidate |-> First, state |-> "paused", remaining |-> Duration,
               anchor |-> Never, revision |-> 0, updated |-> 0]

ControlsVersion == <<controls.candidate, controls.state, controls.remaining,
                     controls.anchor, controls.revision>>

(* Mutant of Clock: the timer does not stop when the session is completed.   *)
ClockRunsOn == now

(* The clock of the timer stands still once the session is completed.        *)
Clock == IF Completed THEN CompletedAt ELSE now

Left(remaining, elapsed) == IF remaining > elapsed THEN remaining - elapsed ELSE 0

Remaining == IF controls.state = "running"
             THEN Left(controls.remaining, Clock - controls.anchor) ELSE controls.remaining
TimerState == IF Remaining = 0 THEN "expired" ELSE controls.state

Switched(c) == [controls EXCEPT !.candidate = c]
Started == [controls EXCEPT !.state = "running", !.remaining = Remaining, !.anchor = now]
Paused  == [controls EXCEPT !.state = "paused", !.remaining = Remaining, !.anchor = Never]
Reset   == [controls EXCEPT !.state = "paused", !.remaining = Duration, !.anchor = Never]

(* desiredTransition: what the member may ask for and is not so already.  An *)
(* expired timer is reset before it starts again.                            *)
Transitions ==
  {Switched(c) : c \in Users}
  \cup (IF TimerState # "running" /\ Remaining > 0 THEN {Started} ELSE {})
  \cup (IF TimerState = "running" THEN {Paused} ELSE {})
  \cup {Reset}

(* ------------------------------ Meeting link ----------------------------- *)

Lifecycle == IF Completed THEN "completed" ELSE IF agreed = NoTime THEN "unscheduled" ELSE "active"

(* meetingVersion with the two versions a link mutation carries besides; all *)
(* that is hidden when there is no active link.                              *)
LinkVersion ==
  [lifecycle |-> Lifecycle, scheduled |-> scheduled, completion |-> CompletionVersion,
   row |-> IF Lifecycle = "active" THEN link ELSE NoLink]

Version == [completion |-> CompletionVersion, controls |-> ControlsVersion, link |-> LinkVersion]

(* ------------------------------ Transitions ------------------------------ *)

Init ==
  /\ now = 0 /\ receipt = [u \in Users |-> Never] /\ controls = NoControls
  /\ agreed = NoTime /\ scheduled = 0 /\ link = NoLink
  /\ view = [u \in Users |-> Version] /\ overtaken = {} /\ ran = 0

(* u changed part; its answer arrives or is lost, and every page that showed *)
(* the part before, its own included, has been overtaken.                    *)
Answered(u, part) ==
  \/ /\ view' = [view EXCEPT ![u][part] = Version'[part]]
     /\ overtaken' = (overtaken \cup (Users \X {part})) \ {<<u, part>>}
  \/ u \in Losing /\ UNCHANGED view /\ overtaken' = overtaken \cup (Users \X {part})

(* mutateAttempt of _session-completion.js: confirm.                         *)
Confirm(u) ==
  /\ receipt[u] = Never /\ view[u].completion = CompletionVersion
  /\ receipt' = [receipt EXCEPT ![u] = now]
  /\ UNCHANGED <<now, controls, agreed, scheduled, link, ran>>
  /\ Answered(u, "completion")

(* The same: withdraw, refused once the session is completed.                *)
Withdraw(u) ==
  /\ ~Completed /\ receipt[u] # Never
  /\ view[u].completion = CompletionVersion
  /\ receipt' = [receipt EXCEPT ![u] = Never]
  /\ UNCHANGED <<now, controls, agreed, scheduled, link, ran>>
  /\ Answered(u, "completion")

(* writeTransition: the row inserted, or updated at the revision read.       *)
Written(next) == [next EXCEPT !.revision = controls.revision + 1, !.updated = now]

(* mutateAttempt of _session-controls.js.                                    *)
Control(u) == \E next \in Transitions :
  /\ Controls /\ ~Completed /\ next # controls
  /\ view[u].controls = ControlsVersion
  /\ controls.revision < MaxRevision
  /\ controls' = Written(next)
  /\ ran' = IF next = Reset THEN 0 ELSE ran
  /\ UNCHANGED <<now, receipt, agreed, scheduled, link>>
  /\ Answered(u, "controls")

(* mutateAttempt of _meeting-link.js: set a link, or clear it (NoUrl).       *)
SetLink(u) == \E url \in Urls \cup {NoUrl} :
  /\ ~Controls /\ Lifecycle = "active" /\ url # link.url
  /\ view[u].link = LinkVersion
  /\ link.revision < MaxRevision
  /\ link' = [time |-> agreed, url |-> url, revision |-> link.revision + 1]
  /\ UNCHANGED <<now, receipt, controls, agreed, scheduled, ran>>
  /\ Answered(u, "link")

(* trg_pair_schedules_meeting_link_invalidate.                               *)
Invalidated(time) == IF time # agreed THEN NoLink ELSE link

(* A mutation of the schedule (module Scheduling), possible even after the   *)
(* session was completed; what it changes is the versions shown.             *)
Reschedule == \E time \in Instants \cup {NoTime} :
  /\ ~Controls /\ scheduled < MaxRevision
  /\ agreed' = time /\ scheduled' = scheduled + 1 /\ link' = Invalidated(time)
  /\ overtaken' = overtaken \cup (Users \X {"link"})
  /\ UNCHANGED <<now, receipt, controls, view, ran>>

(* GET, or the state in the answer of a refused or repeated mutation.        *)
Look(u, part) ==
  /\ view[u][part] # Version[part]
  /\ view' = [view EXCEPT ![u][part] = Version[part]]
  /\ overtaken' = overtaken \ {<<u, part>>}
  /\ UNCHANGED <<now, receipt, controls, agreed, scheduled, link, ran>>

Tick ==
  /\ now < MaxNow /\ now' = now + 1
  /\ ran' = IF ~Completed /\ TimerState = "running" THEN ran + 1 ELSE ran
  /\ UNCHANGED <<receipt, controls, agreed, scheduled, link, view, overtaken>>

Parts == {"completion"} \cup IF Controls THEN {"controls"} ELSE {"link"}

Next ==
  \/ \E u \in Users : Confirm(u) \/ Withdraw(u) \/ Control(u) \/ SetLink(u)
  \/ \E u \in Users, part \in Parts : Look(u, part)
  \/ Reschedule \/ Tick

Spec == Init /\ [][Next]_vars

(* ------------------------------ Properties ------------------------------- *)

TypeOK ==
  /\ now \in 0..MaxNow /\ receipt \in [Users -> {Never} \cup 0..MaxNow]
  /\ controls \in [candidate : Users, state : {"paused", "running"}, remaining : 0..Duration,
                   anchor : {Never} \cup 0..MaxNow, revision : 0..MaxRevision, updated : 0..MaxNow]
  /\ agreed \in Instants \cup {NoTime} /\ scheduled \in 0..MaxRevision
  /\ link \in [time : Instants \cup {NoTime}, url : Urls \cup {NoUrl}, revision : 0..MaxRevision]
  /\ DOMAIN view = Users
  /\ overtaken \subseteq Users \X {"completion", "controls", "link"} /\ ran \in 0..MaxNow

(* The timer shows what is left of the duration after all the time it ran    *)
(* since its last reset, through pauses, changes of roles, lost answers and  *)
(* completion, and its row is always one the reader accepts (api/_session-   *)
(* controls.js:155, :200, :207).  docs/SESSION_CONTROLS.md.                  *)
TimerIsConserved ==
  /\ Remaining = Left(Duration, ran)
  /\ controls.anchor = Never <=> controls.state = "paused"
  /\ controls.state = "running" => controls.remaining > 0
  /\ controls.updated <= Clock

(* A page whose version of the controls or of the link is current was not    *)
(* overtaken since it read it: no sequence of changes leads back to a        *)
(* version that was shown, also when the row of a link is deleted and begins *)
(* at revision 1 again.                                                      *)
CurrentIsFresh == \A u \in Users, part \in Parts \ {"completion"} :
  view[u][part] = Version[part] => <<u, part>> \notin overtaken

(* Once all have confirmed, receipts and controls stay and no link is shown  *)
(* or written; one that the schedule leaves behind is deleted.               *)
CompletionIsFinal ==
  Completed => /\ UNCHANGED <<receipt, controls>> /\ link' \in {link, NoLink}
               /\ LinkVersion'.row = NoLink
=============================================================================
