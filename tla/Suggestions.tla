---------------------------- MODULE Suggestions ----------------------------
(* Suggested next exercises: the server chooses them from what the member   *)
(* and the partners of the current room have attempted                      *)
(* (api/_exercise-suggestions.js), the page keeps a hide list, asks again   *)
(* when the member, the room or the list changes, and shows the answer      *)
(* (assets/exercise-suggestions.js). The time of an attempt is its place in *)
(* the trail. A room has one exercise, which counts as attempted when all   *)
(* its participants have confirmed the session.                             *)
EXTENDS Integers, SequencesExt, FiniteSetsExt

CONSTANTS
  Members,      \* the participants of the room
  Users,        \* those who use the browser of the page
  Leaving,      \* those who may leave the circle
  Exercises,    \* the catalogue, a sequence in the order of slugs
  Topics,       \* the topics of each exercise
  Level,        \* the difficulty of each, from 0 to 2, or -1
  RoomExercise, \* what the room practises
  Window,       \* how many recent attempts set the difficulty
  MaxPicks,     \* how many exercises are suggested
  MaxHidden,    \* how many exercises the hide list holds
  MaxTrail,     \* bound: attempts and confirmations
  None

VARIABLES
  trail,   \* attempts in the room, elsewhere, and confirmations, in order
  active,  \* the members of the circle
  live,    \* the room is a pair of the newest week
  stored,  \* the browser's hide list of each member
  page,    \* who is signed in, the room, and the state of the controller
  asks     \* the requests in flight whose answers the page waits for

vars == <<trail, active, live, stored, page, asks>>

All == ToSet(Exercises)

(* Assumed of every instance.                                               *)
SuggestionConstants ==
  /\ RoomExercise \in All /\ Level \in [All -> -1..2] /\ DOMAIN Topics = All
  /\ {Window, MaxPicks, MaxHidden} \subseteq Nat \ {0} /\ MaxTrail \in Nat
  /\ Users \cup Leaving \subseteq Members /\ None \notin Members

-----------------------------------------------------------------------------
(* What a member has attempted, and when last.                              *)
Times(t, Is(_)) == {i \in DOMAIN t : Is(t[i])}

Completed(t) == \A m \in Members : \E i \in DOMAIN t : t[i].who = m /\ t[i].how = "receipt"

AttemptTimes(t, m, e) ==
  Times(t, LAMBDA a : a.who = m /\ a.what = e /\ a.how # "receipt")
    \cup (IF e = RoomExercise /\ Completed(t) THEN {Max(Times(t, LAMBDA a : a.how = "receipt"))} ELSE {})

History(t, m) == {e \in All : AttemptTimes(t, m, e) # {}}

(* The partners' runs in the room, which its run feed shows to everyone.    *)
RoomTimes(t, partners, e) == Times(t, LAMBDA a : a.who \in partners /\ a.what = e /\ a.how = "here")

-----------------------------------------------------------------------------
(* The selection rule. Of the partners it knows the times of their runs in  *)
(* the room; of what they attempted elsewhere, only that they did.          *)
Newest(times) ==
  {e \in All : times[e] # {} /\ Cardinality({f \in All : times[f] # {} /\ Max(times[f]) > Max(times[e])}) < Window}

Hardest(levels) == IF levels \subseteq {-1} THEN -1 ELSE Max(levels)

Recent(t, m, partners) ==
  Hardest({Level[e] : e \in Newest([x \in All |-> AttemptTimes(t, m, x) \cup RoomTimes(t, partners, x)])})

Attempted(t, m, partners) == UNION {History(t, x) : x \in {m} \cup partners}

(* One level above the recent one, or the easiest.                          *)
Target(recent) == IF recent = -1 THEN 0 ELSE Min({2, recent + 1})

Place(e) == CHOOSE i \in DOMAIN Exercises : Exercises[i] = e
Gap(level, target) == IF level < 0 THEN 3 ELSE IF level < target THEN target - level ELSE level - target

(* Each attempted exercise and each pick before covers its topics.          *)
Coverage(e, covering) ==
  IF Topics[e] = {} THEN 0
  ELSE Min({Cardinality({f \in covering : topic \in Topics[f]}) : topic \in Topics[e]})

Rank(e, covering, target) ==
  <<Coverage(e, covering), Gap(Level[e], target), IF Level[e] > target THEN 1 ELSE 0, Place(e)>>

Before(a, b) == \E k \in 1..4 : a[k] < b[k] /\ \A j \in 1..(k - 1) : a[j] = b[j]

Best(rank) == CHOOSE e \in DOMAIN rank : \A f \in DOMAIN rank \ {e} : Before(rank[e], rank[f])

WithBest(picks, C, covering, target) ==
  IF C = {} THEN picks ELSE Append(picks, Best([e \in C |-> Rank(e, covering, target)]))

Chosen(attempted, target, hidden) ==
  LET Pick(picks, i) == WithBest(picks, All \ (attempted \cup hidden \cup ToSet(picks)), attempted \cup ToSet(picks), target)
  IN [picks |-> FoldLeft(Pick, <<>>, [i \in 1..MaxPicks |-> i]),
      target |-> target, hiddenCount |-> Cardinality(hidden \ attempted)]

Selection(t, m, partners, hidden) == Chosen(Attempted(t, m, partners), Target(Recent(t, m, partners)), hidden)

(* The answer: the selection and one pair of booleans per exercise.         *)
Answer(t, m, partners, hidden) ==
  Selection(t, m, partners, hidden)
    @@ [pair |-> partners # {}, byMe |-> History(t, m), byPartner |-> UNION {History(t, p) : p \in partners}]

-----------------------------------------------------------------------------
(* The pair access of the viewer, and the partners who are still members.   *)
InRoom(m) == live /\ m \in active
Partners(m) == active \ {m}

Key(user, room) == [user |-> user, room |-> room, hidden |-> stored[user]]

Init ==
  /\ trail = <<>> /\ active = Members /\ live = TRUE
  /\ stored = [m \in Users |-> <<>>]
  /\ page = [user |-> None, room |-> FALSE, pending |-> None, key |-> None, view |-> None, crossed |-> FALSE]
  /\ asks = {}

-----------------------------------------------------------------------------
(* The page. A load makes every earlier request stale, whose answer is then  *)
(* ignored; clearing shows nothing. Requests of the room are authorized      *)
(* before they are answered.                                                *)
Current(requests) == {}

Request(key) ==
  [key |-> key, solo |-> ~key.room, partners |-> {}, answer |-> None,
   at |-> IF key.room THEN "audience" ELSE "read"]

Loading(p, key) ==
  /\ page' = [p EXCEPT !.pending = key, !.crossed = FALSE]
  /\ asks' = Current(asks) \cup {Request(key)}

Cleared(p) ==
  /\ page' = [p EXCEPT !.pending = None, !.key = None, !.view = None, !.crossed = FALSE]
  /\ asks' = Current(asks)

(* An unforced refresh reuses the request in flight or the shown view of    *)
(* the same key. (The request of another key then goes on: crossed.)        *)
Refreshed(p, force) ==
  IF p.user = None THEN Cleared(p)
  ELSE LET key == Key(p.user, p.room)
       IN IF ~force /\ p.pending = key THEN page' = [p EXCEPT !.crossed = FALSE] /\ UNCHANGED asks
          ELSE IF ~force /\ p.key = key /\ p.view # None
          THEN page' = [p EXCEPT !.crossed = p.pending # None] /\ UNCHANGED asks
          ELSE Loading(p, key)

(* Somebody signs in, or out; the room changes.                             *)
SignIn(m) == /\ m # page.user
             /\ Refreshed([page EXCEPT !.user = m, !.room = FALSE], FALSE)
             /\ UNCHANGED <<trail, active, live, stored>>

SignOut == /\ page.user # None
           /\ Refreshed([page EXCEPT !.user = None, !.room = FALSE], FALSE)
           /\ UNCHANGED <<trail, active, live, stored>>

ChangeRoom == /\ page.user # None
              /\ Refreshed([page EXCEPT !.room = ~page.room], FALSE)
              /\ UNCHANGED <<trail, active, live, stored>>

(* The oldest hidden exercise is forgotten at the cap.                      *)
Capped(list) == SubSeq(list, Max({1, Len(list) - MaxHidden + 1}), Len(list))
Hidden(list, e) == Capped(Append(SelectSeq(list, LAMBDA x : x # e), e))

(* The list is written first, so the refresh reads the new one.             *)
Relisted(list) ==
  /\ stored' = [stored EXCEPT ![page.user] = list]
  /\ Loading(page, [user |-> page.user, room |-> page.room, hidden |-> list])
  /\ UNCHANGED <<trail, active, live>>

Hide(e) ==
  /\ page.user # None /\ page.view # None /\ e \in ToSet(page.view.picks)
  /\ Relisted(Hidden(stored[page.user], e))

ShowHidden ==
  /\ page.user # None /\ page.view # None /\ page.view.hiddenCount > 0
  /\ Relisted(<<>>)

(* Another tab of the browser hides an exercise; this one is not told.      *)
HideElsewhere(m, e) ==
  /\ e \notin ToSet(stored[m])
  /\ stored' = [stored EXCEPT ![m] = Hidden(@, e)]
  /\ UNCHANGED <<trail, active, live, page, asks>>

(* The page judges its own run and refreshes by force.                      *)
Attempt(m, e, how) == trail' = Append(trail, [who |-> m, what |-> e, how |-> how])

Run(e) ==
  /\ page.user # None /\ Len(trail) < MaxTrail
  /\ page.room => InRoom(page.user)
  /\ Attempt(page.user, e, IF page.room THEN "here" ELSE "else")
  /\ Refreshed(page, TRUE)
  /\ UNCHANGED <<active, live, stored>>

-----------------------------------------------------------------------------
(* Others, and other pages, attempt exercises and confirm the session.      *)
OthersRun(m, e, how) ==
  /\ m # page.user /\ Len(trail) < MaxTrail
  /\ how = "here" => InRoom(m)
  /\ Attempt(m, e, how)
  /\ UNCHANGED <<active, live, stored, page, asks>>

Confirm(m) ==
  /\ InRoom(m) /\ Len(trail) < MaxTrail
  /\ ~\E i \in DOMAIN trail : trail[i].who = m /\ trail[i].how = "receipt"
  /\ Attempt(m, RoomExercise, "receipt")
  /\ UNCHANGED <<active, live, stored, page, asks>>

Leave(m) == m \in active /\ active' = active \ {m} /\ UNCHANGED <<trail, live, stored, page, asks>>

NextWeek == live /\ live' = FALSE /\ UNCHANGED <<trail, active, stored, page, asks>>

-----------------------------------------------------------------------------
(* The server: who may be in the answer, then one read transaction which    *)
(* asks again.                                                              *)
Advanced(a, b) == asks' = (asks \ {a}) \cup {b} /\ UNCHANGED <<trail, active, live, stored, page>>

Audience(a) ==
  /\ a.at = "audience"
  /\ Advanced(a, IF InRoom(a.key.user) THEN [a EXCEPT !.at = "read", !.partners = Partners(a.key.user)]
                 ELSE [a EXCEPT !.at = "not found"])

Read(a) ==
  /\ a.at = "read"
  /\ LET m == a.key.user
         still == IF a.solo THEN {} ELSE a.partners \cap Partners(m)
     IN Advanced(a, IF ~a.solo /\ ~InRoom(m) THEN [a EXCEPT !.at = "not found", !.partners = {}]
                    ELSE [a EXCEPT !.at = "answered", !.partners = {},
                                   !.answer = Answer(trail, m, still, ToSet(a.key.hidden))])

(* The connection or the server fails.                                      *)
Fail(a) == a.at \in {"audience", "read"} /\ Advanced(a, [a EXCEPT !.at = "failed", !.partners = {}])

-----------------------------------------------------------------------------
(* The page has the answer. A room that is not the member's current pair is *)
(* asked about as solo practice; hidden exercises that the member has since *)
(* attempted leave the list.                                                *)
Unseen(list, view) == SelectSeq(list, LAMBDA e : e \notin view.byMe)

Publish(a) ==
  LET view == IF a.at = "answered" THEN a.answer ELSE None
      kept == IF view = None THEN a.key.hidden ELSE Unseen(a.key.hidden, view)
  IN /\ page' = [page EXCEPT !.pending = None, !.view = view,
                             !.key = IF view = None THEN None ELSE [a.key EXCEPT !.hidden = kept]]
     /\ stored' = IF kept = a.key.hidden THEN stored ELSE [stored EXCEPT ![a.key.user] = kept]
     /\ asks' = asks \ {a}

Receive(a) ==
  /\ a.at \in {"answered", "not found", "failed"}
  /\ \/ /\ a.at = "not found" /\ ~a.solo
        /\ asks' = (asks \ {a}) \cup {[a EXCEPT !.at = "read", !.solo = TRUE]}
        /\ UNCHANGED <<stored, page>>
     \/ (a.at = "not found" => a.solo) /\ Publish(a)
  /\ UNCHANGED <<trail, active, live>>

Next ==
  \/ \E m \in Users : SignIn(m) \/ \E e \in All : HideElsewhere(m, e)
  \/ \E m \in Members : Confirm(m)
  \/ \E m \in Leaving : Leave(m)
  \/ SignOut \/ ChangeRoom \/ ShowHidden \/ NextWeek
  \/ \E e \in All : Hide(e) \/ Run(e)
  \/ \E m \in Members, e \in All : \E how \in {"here", "else"} : OthersRun(m, e, how)
  \/ \E a \in asks : Audience(a) \/ Read(a) \/ Fail(a) \/ Receive(a)

Spec == Init /\ [][Next]_vars

-----------------------------------------------------------------------------
(* Types.                                                                    *)
Lists == {s \in BoundedSeq(All, MaxHidden) : IsInjective(s)}
Keys == [user : Users, room : BOOLEAN, hidden : Lists]
Views == [pair : BOOLEAN, picks : BoundedSeq(All, MaxPicks), target : 0..2, hiddenCount : 0..Cardinality(All),
          byMe : SUBSET All, byPartner : SUBSET All]

TypeOK ==
  /\ trail \in BoundedSeq([who : Members, what : All, how : {"here", "else", "receipt"}], MaxTrail)
  /\ active \subseteq Members /\ live \in BOOLEAN /\ stored \in [Users -> Lists]
  /\ page.user \in Users \cup {None} /\ page.room \in BOOLEAN /\ page.crossed \in BOOLEAN
  /\ page.pending \in Keys \cup {None} /\ page.key \in Keys \cup {None} /\ page.view \in Views \cup {None}
  /\ \A a \in asks : a.key \in Keys /\ a.answer \in Views \cup {None} /\ a.partners \subseteq Members

(* What a settled page shows was chosen for its user, its room and the hide  *)
(* list it asked with; a request that may still publish is the pending one.  *)
(* (Excepted: an unforced refresh that found the shown view leaves another   *)
(* request in flight, whose answer it will show: load and refresh.)         *)
PageFollowsTheRoom ==
  ~page.crossed =>
    /\ \A a \in asks : page.pending = a.key
    /\ page.pending = None /\ page.view # None =>
         /\ page.key.user = page.user /\ page.key.room = page.room
         /\ page.view.pair => page.room
         /\ ToSet(page.view.picks) \cap (ToSet(page.key.hidden) \cup page.view.byMe \cup page.view.byPartner) = {}

(* The answer does not depend on when a partner attempted something outside  *)
(* the room: that stays private (selectExerciseSuggestions).                 *)
OutsideFirst(t, m) ==
  LET Outside(a) == a.who # m /\ a.how = "else"
      Known(a) == ~Outside(a)
  IN SelectSeq(t, Outside) \o SelectSeq(t, Known)

OutsideTimesArePrivate ==
  \A m \in Members : Answer(trail, m, Partners(m), {}) = Answer(OutsideFirst(trail, m), m, Partners(m), {})

(* Partners who practise only in their room climb one ladder: they are       *)
(* suggested the same exercises.                                             *)
PartnersShareTheLadder ==
  active = Members /\ (\A i \in DOMAIN trail : trail[i].how # "else") =>
    \A m, n \in Members : Selection(trail, m, Partners(m), {}) = Selection(trail, n, Partners(n), {})

(* An answer that tells of partners was made while the viewer had the room   *)
(* and of those who were members then (readExerciseSuggestions).             *)
PartnersAreMembers ==
  \A b \in asks' \ asks : b.at = "answered" /\ b.answer.pair =>
    /\ live /\ b.key.user \in active
    /\ b.answer.byPartner \subseteq UNION {History(trail, p) : p \in active \ {b.key.user}}

(* A hidden exercise stays hidden until its member asks for the hidden ones, *)
(* attempts it, or hides others up to the cap. (Excepted: what another tab   *)
(* hid after the request of an answer that prunes the list.)                 *)
HidesAreKept ==
  \A m \in Users : \A e \in ToSet(stored[m]) \ ToSet(stored'[m]) :
    \/ e \in History(trail, m)
    \/ Len(stored[m]) = MaxHidden /\ Len(stored'[m]) = MaxHidden
    \/ stored'[m] = <<>> /\ page.user = m /\ page.view # None /\ page.view.hiddenCount > 0
    \/ \E a \in asks : a.at = "answered" /\ a.key.user = m /\ e \notin ToSet(a.key.hidden)
=============================================================================
