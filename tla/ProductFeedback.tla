-------------------------- MODULE ProductFeedback --------------------------
(* Product feedback: a member posts an item with a key of its own, retries  *)
(* are answered from the stored item, fixed windows of an hour and a day    *)
(* limit each member and each address, every application administrator of   *)
(* the moment gets a letter, closed items are deleted a year later in three *)
(* statements, and members page through their own items. (api/_feedback*.js,*)
(* api/_feedback-api.js.) Nothing of the repository closes an item or votes.*)
EXTENDS Integers, FiniteSetsExt, SequencesExt

CONSTANTS
  Users, Addresses, Circles, Texts, \* who posts, from where, into what, what
  Keys,        \* idempotency keys that a member's client makes up
  Slots,       \* posts in flight
  Admins,      \* the accounts that may administer the application
  Hour, Day,   \* lengths of the two windows
  PerHour, PerDay, \* submissions in each
  Year,        \* closed items are kept for this long
  Batch,       \* items deleted at once
  MaxBatches,  \* batches of one sweep
  PageSize,    \* items on a page
  Already,     \* the items in store at the beginning
  Readers,     \* the members who list their items
  Closing,     \* whether items are closed, and swept
  Ids,         \* bound: items ever stored, in the order of their random ids
  Horizon,     \* bound: the last instant
  None

VARIABLES
  now,     \* seconds of the database
  items,   \* stored items
  events,  \* the items of the audit rows
  letters, \* the outbox: one row for an item and an administrator
  spent,   \* attempts in each window of each member and address
  posts,   \* what happens in each slot
  admins,  \* who administers now
  muted,   \* accounts that switched notifications off
  locked,  \* accounts whose deletion is pending
  sweep,   \* the weekly retention
  reader   \* a member's walk through the pages of its items

vars == <<now, items, events, letters, spent, posts, admins, muted, locked, sweep, reader>>

(* The dimensions, in the order they are charged.                           *)
Dimensions == <<"user-hour", "user-day", "ip-hour", "ip-day">>
Length(d) == IF d \in {1, 3} THEN Hour ELSE Day
Allowed(d) == IF d \in {1, 3} THEN PerHour ELSE PerDay
Payer(post, d) == IF d \in {1, 2} THEN post.who ELSE post.ip
Bucket(d, t) == t \div Length(d)

Windows == {<<d, payer, b>> \in (1..4) \X (Users \cup Addresses) \X (0..Horizon) : payer \in Users <=> d \in {1, 2}}

(* Assumed of every instance.                                               *)
FeedbackConstants ==
  /\ {Hour, Day, PerHour, PerDay, Batch, MaxBatches, PageSize} \subseteq Nat \ {0} /\ Year \in Nat
  /\ Readers \subseteq Users /\ Closing \in BOOLEAN
  /\ \A i \in Already : i.id \in Ids /\ i.created = 0 /\ i.closed = None
  /\ Ids \subseteq Nat /\ Horizon \in Nat /\ Users \cap Addresses = {} /\ None \notin Users

(* took, clear: whether there was a moment since it was queued when the      *)
(* recipient administered and took mail, and then or later one when no       *)
(* deletion of it was pending.                                              *)
Queued == [status |-> "queued", fate |-> "unsent", took |-> FALSE, clear |-> FALSE]

Idle == [at |-> "idle"]
NoSweep == [at |-> "idle", cutoff |-> 0, batches |-> 0]
NoWalk == [who |-> None, circle |-> None, cursor |-> None, seen |-> <<>>, owed |-> {}, done |-> FALSE]

Init ==
  /\ now = 0 /\ items = Already /\ events = {i.id : i \in Already} /\ letters = [l \in {} |-> Queued]
  /\ spent = [w \in Windows |-> 0] /\ posts = [s \in Slots |-> Idle]
  /\ admins \in SUBSET Admins /\ muted = {} /\ locked = {} /\ sweep = NoSweep /\ reader = NoWalk

-----------------------------------------------------------------------------
(* A post: a look for the key, the four limits, one transaction.            *)
Stored(post) == {i \in items : i.who = post.who /\ i.key = post.key}
Same(i, post) == i.circle = post.circle /\ i.text = post.text

Moved(s, fields) == posts' = [posts EXCEPT ![s] = fields @@ @]
Answered(s, answer) == Moved(s, [at |-> "answered", answer |-> answer])

Replay(s) == \E i \in Stored(posts[s]) : Answered(s, IF Same(i, posts[s]) THEN "replayed" ELSE "conflict")

Post(s, who, ip, key, circle, text) ==
  /\ posts[s] = Idle
  /\ LET post == [at |-> "lookup", who |-> who, ip |-> ip, key |-> key, circle |-> circle, text |-> text]
     IN posts' = [posts EXCEPT ![s] = post @@ [known |-> Stored(post) # {}, dim |-> 1, since |-> now, answer |-> None]]
  /\ UNCHANGED <<now, items, events, letters, spent, admins, muted, locked, sweep, reader>>

Lookup(s) ==
  /\ posts[s].at = "lookup"
  /\ IF Stored(posts[s]) # {} THEN Replay(s) ELSE Moved(s, [at |-> "limits", since |-> now])
  /\ UNCHANGED <<now, items, events, letters, spent, admins, muted, locked, sweep, reader>>

(* The first exhausted dimension ends the charging; those before it stay    *)
(* charged. (Attempts beyond the first too many are not told apart.)        *)
Charge(s) ==
  /\ posts[s].at = "limits"
  /\ LET post == posts[s]
         d == post.dim
         w == <<d, Payer(post, d), Bucket(d, post.since)>>
     IN /\ spent' = [spent EXCEPT ![w] = Min({@ + 1, Allowed(d) + 1})]
        /\ IF spent[w] >= Allowed(d) THEN Answered(s, "limited")
           ELSE Moved(s, IF d = 4 THEN [at |-> "select"] ELSE [dim |-> d + 1])
  /\ UNCHANGED <<now, items, events, letters, admins, muted, locked, sweep, reader>>

Select(s) ==
  /\ posts[s].at = "select"
  /\ IF Stored(posts[s]) # {} THEN Replay(s) ELSE Moved(s, [at |-> "insert"])
  /\ UNCHANGED <<now, items, events, letters, spent, admins, muted, locked, sweep, reader>>

(* A random id is none that anything names.                                 *)
Unused == Ids \ ({i.id : i \in items} \cup {l[1] : l \in DOMAIN letters} \cup reader.owed \cup ToSet(reader.seen))

Witnessed(L, admin, mute, lock) ==
  [l \in DOMAIN L |->
     LET took == L[l].took \/ (l[2] \in admin /\ l[2] \notin mute)
     IN [L[l] EXCEPT !.took = took, !.clear = @ \/ (took /\ l[2] \notin lock)]]

(* The unique index refuses the second of two posts that both found no row: *)
(* it reads the winner's. The answer to a committed post may be lost.       *)
Insert(s) ==
  /\ posts[s].at = "insert"
  /\ \/ /\ Stored(posts[s]) # {} /\ Replay(s) /\ UNCHANGED <<items, events, letters>>
     \/ /\ Stored(posts[s]) = {}
        /\ \E id \in Unused :
             /\ items' = items \cup {[id |-> id, who |-> posts[s].who, key |-> posts[s].key, circle |-> posts[s].circle,
                                      text |-> posts[s].text, created |-> now, paid |-> posts[s].since,
                                      ip |-> posts[s].ip, closed |-> None]}
             /\ events' = events \cup {id}
             /\ letters' = Witnessed([l \in {id} \X admins |-> Queued] @@ letters, admins, muted, locked)
        /\ \E answer \in {"stored", "unavailable"} : Answered(s, answer)
  /\ UNCHANGED <<now, spent, admins, muted, locked, sweep, reader>>

Fail(s) ==
  /\ posts[s].at \in {"lookup", "limits", "select", "insert"}
  /\ Answered(s, "unavailable")
  /\ UNCHANGED <<now, items, events, letters, spent, admins, muted, locked, sweep, reader>>

Finish(s) ==
  /\ posts[s].at = "answered" /\ posts' = [posts EXCEPT ![s] = Idle]
  /\ UNCHANGED <<now, items, events, letters, spent, admins, muted, locked, sweep, reader>>

-----------------------------------------------------------------------------
(* A letter. The handler reads the item, the recipient and its preference,  *)
(* in a later statement whether its deletion is pending, and then asks the  *)
(* provider; the outbox asks again after a failure that is not final.       *)
Lettered(l, status, fate) ==
  /\ letters' = [letters EXCEPT ![l].status = status, ![l].fate = fate]
  /\ UNCHANGED <<now, items, events, spent, posts, admins, muted, locked, sweep, reader>>

Ending(l, status) == Lettered(l, status, letters[l].fate)

Consider(l) ==
  /\ letters[l].status = "queued"
  /\ Ending(l, IF l[1] \in {i.id : i \in items} /\ l[2] \in admins /\ l[2] \notin muted THEN "read" ELSE "suppressed")

Look(l) ==
  /\ letters[l].status = "read"
  /\ Ending(l, IF l[2] \in locked THEN "suppressed" ELSE "sending")

(* Refused with a status of 4xx (429 excepted) the letter is dead; refused   *)
(* otherwise it is asked for again, while attempts are left; so it is when   *)
(* no answer came in time, and then the provider may still accept it.        *)
(* (Its key keeps a letter that was accepted from being sent again.)        *)
Unanswered(l) == IF letters[l].fate = "reached" THEN "reached" ELSE "open"

Send(l) ==
  /\ letters[l].status = "sending"
  /\ \/ Lettered(l, "delivered", "reached")
     \/ Ending(l, "dead")
     \/ Ending(l, "queued")
     \/ \E status \in {"queued", "dead"} : Lettered(l, status, Unanswered(l))

(* The time of the attempt runs out, or its worker dies, before the call.    *)
Lapse(l) ==
  /\ letters[l].status = "read"
  /\ \E status \in {"queued", "dead"} : Ending(l, status)

(* The provider accepts what it was sent, after nobody waits for the answer. *)
Arrive(l) ==
  /\ letters[l].fate = "open"
  /\ Lettered(l, letters[l].status, "reached")

(* An administrator is appointed or dismissed; an account switches its mail  *)
(* off or on, asks for its deletion or cancels it.                          *)
Toggled(S, a) == IF a \in S THEN S \ {a} ELSE S \cup {a}

Appoint(a) == /\ admins' = Toggled(admins, a) /\ letters' = Witnessed(letters, admins', muted, locked)
              /\ UNCHANGED <<now, items, events, spent, posts, muted, locked, sweep, reader>>

Mute(a) == /\ muted' = Toggled(muted, a) /\ letters' = Witnessed(letters, admins, muted', locked)
           /\ UNCHANGED <<now, items, events, spent, posts, admins, locked, sweep, reader>>

Lock(a) == /\ locked' = Toggled(locked, a) /\ letters' = Witnessed(letters, admins, muted, locked')
           /\ UNCHANGED <<now, items, events, spent, posts, admins, muted, sweep, reader>>

-----------------------------------------------------------------------------
(* Retention: in each batch the audit rows of the oldest items that were    *)
(* closed by the cutoff, then the items.                                    *)
Close(i) ==
  /\ i.closed = None /\ items' = (items \ {i}) \cup {[i EXCEPT !.closed = now]}
  /\ UNCHANGED <<now, events, letters, spent, posts, admins, muted, locked, sweep, reader>>

Due(cutoff) == {i \in items : i.closed # None /\ i.closed <= cutoff}
Older(i, j) == i.closed < j.closed \/ (i.closed = j.closed /\ i.id < j.id)
Selected(cutoff) == {i \in Due(cutoff) : Cardinality({j \in Due(cutoff) : Older(j, i)}) < Batch}

StartSweep ==
  /\ sweep.at = "idle"
  /\ sweep' = [at |-> "events", cutoff |-> now - Year, batches |-> 0]
  /\ UNCHANGED <<now, items, events, letters, spent, posts, admins, muted, locked, reader>>

SweepEvents ==
  /\ sweep.at = "events"
  /\ events' = events \ {i.id : i \in Selected(sweep.cutoff)}
  /\ sweep' = [sweep EXCEPT !.at = "items"]
  /\ UNCHANGED <<now, items, letters, spent, posts, admins, muted, locked, reader>>

SweepItems ==
  /\ sweep.at = "items"
  /\ LET chosen == Selected(sweep.cutoff)
         more == Cardinality(chosen) = Batch /\ sweep.batches + 1 < MaxBatches
     IN /\ items' = items \ chosen
        /\ sweep' = IF more THEN [sweep EXCEPT !.at = "events", !.batches = @ + 1] ELSE NoSweep
  /\ UNCHANGED <<now, events, letters, spent, posts, admins, muted, locked, reader>>

SweepFails == /\ sweep.at # "idle" /\ sweep' = NoSweep
              /\ UNCHANGED <<now, items, events, letters, spent, posts, admins, muted, locked, reader>>

-----------------------------------------------------------------------------
(* A member walks through its items of the circle, newest first. The cursor *)
(* is the last item of the page before.                                     *)
Mine(who, circle) == {i \in items : i.who = who /\ i.circle = circle}
Newer(i, j) == i.created > j.created \/ (i.created = j.created /\ i.id > j.id)
Below(S, cursor) == IF cursor = None THEN S ELSE {i \in S : Newer(cursor, i)}

StartWalk(who, circle) ==
  /\ reader = NoWalk
  /\ reader' = [NoWalk EXCEPT !.who = who, !.circle = circle, !.owed = {i.id : i \in Mine(who, circle)}]
  /\ UNCHANGED <<now, items, events, letters, spent, posts, admins, muted, locked, sweep>>

ReadPage ==
  /\ reader # NoWalk /\ ~reader.done
  /\ LET rest == Below(Mine(reader.who, reader.circle), reader.cursor)
         page == {i \in rest : Cardinality({j \in rest : Newer(j, i)}) < PageSize}
         last == CHOOSE i \in page : \A j \in page : i = j \/ Newer(j, i)
         more == page # rest
     IN reader' = [reader EXCEPT !.seen = @ \o SetToSortSeq({i.id : i \in page}, <), !.done = ~more,
                                 !.cursor = IF more THEN [created |-> last.created, id |-> last.id] ELSE None]
  /\ UNCHANGED <<now, items, events, letters, spent, posts, admins, muted, locked, sweep>>

CloseList == /\ reader.done /\ reader' = NoWalk
             /\ UNCHANGED <<now, items, events, letters, spent, posts, admins, muted, locked, sweep>>

Tick == /\ now < Horizon /\ now' = now + 1
        /\ UNCHANGED <<items, events, letters, spent, posts, admins, muted, locked, sweep, reader>>

Next ==
  \/ \E s \in Slots :
       \/ \E who \in Users, ip \in Addresses, key \in Keys, circle \in Circles, text \in Texts :
            Post(s, who, ip, key, circle, text)
       \/ Lookup(s) \/ Charge(s) \/ Select(s) \/ Insert(s) \/ Fail(s) \/ Finish(s)
  \/ \E l \in DOMAIN letters : Consider(l) \/ Look(l) \/ Send(l) \/ Lapse(l) \/ Arrive(l)
  \/ \E a \in Admins : Appoint(a) \/ Mute(a) \/ Lock(a)
  \/ Closing /\ (StartSweep \/ \E i \in items : Close(i))
  \/ SweepEvents \/ SweepItems \/ SweepFails
  \/ \E who \in Readers, circle \in Circles : StartWalk(who, circle)
  \/ ReadPage \/ CloseList \/ Tick

Spec == Init /\ [][Next]_vars

-----------------------------------------------------------------------------
(* Types.                                                                    *)
TypeOK ==
  /\ now \in 0..Horizon /\ events \subseteq Ids /\ admins \cup muted \cup locked \subseteq Admins
  /\ \A i \in items : i.id \in Ids /\ i.who \in Users /\ i.key \in Keys \cup {j.key : j \in Already} /\ i.circle \in Circles /\ i.text \in Texts
  /\ DOMAIN letters \subseteq Ids \X Admins 
  /\ \A l \in DOMAIN letters : letters[l] \in [status : {"queued", "read", "sending", "delivered", "suppressed", "dead"},
                                              fate : {"unsent", "open", "reached"}, took : BOOLEAN, clear : BOOLEAN]
  /\ spent \in [Windows -> 0..(PerDay + PerHour + 1)]
  /\ \A s \in Slots : posts[s].at \in {"idle", "lookup", "limits", "select", "insert", "answered"}
  /\ sweep.at \in {"idle", "events", "items"} /\ reader.owed \subseteq Ids

(* A key stores one item; what a post is told of its item is so, as long as  *)
(* retention leaves the item; no post that retries a stored one is limited   *)
(* (submitFeedback, lookupFeedbackReplay before the limiter).                *)
AnswersAreTrue ==
  /\ \A i \in items : \A j \in items : i.who = j.who /\ i.key = j.key => i = j
  /\ \A s \in Slots : posts[s].at = "answered" =>
       /\ posts[s].answer \in {"stored", "replayed"} => \A i \in Stored(posts[s]) : Same(i, posts[s])
       /\ posts[s].answer = "conflict" => \A i \in Stored(posts[s]) : ~Same(i, posts[s])
       /\ posts[s].known /\ Stored(posts[s]) # {} => posts[s].answer # "limited"

(* However posts interleave, the items that a window paid for are within its *)
(* limit, of the member and of the address.                                  *)
ItemsArePaid ==
  \A w \in Windows :
    Cardinality({i \in items : Payer(i, w[1]) = w[2] /\ Bucket(w[1], i.paid) = w[3]}) <= Allowed(w[1])

(* Retention, interrupted or not, keeps every item that is open or recent,   *)
(* with its audit row, and no audit row outlives its item.                   *)
RetentionIsExact ==
  /\ events \subseteq {i.id : i \in items}
  /\ \A i \in items : (i.closed = None \/ i.closed > now - Year) => i.id \in events

(* A walk through the pages misses no item that was there from its beginning *)
(* to its end, and shows none twice, whatever is posted or deleted meanwhile.*)
PagesAreComplete ==
  /\ IsInjective(reader.seen)
  /\ reader.done => reader.owed \cap {i.id : i \in items} \subseteq ToSet(reader.seen)

(* Open items are not deleted; a letter reaches nobody who, ever since it was *)
(* queued, was no administrator, had switched mail off or was about to be     *)
(* deleted, however often it was tried and however late it was accepted (it   *)
(* may reach somebody who is one of these by then); what is recorded as       *)
(* delivered has reached, and stays so.                                      *)
LettersAreLicensed ==
  /\ \A i \in items : i.closed = None => \E j \in items' : j.id = i.id
  /\ \A l \in DOMAIN letters :
       /\ letters'[l].fate = "reached" => letters'[l].took /\ letters'[l].clear
       /\ letters[l].status = "delivered" => letters'[l] = letters[l] /\ letters[l].fate = "reached"
=============================================================================
