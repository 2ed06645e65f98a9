----------------------------- MODULE Scheduling -----------------------------
(* One pair agrees on a time, and the letters that tell it.  A page holds    *)
(* what it last read and mutates against that version; the letters are       *)
(* queued in the transaction of the change and delivered later, by handlers  *)
(* that read the schedule again before they send.  Nothing keeps handlers of *)
(* several invocations apart, so letters of one member may be under way at   *)
(* once, and the provider may take one late that was checked first.  There   *)
(* are two implementations: of the primary circle (a JSON column, versions   *)
(* from a timestamp that only grows) and of secondary ones (tables and a     *)
(* revision).  Identities of proposals are left out: a mutation that acts on *)
(* one carries the version that listed it.                                   *)
EXTENDS Integers, SequencesExt

CONSTANTS
  Users,        \* the pair
  Acting,       \* whose pages are modelled
  Watched,      \* whose letters are kept; those to the others are alike
  Losing,       \* who may miss the answer to a mutation
  Leaving,      \* whose membership may end, and who may refuse mail
  Listed,       \* entries of a schedule that exists from the start
  Instants,     \* times that can be proposed, positive
  Lead,         \* how long before the session a reminder is due (24 hours)
  MaxProposals, \* MAX_SCHEDULE_PROPOSALS
  Secondary,    \* whether the pair is one of a secondary circle
  Ends,         \* the end of the cycle of a secondary pair
  Nobody,       \* the proposer of a legacy entry
  MaxNow, MaxVersion, MaxUnknown  \* bounds of the model

(* readScheduleState: an entry of the JSON column may be of before proposers *)
(* were kept.                                                                *)
Entries == [instant : Instants, by : IF Secondary THEN Users ELSE Users \cup {Nobody}]

(* Assumed of every instance. *)
SchedulingConstants ==
  /\ IsFiniteSet(Users)
  /\ Acting \cup Watched \cup Losing \cup Leaving \subseteq Users /\ Nobody \notin Users
  /\ Instants \subseteq Nat \ {0} /\ {Lead, MaxProposals, Ends, MaxNow, MaxUnknown} \subseteq Nat
  /\ MaxVersion \in Nat \ {0}
  /\ Secondary \in BOOLEAN
  /\ Listed \subseteq Entries

VARIABLES
  now,
  proposals,  \* entries [instant, by]
  agreed,     \* an instant, or NoTime
  version,    \* scheduleVersion; 0 before the row exists
  view,       \* what the page of each user shows
  away,       \* users whose membership has ended
  silent,     \* users who take no mail: switched off, or deletion pending
  mail,       \* the letters, in the order of their outbox ids
  told        \* of each watched user, the letter about the session that was
              \* the last to pass its check against the schedule; 0 for none

vars == <<now, proposals, agreed, version, view, away, silent, mail, told>>

NoTime == 0
Current == [version |-> version, proposals |-> proposals, agreed |-> agreed]

Init ==
  /\ now = 0 /\ agreed = NoTime /\ away = {} /\ silent = {} /\ mail = <<>>
  /\ told = [u \in Watched |-> 0]
  /\ \/ proposals = {} /\ version = 0
     \/ proposals = Listed /\ version = 1
  /\ view = [u \in Acting |-> Current]

(* Pair access: of the caller, and of a secondary pair both, while it lasts. *)
PairAccess(u) == IF Secondary THEN away = {} /\ now < Ends ELSE u \notin away

(* ------------------------------- Letters -------------------------------- *)

Letter(kind, to, by, instant, revision, due) ==
  [kind |-> kind, to |-> to, by |-> by, instant |-> instant,
   revision |-> revision, due |-> due, status |-> "queued", fate |-> "unsent"]

(* One letter to each watched member of S, of the revision that comes next.  *)
ToEach(S, kind, by, instant, due) ==
  SetToSeq({Letter(kind, p, by, instant, version + 1, due) : p \in S \cap Watched})

Due(i) == IF i > Lead THEN i - Lead ELSE 0

News(u, before, after) == ToEach(Users, IF before = NoTime THEN "accepted" ELSE "changed", u, after, now)
Reminder(u, after)     == ToEach(Users, "reminder", u, after, Due(after))

(* scheduleNotificationEvents: before and after are agreed times.            *)
PrimaryLetters(kind, u, instant, before, after) ==
  IF kind = "propose" THEN ToEach(Users \ {u}, "proposal", u, instant, now)
  ELSE IF kind = "accept" /\ after # before THEN News(u, before, after) \o Reminder(u, after)
  ELSE IF kind = "clear" /\ before # NoTime THEN News(u, before, after)
  ELSE <<>>

(* secondaryScheduleNotificationEvents: whatever keeps an agreed time queues *)
(* its reminder again under the new revision.                                *)
SecondaryLetters(kind, u, instant, before, after) ==
  LET renewed == IF after = NoTime THEN <<>> ELSE Reminder(u, after)
  IN IF kind = "propose" THEN ToEach(Users \ {u}, "proposal", u, instant, now) \o renewed
     ELSE IF kind = "remove" THEN ToEach(Users \ {u}, "removed", u, NoTime, now) \o renewed
     ELSE IF kind = "accept" /\ after # before THEN News(u, before, after) \o renewed
     ELSE IF kind = "clear" /\ before # NoTime THEN ToEach(Users, "cleared", u, NoTime, now)
     ELSE <<>>

(* ------------------------------- Mutations ------------------------------- *)

(* mutationChangesState: a secondary mutation that changes nothing keeps the *)
(* revision.                                                                 *)
Changes(listed, time) == ~Secondary \/ listed # proposals \/ time # agreed

(* nextScheduleUpdatedAt: later than the last update, whatever the clock.    *)
NextVersion == version + 1

(* The transaction of u turned proposals and agreed into listed and time.    *)
(* The answer may be lost, and then the page shows what it did.              *)
Write(u, kind, instant, listed, time) ==
  /\ version < MaxVersion
  /\ proposals' = listed /\ agreed' = time
  /\ version' = IF Changes(listed, time) THEN NextVersion ELSE version
  /\ mail' = mail \o IF Secondary THEN SecondaryLetters(kind, u, instant, agreed, time)
                                  ELSE PrimaryLetters(kind, u, instant, agreed, time)
  /\ \/ view' = [view EXCEPT ![u] = Current']
     \/ u \in Losing /\ UNCHANGED view
  /\ UNCHANGED <<now, away, silent, told>>

(* Mutant of Based: the base version is not compared.                        *)
BasedOnAnything(u) == PairAccess(u)

(* The guard all mutations share: access, and the base version.              *)
Based(u) == PairAccess(u) /\ view[u].version = version

Future(i) == i > now

Propose(u) == \E i \in Instants :
  /\ Based(u) /\ Future(i)
  /\ Cardinality(proposals) < MaxProposals
  /\ \A p \in proposals : p.instant # i
  /\ Write(u, "propose", i, proposals \cup {[instant |-> i, by |-> u]}, agreed)

Withdraw(u) == \E p \in view[u].proposals :
  /\ Based(u) /\ p \in proposals
  /\ Write(u, "remove", p.instant, proposals \ {p}, agreed)

(* A legacy entry cannot be accepted, one's own can.                         *)
Accept(u) == \E p \in view[u].proposals :
  /\ Based(u) /\ p \in proposals /\ p.by # Nobody /\ Future(p.instant)
  /\ Write(u, "accept", p.instant, proposals, p.instant)

Clear(u) ==
  /\ Based(u)
  /\ Write(u, "clear", NoTime, proposals, NoTime)

(* GET, and the answer of a refused mutation, which is the same projection.  *)
Look(u) ==
  /\ PairAccess(u) /\ view[u] # Current
  /\ view' = [view EXCEPT ![u] = Current]
  /\ UNCHANGED <<now, proposals, agreed, version, away, silent, mail, told>>

(* ------------------------------- Delivery -------------------------------- *)

Outcomes == {"accepted", "changed", "cleared"}

(* Letters that say when the session is, or that it is off.                  *)
Tells(e) == mail[e].kind \in Outcomes \cup {"reminder"}

(* supersededEvent: a later letter of the same recipient makes e obsolete.   *)
Superseded(e) == \E f \in DOMAIN mail :
  /\ f > e /\ mail[f].to = mail[e].to
  /\ mail[e].kind = "proposal" =>
       /\ mail[f].instant = mail[e].instant
       /\ \/ mail[f].kind = "proposal" /\ mail[f].by = mail[e].by
          \/ mail[f].kind \in Outcomes
  /\ mail[e].kind = "reminder" => mail[f].kind = "reminder"
  /\ mail[e].kind \notin {"proposal", "reminder"} => mail[f].kind \in Outcomes

(* currentEvent: what the letter says is still so.                           *)
StillSo(e) ==
  IF mail[e].kind = "proposal"
  THEN [instant |-> mail[e].instant, by |-> mail[e].by] \in proposals
  ELSE agreed = mail[e].instant

Reached(p) == away = {} /\ p \notin silent
Elapsed(e) == mail[e].instant # NoTime /\ now >= mail[e].instant

(* createScheduleEmailHandler, up to its call of the provider.               *)
PrimaryGoes(e) == Reached(mail[e].to) /\ StillSo(e) /\ ~Superseded(e) /\ ~Elapsed(e)

(* resolveDelivery: the revision of the letter is that of the schedule, so   *)
(* what it says is still so.                                                 *)
SecondaryGoes(e) ==
  /\ mail[e].revision = version /\ now < Ends
  /\ Reached(mail[e].to) /\ ~Elapsed(e)

Goes(e) == IF Secondary THEN SecondaryGoes(e) ELSE PrimaryGoes(e)

(* An invocation has claimed e, and its handler reads the schedule.          *)
Check(e) ==
  /\ mail[e].status = "queued" /\ now >= mail[e].due
  /\ mail' = [mail EXCEPT ![e].status = IF Goes(e) THEN "sending" ELSE "suppressed"]
  /\ told' = IF Goes(e) /\ Tells(e) THEN [told EXCEPT ![mail[e].to] = e] ELSE told
  /\ UNCHANGED <<now, proposals, agreed, version, view, away, silent>>

(* Letters the provider may have taken, or has, and nobody knows.            *)
Open == {f \in DOMAIN mail : mail[f].fate # "unsent" /\ mail[f].status # "sent"}

(* The provider took e, or did not, or nobody knows: the call timed out, or  *)
(* the lease lapsed while it was under way.  A letter that ran out of        *)
(* attempts is one that stays queued.                                        *)
Send(e) == \E end \in {"sent", "refused", "unknown"} :
  /\ mail[e].status = "sending"
  /\ end = "unknown" => Cardinality(Open \cup {e}) <= MaxUnknown
  /\ mail' = [mail EXCEPT
       ![e].status = IF end = "sent" THEN "sent" ELSE "queued",
       ![e].fate = CASE end = "sent" -> "reached"
                     [] end = "unknown" /\ @ = "unsent" -> "open"
                     [] OTHER -> @]
  /\ UNCHANGED <<now, proposals, agreed, version, view, away, silent, told>>

(* The provider takes a letter that it was asked for some time ago.          *)
Arrive(e) ==
  /\ mail[e].fate = "open" /\ mail' = [mail EXCEPT ![e].fate = "reached"]
  /\ UNCHANGED <<now, proposals, agreed, version, view, away, silent, told>>

(* ----------------------------- Surroundings ------------------------------ *)

Tick ==
  /\ now < MaxNow /\ now' = now + 1
  /\ UNCHANGED <<proposals, agreed, version, view, away, silent, mail, told>>

Leave(u) ==
  /\ u \notin away /\ away' = away \cup {u}
  /\ UNCHANGED <<now, proposals, agreed, version, view, silent, mail, told>>

Mute(u) ==
  /\ u \notin silent /\ silent' = silent \cup {u}
  /\ UNCHANGED <<now, proposals, agreed, version, view, away, mail, told>>

Next ==
  \/ \E u \in Acting : Propose(u) \/ Withdraw(u) \/ Accept(u) \/ Clear(u) \/ Look(u)
  \/ \E u \in Leaving : Leave(u) \/ Mute(u)
  \/ \E e \in DOMAIN mail : Check(e) \/ Send(e) \/ Arrive(e)
  \/ Tick

Spec == Init /\ [][Next]_vars

(* ------------------------------ Properties ------------------------------- *)

LetterType == [kind : Outcomes \cup {"proposal", "removed", "reminder"}, to : Watched, by : Users,
               instant : Instants \cup {NoTime}, revision : Nat, due : Nat,
               status : {"queued", "sending", "sent", "suppressed"},
               fate : {"unsent", "open", "reached"}]

TypeOK ==
  /\ now \in 0..MaxNow /\ version \in 0..MaxVersion /\ agreed \in Instants \cup {NoTime}
  /\ proposals \subseteq [instant : Instants, by : Users \cup {Nobody}]
  /\ DOMAIN view = Acting
  /\ away \subseteq Users /\ silent \subseteq Users
  /\ mail \in Seq(LetterType) /\ told \in [Watched -> 0..Len(mail)]

(* A schedule changes only by somebody whose page showed all of it as it     *)
(* was: the same version never stands for two schedules.  docs/SCHEDULE_     *)
(* NOTIFICATIONS.md:21, the optimistic base_version contract.                *)
ActsOnWhatIsShown ==
  (<<proposals, agreed>>' # <<proposals, agreed>>) => \E u \in Acting : view[u] = Current

(* A time that is newly agreed is in the future and was somebody's proposal. *)
(* api/_schedule.js:85, docs/SCHEDULE_EXPIRY.md.                             *)
AgreesOnTheFuture ==
  agreed' \notin {agreed, NoTime} =>
    agreed' > now /\ \E p \in proposals : p.instant = agreed' /\ p.by \in Users

(* A letter about the session is on its way to p, or will be.                *)
Coming(p) == \E e \in DOMAIN mail :
  mail[e].to = p /\ Tells(e) /\ (mail[e].status = "sending" \/ (mail[e].status = "queued" /\ Goes(e)))

(* When no letter is left to come, the last one that was checked for a       *)
(* member who can be reached did reach it, and names the time that is        *)
(* agreed, or in the primary circle that none is: proposals, retries and     *)
(* letters that were overtaken do not hide it.                               *)
(* docs/SECONDARY_SCHEDULE_NOTIFICATIONS.md:38, docs/SCHEDULE_               *)
(* NOTIFICATIONS.md:60.  A letter checked before it may still arrive after   *)
(* it.  Of a secondary pair nothing is said when the time was cleared: a     *)
(* later proposal retires the letter that tells it.                          *)
LastLetterIsTrue ==
  \A p \in Watched :
    /\ Reached(p) /\ ~Coming(p) /\ agreed \notin 1..now
    /\ Secondary => agreed # NoTime /\ now < Ends
    => IF told[p] = 0 THEN agreed = NoTime
       ELSE mail[told[p]].fate = "reached" /\ mail[told[p]].instant = agreed
=============================================================================
