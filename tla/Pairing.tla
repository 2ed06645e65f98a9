------------------------------- MODULE Pairing -------------------------------
(***************************************************************************)
(* Publication of the weekly pairing (api/_pairing-publication.js for the  *)
(* primary circle, api/_circle-pairing.js for the others) by the Sunday    *)
(* job (api/ops.js, handleWeekly) and by an owner who recovers an overdue  *)
(* cycle (api/_pairing-recovery.js), on top of the availability of         *)
(* members. Memberships and ownership change by the steps of Circles, of   *)
(* which this module keeps what a publication reads.                       *)
(***************************************************************************)
EXTENDS Availability, FiniteSetsExt

CONSTANTS
  Grace,        \* offset in a cycle from which an unpublished one is overdue
  JobOffsets,   \* cycle -> offsets that the job's UTC window covers
  BatchLimit,   \* SECONDARY_PAIRING_CRON_LIMIT
  Founders      \* circle -> the owner it starts with

(* What the schema and the configuration guarantee of the constants.       *)
PairingConstants ==
  /\ Primary \in Circles /\ UserOf \in [Tabs -> Users]
  /\ LastCycle \in Nat /\ Length \in Nat \ {0} /\ MaxVersion \in Nat
  /\ AccountSetting \in [Users -> BOOLEAN]
  /\ Starting \in [Circles -> SUBSET Users] /\ Founders \in [Circles -> Users]
  /\ \A c \in Circles : Founders[c] \in Starting[c]
  /\ Moving \subseteq Users \X Circles

VARIABLES
  owner,        \* circle -> active owners; none once it is archived
  publication,  \* circle -> cycle -> the stored publication, or None
  mail,         \* outbox intents <<circle, cycle, account, kind>>
  job           \* the running weekly invocation

pairingVars == <<owner, publication, mail, job>>
vars == <<availabilityVars, pairingVars>>

None == [members |-> {}, snapshot |-> [u \in {} |-> Undecided], groups |-> {}, published |-> FALSE]
Idle == [stage |-> "idle", todo |-> {}, listed |-> {}, overflow |-> FALSE, failed |-> FALSE]

Init ==
  /\ AvailabilityInit
  /\ owner  = [c \in Circles |-> {Founders[c]}]
  /\ publication = [c \in Circles |-> [w \in Cycles |-> None]]
  /\ mail = {} /\ job = Idle

-----------------------------------------------------------------------------
(* What one publication transaction writes.                                *)

Eligible(c) == {u \in member[c] : account[u] = "active"}

Decided(c, w, u) ==
  [version |-> decision[c][w][u].version, available |-> IsAvailable(c, w, u)]

(* Mutant of Participants: members who skip the cycle are paired.          *)
ParticipantsAll(c, w) == Eligible(c)
Participants(c, w) == {u \in Eligible(c) : IsAvailable(c, w, u)}

(* buildFairPairing: some division into pairs and at most one solo. Which  *)
(* one its seeded shuffles prefer is left open.                            *)
Divisions(S) ==
  {G \in SUBSET (kSubset(2, S) \cup kSubset(1, S)) :
     /\ UNION G = S /\ \A g, h \in G : g = h \/ g \cap h = {}
     /\ Cardinality({g \in G : Cardinality(g) = 1}) <= 1}

Kind(c, w, u, G) ==
  CASE ~IsAvailable(c, w, u)            -> "unavailable"
    [] c # Primary /\ {u} \in G         -> "solo"
    [] OTHER                            -> "paired"

Intents(c, w, G) == {<<c, w, u, Kind(c, w, u, G)>> : u \in Eligible(c)}

(* Mutant of Unpublished: an existing publication is not looked for.       *)
UnpublishedEver(c, w) == TRUE
Unpublished(c, w) == ~publication[c][w].published

(* A circle other than the primary needs a member; its mail is optional    *)
(* (SECONDARY_CIRCLE_PAIRING_EMAIL_ENABLED).                               *)
Publishable(c) == c = Primary \/ Eligible(c) # {}

Publish(c, w) ==
  \E G \in Divisions(Participants(c, w)), mailed \in BOOLEAN :
    /\ Publishable(c) /\ (c = Primary => mailed)
    /\ default' = Materialized(c, w)
    /\ publication' = [publication EXCEPT ![c][w] =
         [members |-> Eligible(c), snapshot |-> [u \in Eligible(c) |-> Decided(c, w, u)],
          groups |-> G, published |-> TRUE]]
    /\ mail' = IF mailed THEN mail \cup Intents(c, w, G) ELSE mail
    /\ UNCHANGED <<now, account, member, setting, decision, shown, owner>>

-----------------------------------------------------------------------------
(* POST /api/pairing/run with the key of cycle w: the owner's page may be  *)
(* older than the transaction, which checks everything again.              *)
Recover(u, c, w) ==
  /\ Admitted(u, c) /\ u \in owner[c]
  /\ w = Current /\ Offset >= Grace /\ Unpublished(c, w)
  /\ Publish(c, w) /\ UNCHANGED job

(* The weekly job: admission by the database clock, the list of circles    *)
(* with an owner, the primary circle, then the listed ones one by one.     *)
Listable == {c \in Circles \ {Primary} : owner[c] # {} /\ member[c] # {}}

StartJob ==
  /\ job.stage # "primary" /\ job.stage # "others" /\ Current \in Cycles
  /\ Offset \in JobOffsets[Current]
  /\ LET over == Cardinality(Listable) > BatchLimit
         listed == IF over THEN {} ELSE Listable IN
     job' = [stage |-> "primary", todo |-> listed, listed |-> listed,
             overflow |-> over, failed |-> FALSE]
  /\ UNCHANGED <<availabilityVars, owner, publication, mail>>

Handled(c) ==
  IF c = Primary THEN [job EXCEPT !.stage = "others"] ELSE [job EXCEPT !.todo = @ \ {c}]

Failed(c) ==
  IF c = Primary THEN Idle ELSE [job EXCEPT !.todo = @ \ {c}, !.failed = TRUE]

Turn(c) ==
  \/ job.stage = "primary" /\ c = Primary
  \/ job.stage = "others" /\ c \in job.todo

(* assertAuthority of the system: the circle still has an owner.           *)
Authorized(c) == c = Primary \/ owner[c] # {}

JobPublishes(c) ==
  /\ Turn(c) /\ Authorized(c) /\ Unpublished(c, Current)
  /\ Publish(c, Current) /\ job' = Handled(c)

JobFindsIt(c) ==
  /\ Turn(c) /\ Authorized(c) /\ ~Unpublished(c, Current)
  /\ job' = Handled(c) /\ UNCHANGED <<availabilityVars, owner, publication, mail>>

(* The transaction is refused, or fails; a failure of the commit may hide  *)
(* a publication that was stored.                                          *)
JobFails(c) ==
  /\ Turn(c) /\ job' = Failed(c)
  /\ \/ UNCHANGED <<availabilityVars, owner, publication, mail>>
     \/ Authorized(c) /\ Unpublished(c, Current) /\ Publish(c, Current)

Answer == IF job.failed \/ job.overflow THEN "503" ELSE "200"

EndJob ==
  /\ job.stage = "others" /\ job.todo = {}
  /\ job' = [job EXCEPT !.stage = Answer]
  /\ UNCHANGED <<availabilityVars, owner, publication, mail>>

KillJob ==
  /\ job.stage \in {"primary", "others"} /\ job' = Idle
  /\ UNCHANGED <<availabilityVars, owner, publication, mail>>

-----------------------------------------------------------------------------
(* Changes of the circles.                                                 *)
Join(u, c) ==
  /\ account[u] = "active" /\ owner[c] # {} /\ u \notin member[c]
  /\ member' = [member EXCEPT ![c] = @ \cup {u}]
  /\ UNCHANGED <<now, account, setting, default, decision, shown, pairingVars>>

Leave(u, c) ==
  /\ u \in member[c] /\ owner[c] # {u}
  /\ member' = [member EXCEPT ![c] = @ \ {u}] /\ owner' = [owner EXCEPT ![c] = @ \ {u}]
  /\ UNCHANGED <<now, account, setting, default, decision, shown, publication, mail, job>>

(* An owner makes another, or is made a member again.                      *)
Promote(u, c) ==
  /\ u \in member[c] \ owner[c] /\ owner[c] # {} /\ account[u] = "active"
  /\ owner' = [owner EXCEPT ![c] = @ \cup {u}]
  /\ UNCHANGED <<availabilityVars, publication, mail, job>>

Demote(u, c) ==
  /\ u \in owner[c] /\ owner[c] # {u} /\ owner' = [owner EXCEPT ![c] = @ \ {u}]
  /\ UNCHANGED <<availabilityVars, publication, mail, job>>

Archive(c) ==
  /\ c # Primary /\ owner[c] # {}
  /\ owner' = [owner EXCEPT ![c] = {}] /\ member' = [member EXCEPT ![c] = {}]
  /\ UNCHANGED <<now, account, setting, default, decision, shown, publication, mail, job>>

(* Deletion waits for a successor of every circle the account owns.        *)
Erase(u) ==
  /\ \A c \in Circles : owner[c] # {u}
  /\ EraseRows(u)
  /\ member' = [c \in Circles |-> member[c] \ {u}]
  /\ owner' = [c \in Circles |-> owner[c] \ {u}]
  /\ UNCHANGED <<publication, mail, job>>

(* An invocation of the job ends in the cycle it was admitted in: it is    *)
(* bounded by seconds and its window does not reach the next boundary.     *)
Tick ==
  /\ now < (LastCycle + 1) * Length - 1
  /\ job.stage \in {"primary", "others"} => (now + 1) \div Length = Current
  /\ now' = now + 1
  /\ job' = IF (now + 1) \div Length = Current THEN job ELSE Idle
  /\ UNCHANGED <<account, member, setting, default, decision, shown, owner, publication, mail>>

MemberSteps ==
  /\ UNCHANGED pairingVars
  /\ \/ \E t \in Tabs, c \in Circles : Look(t, c)
     \/ \E t \in Tabs, choice, heard \in BOOLEAN : Save(t, choice, heard)
     \/ \E t \in Tabs : Refuse(t)
     \/ \E u \in Users : Lock(u) \/ Unlock(u)

Membership ==
  \/ \E m \in Moving : LET u == m[1]  c == m[2] IN
       Join(u, c) \/ Leave(u, c) \/ Promote(u, c) \/ Demote(u, c)
  \/ \E c \in Circles : Archive(c)
  \/ \E u \in Users : Erase(u)

Next ==
  \/ Tick \/ MemberSteps \/ Membership
  \/ \E u \in Users, c \in Circles, w \in Cycles : Recover(u, c, w)
  \/ StartJob \/ EndJob \/ KillJob
  \/ \E c \in Circles : JobPublishes(c) \/ JobFindsIt(c) \/ JobFails(c)

Spec == Init /\ [][Next]_vars

-----------------------------------------------------------------------------
Snapshots == UNION {[S -> [version : 0..MaxVersion, available : BOOLEAN]] : S \in SUBSET Users}

(* Types of the stored rows; a snapshot covers the members it was taken of *)
(* and its groups are the available ones.                                  *)
TypeOK ==
  /\ now \in 0..((LastCycle + 1) * Length)
  /\ account \in [Users -> {"active", "pending", "erased"}] /\ setting \in [Users -> BOOLEAN]
  /\ member \in [Circles -> SUBSET Users]
  /\ \A c \in Circles : owner[c] \subseteq member[c]
  /\ default \in [Circles -> [Cycles -> {"none", "legacy_bridge", "cycle_default"}]]
  /\ decision \in [Circles -> [Cycles -> [Users -> [version : 0..MaxVersion, available : BOOLEAN]]]]
  /\ shown \in [Tabs -> States]
  /\ \A c \in Circles, w \in Cycles : LET p == publication[c][w] IN
       /\ p.snapshot \in Snapshots /\ DOMAIN p.snapshot = p.members
       /\ UNION p.groups = {u \in p.members : p.snapshot[u].available}
  /\ job.stage \in {"idle", "primary", "others", "200", "503"} /\ job.todo \subseteq job.listed

(* The decisions a published cycle was computed from are the decisions on  *)
(* record ever after: nothing is saved behind the publication, before or   *)
(* after it (_availability.js, cutoff; _pairing-publication.js, snapshot). *)
SnapshotStands ==
  \A c \in Circles, w \in Cycles : \A u \in publication[c][w].members :
    account[u] # "erased" =>
      /\ decision[c][w][u].version = publication[c][w].snapshot[u].version
      /\ IsAvailable(c, w, u) = publication[c][w].snapshot[u].available

(* What a member's tab shows for a cycle, saved or inherited, is what the  *)
(* pairing used, unless a later save by that member superseded it.         *)
ShownIsUsed ==
  \A t \in Tabs, c \in Circles, w \in Cycles :
    LET p == publication[c][w]  u == UserOf[t] IN
    /\ shown[t].circle = c /\ shown[t].cycle = w /\ u \in p.members
    /\ shown[t].version = p.snapshot[u].version
    => shown[t].available = p.snapshot[u].available

(* Members are told what the stored publication says, each one thing, and  *)
(* nobody is told before or outside of it; the primary circle tells all.   *)
MailTellsTheSnapshot ==
  /\ \A m \in mail : LET p == publication[m[1]][m[2]] IN
       /\ m[3] \in p.members
       /\ (m[4] = "unavailable") = (m[3] \notin UNION p.groups)
       /\ \A n \in mail : <<n[1], n[2], n[3]>> = <<m[1], m[2], m[3]>> => n = m
  /\ \A w \in Cycles : \A u \in publication[Primary][w].members :
       \E m \in mail : m[1] = Primary /\ m[2] = w /\ m[3] = u

(* At most two adjacent cycles read the old account setting, and only in   *)
(* the primary circle: the first ones it has rows of.                      *)
BridgeComesFirst ==
  \A c \in Circles, v, w \in Cycles :
    default[c][w] = "legacy_bridge" =>
      /\ c = Primary
      /\ default[c][v] = "cycle_default" => w < v
      /\ default[c][v] = "legacy_bridge" => v <= w + 1 /\ w <= v + 1

(* The job answers success only when the primary circle and every circle   *)
(* it had listed are published for its cycle.                              *)
JobAnswersTruly ==
  job.stage = "200" => \A c \in job.listed \cup {Primary} : publication[c][Current].published

Kept ==
  \A c \in Circles, w \in Cycles :
    publication[c][w].published => publication'[c][w] = publication[c][w]

(* A stored publication is never replaced, by the job, an owner or both    *)
(* (PAIRING_PUBLICATION_RECOVERY.md: both converge on the same claim).     *)
PublishedOnce == [][Kept]_vars
=============================================================================
