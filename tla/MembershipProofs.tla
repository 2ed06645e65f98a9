--------------------------- MODULE MembershipProofs ---------------------------
(* What holds of a membership, for all accounts, circles, rows and limits: of *)
(* the availability of members and the publication of their pairs (the module *)
(* extended), of how an address becomes a member (Joining), and of who        *)
(* administers the application (Flags).                                       *)
EXTENDS Pairing, SequenceTheorems, TLAPS

CONSTANTS
  Emails, Owners, Nobody, Known, Ids, Requests, Passwords, DailyLimit, GlobalLimit,
  MaxSends, MaxActivations, MaxDays,                                  \* Joining
  Staff, Founder, Configured, SignIns, StaffOf                        \* Flags

VARIABLES
  owners, invitation, spent, bulk, asked, stored, activation, letters, meant,
  opened, admitted, days,
  enlisted, current, others, admin, deleted, signIn

Joining == INSTANCE Invitations WITH
  None <- Nobody, account <- opened, member <- admitted, request <- asked
Flags   == INSTANCE AppAdmins WITH
  Users <- Staff, UserOf <- StaffOf,
  joined <- enlisted, active <- current, elsewhere <- others, erased <- deleted

Decisions    == [version : 0..MaxVersion, available : BOOLEAN]
Publications == [members : SUBSET Users, snapshot : Snapshots,
                 groups : SUBSET SUBSET Users, published : BOOLEAN]
Jobs == [stage : {"idle", "primary", "others", "200", "503"}, todo : SUBSET Circles,
         listed : SUBSET Circles, overflow : BOOLEAN, failed : BOOLEAN]

Shape ==
  /\ now \in Nat
  /\ account \in [Users -> {"active", "pending", "erased"}] /\ setting \in [Users -> BOOLEAN]
  /\ member \in [Circles -> SUBSET Users] /\ owner \in [Circles -> SUBSET Users]
  /\ default \in [Circles -> [Cycles -> {"none", "legacy_bridge", "cycle_default"}]]
  /\ decision \in [Circles -> [Cycles -> [Users -> Decisions]]]
  /\ shown \in [Tabs -> States]
  /\ publication \in [Circles -> [Cycles -> Publications]]
  /\ job \in Jobs

(* The job works on the cycle it was admitted in.                           *)
JobInItsCycle == job.stage # "idle" => Current \in Cycles

-----------------------------------------------------------------------------
(* The calendar.                                                            *)

LEMMA Division ==
  ASSUME PairingConstants, NEW n \in Nat
  PROVE  n \div Length \in Nat /\ n \div Length <= (n + 1) \div Length
BY DEF PairingConstants

LEMMA Calendar ==
  ASSUME PairingConstants, now \in Nat
  PROVE  /\ Current \in Nat /\ Upcoming = Current + 1 /\ Cycles \subseteq Nat
         /\ now' = now => Current' = Current /\ Upcoming' = Upcoming
         /\ now' = now + 1 => Current' \in Nat /\ Current <= Current' /\ Upcoming' = Current' + 1
BY Division DEF Current, Upcoming, Cycles

-----------------------------------------------------------------------------
(* Typing.                                                                  *)

LEMMA SourceTyped ==
  ASSUME Shape, NEW c \in Circles, NEW w \in Cycles
  PROVE  DefaultSource(c, w) \in {"legacy_bridge", "cycle_default"}
BY DEF Shape, DefaultSource

LEMMA MaterializedTyped ==
  ASSUME Shape, NEW c \in Circles, NEW w \in Cycles
  PROVE  /\ Materialized(c, w) \in [Circles -> [Cycles -> {"none", "legacy_bridge", "cycle_default"}]]
         /\ Materialized(c, w)[c][w] = DefaultSource(c, w)
         /\ \A d \in Circles, v \in Cycles :
              <<d, v>> # <<c, w>> => Materialized(c, w)[d][v] = default[d][v]
BY SourceTyped DEF Shape, Materialized

LEMMA AvailableTyped ==
  ASSUME Shape, NEW c \in Circles, NEW w \in Cycles, NEW u \in Users
  PROVE  IsAvailable(c, w, u) \in BOOLEAN
<1>1. decision[c][w][u].available \in BOOLEAN
  BY DEF Shape, Decisions
<1>2. Inherited(c, w, u) \in BOOLEAN
  BY DEF Shape, Inherited
<1> QED BY <1>1, <1>2 DEF IsAvailable

LEMMA StateTyped ==
  ASSUME PairingConstants, Shape, NEW c \in Circles, NEW w \in Cycles, NEW u \in Users
  PROVE  StateOf(c, w, u) \in States
<1>1. decision[c][w][u].version \in 0..MaxVersion
  BY DEF Shape, Decisions
<1>2. decision[c][w][u].version \in 0..MaxVersion + 1
  BY <1>1 DEF PairingConstants
<1> QED BY <1>2, AvailableTyped DEF StateOf, States

LEMMA DecidedTyped ==
  ASSUME Shape, NEW c \in Circles, NEW w \in Cycles, NEW u \in Users
  PROVE  Decided(c, w, u) \in Decisions
<1>1. decision[c][w][u].version \in 0..MaxVersion
  BY DEF Shape, Decisions
<1> QED BY <1>1, AvailableTyped DEF Decided, Decisions

LEMMA SnapshotTyped ==
  ASSUME Shape, NEW c \in Circles, NEW w \in Cycles
  PROVE  /\ Eligible(c) \subseteq Users
         /\ [u \in Eligible(c) |-> Decided(c, w, u)] \in Snapshots
<1>1. Eligible(c) \subseteq Users
  BY DEF Shape, Eligible
<1>2. [u \in Eligible(c) |-> Decided(c, w, u)] \in [Eligible(c) -> Decisions]
  BY <1>1, DecidedTyped
<1> QED BY <1>1, <1>2 DEF Snapshots, Decisions

LEMMA DivisionsCover ==
  ASSUME NEW S, NEW G \in Divisions(S)
  PROVE  UNION G = S /\ G \in SUBSET SUBSET S
BY DEF Divisions

(* The publication a step stores, and what is on record beside it.          *)
Publication(c, w, G) ==
  [members |-> Eligible(c), snapshot |-> [u \in Eligible(c) |-> Decided(c, w, u)],
   groups |-> G, published |-> TRUE]

LEMMA PublicationTyped ==
  ASSUME Shape, NEW c \in Circles, NEW w \in Cycles, NEW G \in Divisions(Participants(c, w))
  PROVE  Publication(c, w, G) \in Publications
<1>1. Participants(c, w) \subseteq Users
  BY SnapshotTyped DEF Participants
<1>2. G \in SUBSET SUBSET Participants(c, w)
  BY DivisionsCover
<1>3. G \in SUBSET SUBSET Users
  BY <1>1, <1>2
<1> QED BY <1>3, SnapshotTyped DEF Publication, Publications

LEMMA StoredPublication ==
  ASSUME Shape, NEW c \in Circles, NEW w \in Cycles, Publish(c, w)
  PROVE  \E G \in Divisions(Participants(c, w)) :
           /\ publication' \in [Circles -> [Cycles -> Publications]]
           /\ publication'[c][w] = Publication(c, w, G)
           /\ \A d \in Circles, v \in Cycles :
                <<d, v>> # <<c, w>> => publication'[d][v] = publication[d][v]
           /\ mail' \in {mail, mail \cup Intents(c, w, G)}
           /\ c = Primary => mail' = mail \cup Intents(c, w, G)
<1>1. PICK G \in Divisions(Participants(c, w)) :
        /\ publication' = [publication EXCEPT ![c][w] = Publication(c, w, G)]
        /\ mail' \in {mail, mail \cup Intents(c, w, G)}
        /\ c = Primary => mail' = mail \cup Intents(c, w, G)
  BY DEF Publish, Publication
<1>2. Publication(c, w, G) \in Publications
  BY PublicationTyped
<1>3. publication \in [Circles -> [Cycles -> Publications]]
  BY DEF Shape
<1> HIDE DEF Publication, Publications
<1> QED BY <1>1, <1>2, <1>3

LEMMA PublishTyped ==
  ASSUME Shape, NEW c \in Circles, NEW w \in Cycles, Publish(c, w), job' \in Jobs
  PROVE  Shape'
<1>1. publication' \in [Circles -> [Cycles -> Publications]]
  BY StoredPublication
<1>2. /\ default' \in [Circles -> [Cycles -> {"none", "legacy_bridge", "cycle_default"}]]
      /\ UNCHANGED <<now, account, member, setting, decision, shown, owner>>
  BY MaterializedTyped DEF Publish
<1> QED BY <1>1, <1>2 DEF Shape

LEMMA HandledTyped ==
  ASSUME Shape, NEW c \in Circles
  PROVE  Handled(c) \in Jobs /\ Failed(c) \in Jobs
BY DEF Shape, Handled, Failed, Idle, Jobs

LEMMA JobTyped ==
  ASSUME Shape,
         \/ StartJob \/ EndJob \/ KillJob
         \/ \E c \in Circles : JobFindsIt(c)
         \/ \E c \in Circles : JobFails(c) /\ UNCHANGED <<availabilityVars, owner, publication, mail>>
  PROVE  Shape' /\ UNCHANGED <<availabilityVars, owner, publication, mail>>
<1>1. UNCHANGED <<availabilityVars, owner, publication, mail>>
  BY DEF StartJob, EndJob, KillJob, JobFindsIt
<1>2. job' \in Jobs
  <2>1. CASE StartJob
    BY <2>1 DEF StartJob, Listable, Jobs
  <2>2. CASE EndJob
    BY <2>2 DEF EndJob, Answer, Shape, Jobs
  <2>3. CASE KillJob
    BY <2>3 DEF KillJob, Idle, Jobs
  <2>4. CASE \E c \in Circles : JobFindsIt(c) \/ JobFails(c)
    BY <2>4, HandledTyped DEF JobFindsIt, JobFails
  <2> QED BY <2>1, <2>2, <2>3, <2>4
<1> QED BY <1>1, <1>2 DEF Shape, availabilityVars

LEMMA LookTyped ==
  ASSUME PairingConstants, Shape, NEW t \in Tabs, NEW c \in Circles,
         Look(t, c) \/ Refuse(t), UNCHANGED pairingVars
  PROVE  Shape'
<1>1. UserOf[t] \in Users
  BY DEF PairingConstants
<1>2. shown[t].circle \in Circles
  BY DEF Shape, States
<1>3. CASE Look(t, c)
  <2>1. default' \in [Circles -> [Cycles -> {"none", "legacy_bridge", "cycle_default"}]]
    BY <1>3, MaterializedTyped DEF Look
  <2>2. shown' \in [Tabs -> States]
    BY <1>1, <1>3, StateTyped DEF Look, Shape
  <2> QED BY <1>3, <2>1, <2>2 DEF Look, Shape, pairingVars
<1>4. CASE Refuse(t)
  <2>1. shown' \in [Tabs -> States]
    BY <1>1, <1>2, <1>4, StateTyped DEF Refuse, Shape
  <2> QED BY <1>4, <2>1 DEF Refuse, Shape, pairingVars
<1> QED BY <1>3, <1>4

Retold(r, n, a) == [r EXCEPT !.version = n, !.available = a]

LEMMA RetoldFields ==
  ASSUME NEW r \in States, NEW n \in 0..MaxVersion + 1, NEW a \in BOOLEAN
  PROVE  /\ Retold(r, n, a) \in States
         /\ Retold(r, n, a).circle = r.circle /\ Retold(r, n, a).cycle = r.cycle
         /\ Retold(r, n, a).version = n /\ Retold(r, n, a).available = a
BY DEF States, Retold

(* What a save stores, and what its tab shows then.                         *)
LEMMA SaveEffect ==
  ASSUME PairingConstants, Shape, NEW t \in Tabs, NEW choice \in BOOLEAN, NEW heard \in BOOLEAN,
         Save(t, choice, heard)
  PROVE  LET s == shown[t]  c == s.circle  w == s.cycle  u == UserOf[t] IN
         /\ c \in Circles /\ w \in Cycles /\ u \in Users /\ w = Upcoming
         /\ decision[c][w][u].version = s.version /\ s.version \in 0..MaxVersion - 1
         /\ decision'[c][w][u] = [version |-> s.version + 1, available |-> choice]
         /\ decision'[c][w][u] \in Decisions
         /\ decision' \in [Circles -> [Cycles -> [Users -> Decisions]]]
         /\ \A d \in Circles, v \in Cycles, x \in Users :
              <<d, v, x>> # <<c, w, u>> => decision'[d][v][x] = decision[d][v][x]
         /\ shown' \in [Tabs -> States]
         /\ shown'[t] \in {s, Retold(s, s.version + 1, choice)}
         /\ \A x \in Tabs \ {t} : shown'[x] = shown[x]
<1> DEFINE s == shown[t]
           new == [version |-> s.version + 1, available |-> choice]
           told == Retold(s, s.version + 1, choice)
<1>1. s \in States /\ UserOf[t] \in Users
  BY DEF Shape, PairingConstants
<1>2. /\ s.circle \in Circles /\ s.cycle \in Cycles /\ s.version \in Nat /\ MaxVersion \in Nat
  BY <1>1 DEF States, PairingConstants
<1>3. /\ s.cycle = Upcoming /\ decision[s.circle][s.cycle][UserOf[t]].version = s.version
      /\ s.version < MaxVersion
      /\ decision' = [decision EXCEPT ![s.circle][s.cycle][UserOf[t]] = new]
      /\ shown' = IF heard THEN [shown EXCEPT ![t] =
                    [s EXCEPT !.version = new.version, !.available = choice]] ELSE shown
  BY DEF Save, Fresh, Editable
<1>4. new \in Decisions /\ told \in States
  <2>1. s.version + 1 \in 0..MaxVersion /\ s.version + 1 \in 0..MaxVersion + 1
    BY <1>2, <1>3
  <2>2. new \in Decisions
    BY <2>1 DEF Decisions
  <2>3. told \in States
    BY <1>1, <2>1, RetoldFields
  <2> QED BY <2>2, <2>3
<1>5. [s EXCEPT !.version = new.version, !.available = choice] = told
  BY DEF Retold
<1>6. decision \in [Circles -> [Cycles -> [Users -> Decisions]]] /\ shown \in [Tabs -> States]
  BY DEF Shape
<1>7. shown' \in {shown, [shown EXCEPT ![t] = told]}
  BY <1>3, <1>5
<1>8. s.version \in 0..MaxVersion - 1
  BY <1>2, <1>3
<1> HIDE DEF new, told, s
<1>9. /\ decision'[s.circle][s.cycle][UserOf[t]] = new
      /\ decision' \in [Circles -> [Cycles -> [Users -> Decisions]]]
      /\ \A d \in Circles, v \in Cycles, x \in Users :
           <<d, v, x>> # <<s.circle, s.cycle, UserOf[t]>> => decision'[d][v][x] = decision[d][v][x]
  BY <1>1, <1>2, <1>3, <1>4, <1>6
<1>10. shown' \in [Tabs -> States] /\ shown'[t] \in {shown[t], told}
       /\ \A x \in Tabs \ {t} : shown'[x] = shown[x]
  BY <1>4, <1>6, <1>7
<1> QED BY <1>1, <1>2, <1>3, <1>4, <1>8, <1>9, <1>10 DEF new, told, s

LEMMA SaveTyped ==
  ASSUME PairingConstants, Shape, NEW t \in Tabs, NEW choice \in BOOLEAN, NEW heard \in BOOLEAN,
         Save(t, choice, heard), UNCHANGED pairingVars
  PROVE  Shape'
<1>1. /\ decision' \in [Circles -> [Cycles -> [Users -> Decisions]]]
      /\ shown' \in [Tabs -> States]
      /\ shown[t].circle \in Circles /\ shown[t].cycle \in Cycles
  BY SaveEffect
<1>2. default' \in [Circles -> [Cycles -> {"none", "legacy_bridge", "cycle_default"}]]
  BY <1>1, MaterializedTyped DEF Save
<1> QED BY <1>1, <1>2 DEF Save, Shape, pairingVars

(* A change of an account's state, or of who is a member or an owner,       *)
(* touches decisions and the setting only by erasing them.                  *)
AccountStep(u) == (Lock(u) \/ Unlock(u)) /\ UNCHANGED pairingVars
CircleStep ==
  \/ \E m \in Moving : Join(m[1], m[2]) \/ Leave(m[1], m[2]) \/ Promote(m[1], m[2]) \/ Demote(m[1], m[2])
  \/ \E c \in Circles : Archive(c)

LEMMA AccountTyped == ASSUME Shape, NEW u \in Users, AccountStep(u) PROVE Shape'
<1>1. account' \in [Users -> {"active", "pending", "erased"}]
  BY DEF AccountStep, Lock, Unlock, Shape
<1> QED BY <1>1 DEF AccountStep, Lock, Unlock, Shape, pairingVars

LEMMA CircleTyped ==
  ASSUME PairingConstants, Shape, CircleStep
  PROVE  /\ Shape'
         /\ UNCHANGED <<now, account, setting, default, decision, shown, publication, mail, job>>
<1>1. UNCHANGED <<now, account, setting, default, decision, shown, publication, mail, job>>
  BY DEF CircleStep, Join, Leave, Promote, Demote, Archive, pairingVars, availabilityVars
<1>2. \A m \in Moving : m[1] \in Users /\ m[2] \in Circles
  BY DEF PairingConstants
<1>3. member' \in [Circles -> SUBSET Users] /\ owner' \in [Circles -> SUBSET Users]
  <2>1. ASSUME NEW u \in Users, NEW c \in Circles, Join(u, c) \/ Leave(u, c)
        PROVE  member' \in [Circles -> SUBSET Users] /\ owner' \in [Circles -> SUBSET Users]
    <3>1. member \in [Circles -> SUBSET Users] /\ owner \in [Circles -> SUBSET Users]
      BY DEF Shape
    <3>2. CASE Join(u, c)
      BY <3>1, <3>2 DEF Join, pairingVars
    <3>3. CASE Leave(u, c)
      BY <3>1, <3>3 DEF Leave
    <3> QED BY <2>1, <3>2, <3>3
  <2>2. ASSUME NEW u \in Users, NEW c \in Circles, Promote(u, c) \/ Demote(u, c)
        PROVE  member' \in [Circles -> SUBSET Users] /\ owner' \in [Circles -> SUBSET Users]
    <3>1. member \in [Circles -> SUBSET Users] /\ owner \in [Circles -> SUBSET Users]
      BY DEF Shape
    <3>2. CASE Promote(u, c)
      BY <3>1, <3>2 DEF Promote, availabilityVars
    <3>3. CASE Demote(u, c)
      BY <3>1, <3>3 DEF Demote, availabilityVars
    <3> QED BY <2>2, <3>2, <3>3
  <2>3. ASSUME NEW c \in Circles, Archive(c)
        PROVE  member' \in [Circles -> SUBSET Users] /\ owner' \in [Circles -> SUBSET Users]
    BY <2>3 DEF Archive, Shape
  <2> QED BY <1>2, <2>1, <2>2, <2>3 DEF CircleStep
<1> QED BY <1>1, <1>3 DEF Shape

LEMMA EraseTyped ==
  ASSUME PairingConstants, Shape, NEW u \in Users, Erase(u)
  PROVE  /\ Shape' /\ UNCHANGED <<now, default, shown, publication, mail, job>>
         /\ account[u] = "pending" /\ account'[u] = "erased"
         /\ \A x \in Users \ {u} : account'[x] = account[x] /\ setting'[x] = setting[x]
         /\ \A c \in Circles, w \in Cycles, x \in Users \ {u} : decision'[c][w][x] = decision[c][w][x]
<1>1. Undecided \in Decisions
  BY DEF Undecided, Decisions, PairingConstants
<1>2. decision' = [c \in Circles |-> [w \in Cycles |-> [decision[c][w] EXCEPT ![u] = Undecided]]]
  BY DEF Erase, EraseRows, WithoutRows
<1>3. \A c \in Circles, w \in Cycles : decision[c][w] \in [Users -> Decisions]
  BY DEF Shape
<1> HIDE DEF Decisions, Undecided
<1>4. /\ decision' \in [Circles -> [Cycles -> [Users -> Decisions]]]
      /\ \A c \in Circles, w \in Cycles, x \in Users \ {u} : decision'[c][w][x] = decision[c][w][x]
  BY <1>1, <1>2, <1>3
<1>5. member' \in [Circles -> SUBSET Users] /\ owner' \in [Circles -> SUBSET Users]
  BY DEF Erase, Shape
<1>6. /\ account' \in [Users -> {"active", "pending", "erased"}] /\ setting' \in [Users -> BOOLEAN]
      /\ account[u] = "pending" /\ account'[u] = "erased"
      /\ \A x \in Users \ {u} : account'[x] = account[x] /\ setting'[x] = setting[x]
  BY DEF Erase, EraseRows, Shape
<1> QED BY <1>4, <1>5, <1>6 DEF Erase, EraseRows, Shape

LEMMA TickTyped ==
  ASSUME Shape, Tick
  PROVE  /\ Shape' /\ now' = now + 1 /\ job' \in {job, Idle}
         /\ UNCHANGED <<account, setting, default, decision, shown, publication, mail>>
<1>1. now' \in Nat /\ now' = now + 1
  BY DEF Tick, Shape
<1>2. job' \in Jobs /\ job' \in {job, Idle}
  BY DEF Tick, Shape, Jobs, Idle
<1> QED BY <1>1, <1>2 DEF Tick, Shape

-----------------------------------------------------------------------------
(* The steps by what they do: a publication is always of the running cycle, *)
(* and the other steps of the job and of the circles leave the tables of    *)
(* this module alone.                                                       *)

JobStep ==
  \/ StartJob \/ EndJob \/ KillJob
  \/ \E c \in Circles : JobFindsIt(c)
  \/ \E c \in Circles : JobFails(c) /\ UNCHANGED <<availabilityVars, owner, publication, mail>>

PublishStep(c) ==
  /\ Current \in Cycles /\ Unpublished(c, Current) /\ Publish(c, Current)
  /\ job' = job \/ (Turn(c) /\ job' \in {Handled(c), Failed(c)})

ReadStep(t)  == (\E c \in Circles : Look(t, c) \/ Refuse(t)) /\ UNCHANGED pairingVars
SaveStep(t, choice, heard) == Save(t, choice, heard) /\ UNCHANGED pairingVars

LEMMA StepCases ==
  ASSUME PairingConstants, JobInItsCycle, Next
  PROVE  \/ Tick \/ CircleStep \/ JobStep
         \/ \E u \in Users : AccountStep(u) \/ Erase(u)
         \/ \E t \in Tabs : ReadStep(t)
         \/ \E t \in Tabs, choice \in BOOLEAN, heard \in BOOLEAN : SaveStep(t, choice, heard)
         \/ \E c \in Circles : PublishStep(c)
<1>1. CASE MemberSteps
  <2>1. CASE \E t \in Tabs, c \in Circles : Look(t, c)
    BY <1>1, <2>1 DEF MemberSteps, ReadStep
  <2>2. CASE \E t \in Tabs : Refuse(t)
    BY <1>1, <2>2 DEF MemberSteps, ReadStep, PairingConstants
  <2>3. CASE \E t \in Tabs, choice, heard \in BOOLEAN : Save(t, choice, heard)
    BY <1>1, <2>3 DEF MemberSteps, SaveStep
  <2>4. CASE \E u \in Users : Lock(u) \/ Unlock(u)
    BY <1>1, <2>4 DEF MemberSteps, AccountStep
  <2> QED BY <1>1, <2>1, <2>2, <2>3, <2>4 DEF MemberSteps
<1>2. CASE Membership
  BY <1>2 DEF Membership, CircleStep
<1>3. CASE \E u \in Users, c \in Circles, w \in Cycles : Recover(u, c, w)
  BY <1>3 DEF Recover, PublishStep
<1>4. ASSUME NEW c \in Circles, JobPublishes(c) PROVE PublishStep(c)
  BY <1>4 DEF JobPublishes, PublishStep, Turn, JobInItsCycle
<1>5. ASSUME NEW c \in Circles, JobFails(c) PROVE PublishStep(c) \/ JobStep
  BY <1>5 DEF JobFails, PublishStep, JobStep, Turn, JobInItsCycle
<1>6. CASE StartJob \/ EndJob \/ KillJob \/ \E c \in Circles : JobFindsIt(c)
  BY <1>6 DEF JobStep
<1> QED BY <1>1, <1>2, <1>3, <1>4, <1>5, <1>6 DEF Next

LEMMA PublishStepTyped ==
  ASSUME Shape, NEW c \in Circles, PublishStep(c) PROVE Shape'
<1>1. job' \in Jobs
  BY HandledTyped DEF PublishStep, Shape
<1> QED BY <1>1, PublishTyped DEF PublishStep

Typed == Shape /\ JobInItsCycle

LEMMA InitTyped == ASSUME PairingConstants, Init PROVE Typed
<1> USE DEF PairingConstants
<1>1. NoState \in States
  BY DEF NoState, States, Cycles
<1>2. None \in Publications
  <2>1. [u \in {} |-> Undecided] \in [{} -> Decisions]
    OBVIOUS
  <2> QED BY <2>1 DEF None, Publications, Snapshots, Decisions
<1>3. Undecided \in Decisions
  BY DEF Undecided, Decisions
<1>4. Idle \in Jobs /\ Idle.stage = "idle"
  BY DEF Idle, Jobs
<1> HIDE DEF Publications, States, Decisions, Undecided, NoState, None, Idle, Jobs
<1>5. owner \in [Circles -> SUBSET Users]
  BY DEF Init
<1>6. shown \in [Tabs -> States] /\ decision \in [Circles -> [Cycles -> [Users -> Decisions]]]
  BY <1>1, <1>3 DEF Init, AvailabilityInit
<1>7. publication \in [Circles -> [Cycles -> Publications]] /\ job \in Jobs /\ job.stage = "idle"
  BY <1>2, <1>4 DEF Init
<1> QED BY <1>5, <1>6, <1>7 DEF Init, AvailabilityInit, Shape, Typed, JobInItsCycle

LEMMA NextTyped == ASSUME PairingConstants, Typed, [Next]_vars PROVE Typed'
<1> USE DEF Typed
<1>1. CASE UNCHANGED vars
  <2>1. now' = now /\ job' = job
    BY <1>1 DEF vars, availabilityVars, pairingVars
  <2>2. Shape'
    BY <1>1 DEF vars, availabilityVars, pairingVars, Shape
  <2> QED BY <2>1, <2>2, Calendar DEF JobInItsCycle, Shape
<1>2. CASE Tick
  <2>1. Shape'
    BY <1>2, TickTyped
  <2>2. JobInItsCycle'
    <3>1. job' = Idle \/ (job' = job /\ Current' = Current)
      BY <1>2 DEF Tick, Current
    <3> QED BY <3>1 DEF JobInItsCycle, Idle
  <2> QED BY <2>1, <2>2
<1>3. CASE CircleStep
  BY <1>3, CircleTyped, Calendar DEF JobInItsCycle, Shape
<1>4. CASE JobStep
  <2>1. Shape' /\ now' = now
    BY <1>4, JobTyped DEF JobStep, availabilityVars
  <2>2. job'.stage # "idle" => Current \in Cycles
    <3>1. CASE StartJob
      BY <3>1 DEF StartJob
    <3>2. CASE EndJob
      BY <3>2 DEF EndJob, JobInItsCycle
    <3>3. CASE KillJob
      BY <3>3 DEF KillJob, Idle
    <3>4. CASE \E c \in Circles : JobFindsIt(c) \/ JobFails(c)
      BY <3>4 DEF JobFindsIt, JobFails, Turn, JobInItsCycle
    <3> QED BY <1>4, <3>1, <3>2, <3>3, <3>4 DEF JobStep
  <2> QED BY <2>1, <2>2, Calendar DEF JobInItsCycle, Shape
<1>5. CASE \E u \in Users : AccountStep(u) \/ Erase(u)
  <2>1. Shape' /\ now' = now /\ job' = job
    BY <1>5, AccountTyped, EraseTyped DEF AccountStep, Lock, Unlock, pairingVars
  <2> QED BY <2>1, Calendar DEF JobInItsCycle, Shape
<1>6. CASE \E t \in Tabs : ReadStep(t)
  <2>1. Shape' /\ now' = now /\ job' = job
    BY <1>6, LookTyped DEF ReadStep, Look, Refuse, pairingVars
  <2> QED BY <2>1, Calendar DEF JobInItsCycle, Shape
<1>7. CASE \E t \in Tabs, choice \in BOOLEAN, heard \in BOOLEAN : SaveStep(t, choice, heard)
  <2>1. Shape' /\ now' = now /\ job' = job
    BY <1>7, SaveTyped DEF SaveStep, Save, pairingVars
  <2> QED BY <2>1, Calendar DEF JobInItsCycle, Shape
<1>8. CASE \E c \in Circles : PublishStep(c)
  <2>1. Shape' /\ now' = now
    BY <1>8, PublishStepTyped DEF PublishStep, Publish
  <2>2. job' = job \/ Current \in Cycles
    BY <1>8 DEF PublishStep
  <2> QED BY <2>1, <2>2, Calendar DEF JobInItsCycle, Shape
<1> QED BY <1>1, <1>2, <1>3, <1>4, <1>5, <1>6, <1>7, <1>8, StepCases

LEMMA TypedAlways == ASSUME PairingConstants PROVE Spec => []Typed
BY InitTyped, NextTyped, PTL DEF Spec

-----------------------------------------------------------------------------
(* Publications.                                                            *)

LEMMA StepTyped ==
  ASSUME PairingConstants, Typed, [Next]_vars
  PROVE  /\ Shape /\ Shape' /\ Current \in Nat /\ Current' \in Nat /\ Current <= Current'
         /\ Upcoming = Current + 1 /\ Upcoming' = Current' + 1 /\ Cycles \subseteq Nat
         /\ now' = now => Current' = Current
<1>1. Shape /\ Shape'
  BY NextTyped DEF Typed
<1>2. now' = now \/ now' = now + 1
  <2>1. CASE UNCHANGED vars
    BY <2>1 DEF vars, availabilityVars
  <2>2. CASE Next
    <3>1. now' # now => Tick
      BY <2>2 DEF Next, MemberSteps, Look, Save, Refuse, Lock, Unlock, Membership, Join, Leave, Promote,
                  Demote, Archive, Erase, EraseRows, Recover, Publish, StartJob, EndJob, KillJob,
                  JobPublishes, JobFindsIt, JobFails, availabilityVars
    <3> QED BY <3>1 DEF Tick
  <2> QED BY <2>1, <2>2
<1> QED BY <1>1, <1>2, Calendar DEF Shape

(* Only a publication stores one, and only where there is none.             *)
LEMMA Stored ==
  ASSUME PairingConstants, Typed, [Next]_vars
  PROVE  \/ publication' = publication /\ mail' = mail
         \/ \E c \in Circles : PublishStep(c)
<1>1. CASE UNCHANGED vars
  BY <1>1 DEF vars, pairingVars
<1>2. CASE Next
  <2>1. CASE Tick
    BY <2>1 DEF Tick
  <2>2. CASE CircleStep
    BY <2>2, CircleTyped DEF Typed
  <2>3. CASE JobStep
    BY <2>3 DEF JobStep, StartJob, EndJob, KillJob, JobFindsIt
  <2>4. CASE \E u \in Users : AccountStep(u) \/ Erase(u)
    BY <2>4 DEF AccountStep, Erase, pairingVars
  <2>5. CASE \E t \in Tabs : ReadStep(t)
    BY <2>5 DEF ReadStep, pairingVars
  <2>6. CASE \E t \in Tabs, choice \in BOOLEAN, heard \in BOOLEAN : SaveStep(t, choice, heard)
    BY <2>6 DEF SaveStep, pairingVars
  <2> QED BY <1>2, <2>1, <2>2, <2>3, <2>4, <2>5, <2>6, StepCases DEF Typed
<1> QED BY <1>1, <1>2

LEMMA StepKeeps ==
  ASSUME PairingConstants, Typed, [Next]_vars
  PROVE  Kept
<1>1. CASE publication' = publication
  BY <1>1 DEF Kept
<1>2. ASSUME NEW c \in Circles, PublishStep(c) PROVE Kept
  <2>1. /\ Current \in Cycles /\ ~publication[c][Current].published
        /\ \A d \in Circles, v \in Cycles :
             <<d, v>> # <<c, Current>> => publication'[d][v] = publication[d][v]
    BY <1>2, StoredPublication DEF PublishStep, Unpublished, Typed
  <2> QED BY <2>1 DEF Kept
<1> QED BY <1>1, <1>2, Stored

(* A stored publication is never replaced, whoever publishes: the job, an   *)
(* owner who recovers, or both at once.                                     *)
THEOREM PublicationIsOnce == ASSUME PairingConstants PROVE Spec => PublishedOnce
<1>1. Typed /\ [Next]_vars => [Kept]_vars
  BY StepKeeps
<1> QED BY <1>1, TypedAlways, PTL DEF Spec, PublishedOnce

-----------------------------------------------------------------------------
(* The row of a cycle and the decisions of a closed one stand.              *)

LEMMA RowSteps ==
  ASSUME PairingConstants, Typed, [Next]_vars
  PROVE  \/ default' = default
         \/ \E c \in Circles, w \in Cycles :
              /\ w \in {Current, Upcoming} /\ now' = now /\ setting' = setting
              /\ default' = Materialized(c, w)
<1>1. CASE UNCHANGED vars
  BY <1>1 DEF vars, availabilityVars
<1>2. CASE Next
  <2>1. CASE Tick
    BY <2>1 DEF Tick
  <2>2. CASE CircleStep
    BY <2>2, CircleTyped DEF Typed
  <2>3. CASE JobStep
    BY <2>3, JobTyped DEF JobStep, Typed, availabilityVars
  <2>4. CASE \E u \in Users : AccountStep(u) \/ Erase(u)
    BY <2>4 DEF AccountStep, Lock, Unlock, Erase, EraseRows
  <2>5. CASE \E t \in Tabs : ReadStep(t)
    BY <2>5 DEF ReadStep, Look, Refuse
  <2>6. ASSUME NEW t \in Tabs, NEW choice \in BOOLEAN, NEW heard \in BOOLEAN, SaveStep(t, choice, heard)
        PROVE  \E c \in Circles, w \in Cycles :
                 /\ w \in {Current, Upcoming} /\ now' = now /\ setting' = setting
                 /\ default' = Materialized(c, w)
    <3>1. shown[t].circle \in Circles /\ shown[t].cycle \in Cycles /\ shown[t].cycle = Upcoming
      BY <2>6, SaveEffect DEF SaveStep, Typed
    <3> QED BY <2>6, <3>1 DEF SaveStep, Save
  <2>7. CASE \E c \in Circles : PublishStep(c)
    BY <2>7 DEF PublishStep, Publish
  <2> QED BY <1>2, <2>1, <2>2, <2>3, <2>4, <2>5, <2>6, <2>7, StepCases DEF Typed
<1> QED BY <1>1, <1>2

(* A cycle with a row at or before it is read the same way ever after.      *)
LEMMA SourceStands ==
  ASSUME PairingConstants, Typed, [Next]_vars, NEW d \in Circles, NEW v \in Cycles
  PROVE  /\ default[d][v] # "none" => default'[d][v] = default[d][v]
         /\ EarlierRow(d, v) => EarlierRow(d, v)' /\ DefaultSource(d, v)' = DefaultSource(d, v)
<1>1. CASE default' = default
  BY <1>1 DEF EarlierRow, DefaultSource
<1>2. ASSUME NEW c \in Circles, NEW w \in Cycles, default' = Materialized(c, w)
      PROVE  /\ default[d][v] # "none" => default'[d][v] = default[d][v]
             /\ EarlierRow(d, v) => EarlierRow(d, v)' /\ DefaultSource(d, v)' = DefaultSource(d, v)
  <2>1. /\ default'[c][w] = DefaultSource(c, w) /\ DefaultSource(c, w) # "none"
        /\ \A e \in Circles, x \in Cycles : <<e, x>> # <<c, w>> => default'[e][x] = default[e][x]
    <3>1. Shape
      BY DEF Typed
    <3>2. DefaultSource(c, w) # "none"
      BY <3>1, SourceTyped
    <3>3. /\ Materialized(c, w)[c][w] = DefaultSource(c, w)
          /\ \A e \in Circles, x \in Cycles : <<e, x>> # <<c, w>> => Materialized(c, w)[e][x] = default[e][x]
      BY <3>1, MaterializedTyped
    <3> QED BY <1>2, <3>2, <3>3
  <2>2. \A e \in Circles, x \in Cycles : default[e][x] # "none" => default'[e][x] = default[e][x]
    BY <2>1 DEF DefaultSource
  <2>3. v \in Nat /\ \A x \in 0..v : x \in Cycles
    BY DEF Cycles, PairingConstants
  <2>4. EarlierRow(d, v) => EarlierRow(d, v)'
    BY <2>2, <2>3 DEF EarlierRow
  <2>5. ASSUME EarlierRow(d, v) PROVE DefaultSource(d, v)' = DefaultSource(d, v)
    <3>1. CASE default[d][v] # "none"
      BY <2>2, <3>1 DEF DefaultSource
    <3>2. CASE default[d][v] = "none" /\ <<d, v>> = <<c, w>>
      BY <2>1, <3>2 DEF DefaultSource
    <3>3. CASE default[d][v] = "none" /\ <<d, v>> # <<c, w>>
      BY <2>1, <2>4, <2>5, <3>3 DEF DefaultSource
    <3> QED BY <3>1, <3>2, <3>3
  <2> QED BY <2>2, <2>4, <2>5
<1> QED BY <1>1, <1>2, RowSteps

(* What closed cycles are computed from stands while the account lives: a   *)
(* save is for the coming cycle only.                                       *)
LEMMA DecisionStands ==
  ASSUME PairingConstants, Typed, [Next]_vars, NEW u \in Users, account'[u] # "erased"
  PROVE  /\ account[u] # "erased" /\ setting'[u] = setting[u]
         /\ \A c \in Circles, w \in Cycles :
              \/ decision'[c][w][u] = decision[c][w][u]
              \/ w = Upcoming /\ decision'[c][w][u].version = decision[c][w][u].version + 1
<1> USE DEF Typed
<1>1. CASE UNCHANGED vars
  BY <1>1 DEF vars, availabilityVars
<1>2. CASE Tick
  BY <1>2, TickTyped
<1>3. CASE CircleStep
  BY <1>3, CircleTyped
<1>4. CASE JobStep
  BY <1>4, JobTyped DEF JobStep, availabilityVars
<1>5. ASSUME NEW x \in Users, AccountStep(x) \/ Erase(x)
      PROVE  /\ account[u] # "erased" /\ setting'[u] = setting[u] /\ \A c \in Circles, w \in Cycles :
                  decision'[c][w][u] = decision[c][w][u]
  <2>1. CASE AccountStep(x)
    BY <2>1 DEF AccountStep, Lock, Unlock, Shape
  <2>2. CASE Erase(x)
    BY <2>2, EraseTyped
  <2> QED BY <1>5, <2>1, <2>2
<1>6. CASE \E t \in Tabs : ReadStep(t)
  BY <1>6 DEF ReadStep, Look, Refuse
<1>7. ASSUME NEW t \in Tabs, NEW choice \in BOOLEAN, NEW heard \in BOOLEAN, SaveStep(t, choice, heard)
      PROVE  /\ account[u] # "erased" /\ setting'[u] = setting[u] /\ \A c \in Circles, w \in Cycles :
                  \/ decision'[c][w][u] = decision[c][w][u]
                  \/ w = Upcoming /\ decision'[c][w][u].version = decision[c][w][u].version + 1
  <2>1. LET s == shown[t] IN
        /\ s.cycle = Upcoming
        /\ decision[s.circle][s.cycle][UserOf[t]].version = s.version
        /\ decision'[s.circle][s.cycle][UserOf[t]].version = s.version + 1
        /\ \A d \in Circles, v \in Cycles, x \in Users :
             <<d, v, x>> # <<shown[t].circle, shown[t].cycle, UserOf[t]>> => decision'[d][v][x] = decision[d][v][x]
    <3>1. LET s == shown[t] IN
          /\ s.cycle = Upcoming
          /\ decision[s.circle][s.cycle][UserOf[t]].version = s.version
          /\ decision'[s.circle][s.cycle][UserOf[t]] = [version |-> s.version + 1, available |-> choice]
          /\ \A d \in Circles, v \in Cycles, x \in Users :
               <<d, v, x>> # <<s.circle, s.cycle, UserOf[t]>> => decision'[d][v][x] = decision[d][v][x]
      BY <1>7, SaveEffect DEF SaveStep
    <3> QED BY <3>1
  <2>2. account' = account /\ setting' = setting
    BY <1>7 DEF SaveStep, Save
  <2> QED BY <2>1, <2>2
<1>8. CASE \E c \in Circles : PublishStep(c)
  BY <1>8 DEF PublishStep, Publish
<1> QED BY <1>1, <1>2, <1>3, <1>4, <1>5, <1>6, <1>7, <1>8, StepCases

(* A published cycle has begun and has its row; an unpublished one has no   *)
(* members on record.                                                       *)
BegunWithRow ==
  \A c \in Circles, w \in Cycles :
    IF publication[c][w].published
      THEN w <= Current /\ default[c][w] # "none"
      ELSE publication[c][w].members = {}

SnapshotInv == Typed /\ BegunWithRow /\ SnapshotStands

LEMMA BegunStep ==
  ASSUME PairingConstants, Typed, [Next]_vars, BegunWithRow PROVE BegunWithRow'
<1> USE DEF Typed
<1> SUFFICES ASSUME NEW d \in Circles, NEW v \in Cycles
             PROVE  IF publication'[d][v].published
                      THEN v <= Current' /\ default'[d][v] # "none"
                      ELSE publication'[d][v].members = {}
  BY DEF BegunWithRow
<1>1. v \in Nat /\ Current \in Nat /\ Current' \in Nat /\ Current <= Current'
  BY StepTyped
<1>2. CASE publication'[d][v] = publication[d][v]
  <2>1. default[d][v] # "none" => default'[d][v] # "none"
    BY SourceStands
  <2>2. v <= Current => v <= Current'
    BY <1>1
  <2> QED BY <1>2, <2>1, <2>2 DEF BegunWithRow
<1>3. ASSUME NEW c \in Circles, PublishStep(c) PROVE \/ publication'[d][v] = publication[d][v]
        \/ /\ publication'[d][v].published /\ v = Current /\ Current' = Current
           /\ default'[d][v] # "none"
  <2>1. /\ Current \in Cycles /\ publication'[c][Current].published
        /\ <<d, v>> # <<c, Current>> => publication'[d][v] = publication[d][v]
    <3>1. Current \in Cycles /\ Publish(c, Current)
      BY <1>3 DEF PublishStep
    <3>2. PICK G : /\ publication'[c][Current] = Publication(c, Current, G)
                   /\ <<d, v>> # <<c, Current>> => publication'[d][v] = publication[d][v]
      BY <3>1, StoredPublication
    <3> QED BY <3>1, <3>2 DEF Publication
  <2>2. default'[c][Current] # "none" /\ now' = now
    <3>1. Shape /\ Current \in Cycles /\ default' = Materialized(c, Current) /\ now' = now
      BY <1>3 DEF PublishStep, Publish
    <3> HIDE DEF Typed
    <3>2. default'[c][Current] = DefaultSource(c, Current) /\ DefaultSource(c, Current) # "none"
      BY <3>1, MaterializedTyped, SourceTyped
    <3> QED BY <3>1, <3>2
  <2> QED BY <2>1, <2>2, StepTyped
<1> QED BY <1>1, <1>2, <1>3, Stored

LEMMA SnapshotStep ==
  ASSUME PairingConstants, SnapshotInv, [Next]_vars PROVE SnapshotStands'
<1> USE DEF SnapshotInv, Typed
<1> SUFFICES ASSUME NEW d \in Circles, NEW v \in Cycles, NEW u \in publication'[d][v].members,
                    account'[u] # "erased"
             PROVE  /\ decision'[d][v][u].version = publication'[d][v].snapshot[u].version
                    /\ IsAvailable(d, v, u)' = publication'[d][v].snapshot[u].available
  BY DEF SnapshotStands
<1>1. /\ Shape /\ Shape' /\ v \in Nat /\ Current \in Nat /\ Upcoming = Current + 1 /\ v \in 0..v
      /\ now' = now => Current' = Current
  BY StepTyped
<1>2. u \in Users
  BY <1>1 DEF Shape, Publications
<1>3. account[u] # "erased" /\ setting'[u] = setting[u]
  BY <1>2, DecisionStands
<1>4. ASSUME v <= Current, DefaultSource(d, v)' = DefaultSource(d, v)
      PROVE  decision'[d][v][u] = decision[d][v][u] /\ IsAvailable(d, v, u)' = IsAvailable(d, v, u)
  <2>1. decision'[d][v][u] = decision[d][v][u]
    BY <1>1, <1>2, <1>4, DecisionStands
  <2> QED BY <1>3, <1>4, <2>1 DEF IsAvailable, Inherited
<1>5. CASE publication'[d][v] = publication[d][v]
  <2>1. publication[d][v].published
    BY <1>5 DEF BegunWithRow
  <2>2. v <= Current /\ default[d][v] # "none"
    BY <2>1 DEF BegunWithRow
  <2>3. DefaultSource(d, v)' = DefaultSource(d, v)
    BY <1>1, <2>2, SourceStands DEF EarlierRow
  <2> QED BY <1>3, <1>4, <1>5, <2>2, <2>3 DEF SnapshotStands
<1>6. ASSUME NEW c \in Circles, PublishStep(c), publication'[d][v] # publication[d][v]
      PROVE  /\ decision'[d][v][u].version = publication'[d][v].snapshot[u].version
             /\ IsAvailable(d, v, u)' = publication'[d][v].snapshot[u].available
  <2>1. Publish(c, Current) /\ Current \in Cycles
    BY <1>6 DEF PublishStep
  <2>2. PICK G : /\ publication'[c][Current] = Publication(c, Current, G)
                 /\ <<d, v>> # <<c, Current>> => publication'[d][v] = publication[d][v]
    BY <2>1, StoredPublication
  <2>3. d = c /\ v = Current /\ u \in Eligible(d)
    BY <1>6, <2>2 DEF Publication
  <2>4. publication'[d][v].snapshot[u] = Decided(d, v, u)
    BY <2>2, <2>3 DEF Publication
  <2>5. default'[d][v] = DefaultSource(d, v) /\ DefaultSource(d, v) # "none"
    BY <2>1, <2>3, MaterializedTyped, SourceTyped DEF Publish
  <2>6. DefaultSource(d, v)' = DefaultSource(d, v)
    BY <2>5 DEF DefaultSource
  <2>7. decision'[d][v][u] = decision[d][v][u] /\ IsAvailable(d, v, u)' = IsAvailable(d, v, u)
    BY <1>1, <1>4, <2>3, <2>6
  <2> QED BY <2>4, <2>7 DEF Decided
<1> QED BY <1>5, <1>6, Stored

LEMMA SnapshotAlways == ASSUME PairingConstants PROVE Spec => []SnapshotInv
<1>1. Init => SnapshotInv
  <2>1. Init => BegunWithRow /\ SnapshotStands
    BY DEF Init, BegunWithRow, SnapshotStands, None
  <2> QED BY <2>1, InitTyped DEF SnapshotInv
<1>2. SnapshotInv /\ [Next]_vars => SnapshotInv'
  BY NextTyped, BegunStep, SnapshotStep DEF SnapshotInv
<1> QED BY <1>1, <1>2, PTL DEF Spec

(* Nothing is saved behind a publication: the decisions it was computed     *)
(* from are on record unchanged as long as the account is.                  *)
THEOREM NothingBehindTheSnapshot == ASSUME PairingConstants PROVE Spec => []SnapshotStands
BY SnapshotAlways, PTL DEF SnapshotInv

-----------------------------------------------------------------------------
(* The answer of the job.                                                   *)

(* A circle that was listed waits for its turn, or failed, or is published; *)
(* the primary circle comes first, and without it the invocation ends.      *)
Accounted ==
  /\ job.todo \subseteq job.listed /\ Primary \notin job.listed
  /\ job.stage = "primary" => job.todo = job.listed
  /\ job.stage \in {"others", "200"} =>
       /\ publication[Primary][Current].published
       /\ \A c \in job.listed \ job.todo : job.failed \/ publication[c][Current].published
  /\ job.stage = "200" => ~job.failed /\ job.todo = {}

JobInv == Typed /\ Accounted

LEMMA HandledFields ==
  ASSUME Shape, NEW c \in Circles
  PROVE  /\ Handled(Primary).stage = "others" /\ Failed(Primary) = Idle
         /\ Handled(Primary).todo = job.todo /\ Handled(Primary).listed = job.listed
         /\ Handled(Primary).failed = job.failed
         /\ c # Primary =>
              /\ Handled(c).stage = job.stage /\ Handled(c).listed = job.listed
              /\ Handled(c).todo = job.todo \ {c} /\ Handled(c).failed = job.failed
              /\ Failed(c).stage = job.stage /\ Failed(c).listed = job.listed
              /\ Failed(c).todo = job.todo \ {c} /\ Failed(c).failed = TRUE
BY DEF Shape, Jobs, Handled, Failed

LEMMA IdleAccounted ==
  ASSUME job' = Idle PROVE Accounted'
BY DEF Accounted, Idle

(* A turn of the job that ends with its circle published, or failed.        *)
LEMMA TurnAccounted ==
  ASSUME PairingConstants, JobInv, [Next]_vars, now' = now, NEW c \in Circles, Turn(c),
         \/ job' = Handled(c) /\ publication'[c][Current].published
         \/ job' = Failed(c)
  PROVE  Accounted'
<1> USE DEF JobInv, Typed
<1>1. /\ Current' = Current /\ Current \in Cycles /\ Shape
      /\ \A d \in Circles : publication[d][Current].published => publication'[d][Current].published
  BY StepTyped, StepKeeps DEF Kept, JobInItsCycle, Turn
<1>2. job.listed \subseteq Circles /\ Primary \in Circles
  BY DEF Shape, Jobs, PairingConstants
<1>3. CASE c = Primary /\ job' = Handled(c)
  <2>1. job.stage = "primary" /\ (publication'[c][Current].published \/ job' = Failed(c))
    BY <1>3 DEF Turn, Accounted
  <2>2. Handled(c).stage = "others" /\ Failed(c) = Idle /\ Idle.stage = "idle"
    BY <1>3, HandledFields DEF Idle
  <2>3. job.stage = "primary" /\ publication'[c][Current].published
    BY <1>3, <2>1, <2>2
  <2>4. job'.stage = "others" /\ job'.todo = job.todo /\ job'.listed = job.listed
    BY <1>3, HandledFields
  <2> QED BY <1>1, <1>3, <2>3, <2>4 DEF Accounted
<1>4. CASE c = Primary /\ job' = Failed(c)
  BY <1>4, HandledFields, IdleAccounted
<1>5. CASE c # Primary
  <2>1. job.stage = "others" /\ c \in job.todo
    BY <1>5 DEF Turn
  <2>2. /\ job'.stage = "others" /\ job'.todo = job.todo \ {c} /\ job'.listed = job.listed
        /\ job.failed => job'.failed
        /\ job'.failed \/ publication'[c][Current].published
    BY <1>5, <2>1, HandledFields
  <2> QED BY <1>1, <1>2, <2>1, <2>2 DEF Accounted
<1> QED BY <1>3, <1>4, <1>5

LEMMA AccountedStep ==
  ASSUME PairingConstants, JobInv, [Next]_vars PROVE Accounted'
<1> USE DEF JobInv, Typed
<1>1. ASSUME job' = job, Current' = Current PROVE Accounted'
  <2>1. job.stage # "idle" => \A c \in Circles :
          publication[c][Current].published => publication'[c][Current].published
    BY StepKeeps DEF Kept, JobInItsCycle
  <2>2. job.listed \subseteq Circles /\ Primary \in Circles
    BY DEF Shape, Jobs, PairingConstants
  <2> QED BY <1>1, <2>1, <2>2 DEF Accounted
<1>2. CASE UNCHANGED vars
  <2>1. job' = job /\ now' = now
    BY <1>2 DEF vars, pairingVars, availabilityVars
  <2> QED BY <1>1, <2>1, StepTyped
<1>3. CASE Tick
  <2>1. job' = Idle \/ (job' = job /\ Current' = Current)
    BY <1>3 DEF Tick, Current
  <2> QED BY <1>1, <2>1, IdleAccounted
<1>4. CASE JobStep
  <2>1. now' = now /\ publication' = publication /\ Current' = Current
    BY <1>4, JobTyped, StepTyped DEF JobStep, availabilityVars
  <2>2. CASE StartJob
    BY <2>2 DEF StartJob, Listable, Accounted
  <2>3. CASE EndJob
    <3>1. /\ job.stage = "others" /\ job.todo = {} /\ job' = [job EXCEPT !.stage = Answer]
          /\ Answer \in {"200", "503"} /\ (Answer = "200" => ~job.failed)
      BY <2>3 DEF EndJob, Answer
    <3>2. job'.stage = Answer /\ job'.todo = {} /\ job'.listed = job.listed /\ job'.failed = job.failed
      BY <3>1 DEF Shape, Jobs
    <3> QED BY <2>1, <3>1, <3>2 DEF Accounted
  <2>4. CASE KillJob
    BY <2>4, IdleAccounted DEF KillJob
  <2>5. ASSUME NEW c \in Circles, JobFindsIt(c) \/ JobFails(c) PROVE Accounted'
    BY <2>1, <2>5, TurnAccounted DEF JobFindsIt, JobFails, Unpublished
  <2> QED BY <1>4, <2>2, <2>3, <2>4, <2>5 DEF JobStep
<1>5. ASSUME NEW c \in Circles, PublishStep(c) PROVE Accounted'
  <2>1. now' = now /\ Current \in Cycles /\ Publish(c, Current)
    BY <1>5 DEF PublishStep, Publish
  <2>2. publication'[c][Current].published
    <3>1. PICK G : publication'[c][Current] = Publication(c, Current, G)
      BY <2>1, StoredPublication
    <3> QED BY <3>1 DEF Publication
  <2>3. CASE job' = job
    BY <1>1, <2>1, <2>3, StepTyped
  <2>4. CASE Turn(c) /\ job' \in {Handled(c), Failed(c)}
    BY <2>1, <2>2, <2>4, TurnAccounted
  <2> QED BY <1>5, <2>3, <2>4 DEF PublishStep
<1>6. CASE \/ CircleStep \/ \E u \in Users : AccountStep(u) \/ Erase(u)
           \/ \E t \in Tabs : ReadStep(t)
           \/ \E t \in Tabs, choice \in BOOLEAN, heard \in BOOLEAN : SaveStep(t, choice, heard)
  <2>1. job' = job /\ now' = now
    <3>1. CASE CircleStep
      BY <3>1, CircleTyped
    <3>2. CASE \E u \in Users : AccountStep(u) \/ Erase(u)
      BY <3>2 DEF AccountStep, Lock, Unlock, Erase, EraseRows, pairingVars
    <3>3. CASE \E t \in Tabs : ReadStep(t)
      BY <3>3 DEF ReadStep, Look, Refuse, pairingVars
    <3>4. CASE \E t \in Tabs, choice \in BOOLEAN, heard \in BOOLEAN : SaveStep(t, choice, heard)
      BY <3>4 DEF SaveStep, Save, pairingVars
    <3> QED BY <1>6, <3>1, <3>2, <3>3, <3>4
  <2> QED BY <1>1, <2>1, StepTyped
<1> QED BY <1>2, <1>3, <1>4, <1>5, <1>6, StepCases

(* Success is answered only when the primary circle and every listed circle *)
(* is published for the cycle of the job, whichever of them failed, lost    *)
(* its owner or was published by somebody else in between.                  *)
THEOREM SuccessIsComplete == ASSUME PairingConstants PROVE Spec => []JobAnswersTruly
<1>1. Init => JobInv
  BY InitTyped DEF Init, Idle, JobInv, Accounted
<1>2. JobInv /\ [Next]_vars => JobInv'
  BY NextTyped, AccountedStep DEF JobInv
<1>3. JobInv => JobAnswersTruly
  BY DEF JobInv, Accounted, JobAnswersTruly
<1> QED BY <1>1, <1>2, <1>3, PTL DEF Spec

-----------------------------------------------------------------------------
(* The bridge to the account setting.                                       *)

RowsHaveBegun ==
  \A c \in Circles, w \in Cycles : default[c][w] # "none" => w <= Upcoming

BridgeInv == Typed /\ RowsHaveBegun /\ BridgeComesFirst

LEMMA NewRow ==
  ASSUME PairingConstants, BridgeInv, NEW c \in Circles, NEW w \in Cycles,
         w \in {Current, Upcoming}, default' = Materialized(c, w), Upcoming' = Upcoming
  PROVE  RowsHaveBegun' /\ BridgeComesFirst'
<1> USE DEF BridgeInv
<1>1. /\ Shape /\ Cycles \subseteq Nat /\ Current \in Nat /\ Upcoming = Current + 1
      /\ \A x \in Cycles : 0..x \subseteq Cycles
  BY Calendar DEF Typed, Shape, Cycles, PairingConstants
<1>2. /\ default'[c][w] = DefaultSource(c, w) /\ DefaultSource(c, w) \in {"legacy_bridge", "cycle_default"}
      /\ \A e \in Circles, x \in Cycles : <<e, x>> # <<c, w>> => default'[e][x] = default[e][x]
  BY <1>1, MaterializedTyped, SourceTyped
<1>3. RowsHaveBegun'
  BY <1>1, <1>2 DEF RowsHaveBegun
<1>4. CASE default[c][w] # "none"
  <2>1. \A e \in Circles, x \in Cycles : default'[e][x] = default[e][x]
    BY <1>2, <1>4 DEF DefaultSource
  <2> QED BY <1>3, <2>1 DEF BridgeComesFirst
<1>5. CASE default[c][w] = "none" /\ DefaultSource(c, w) = "legacy_bridge"
  <2>1. c = Primary /\ ~EarlierRow(c, w)
    BY <1>5 DEF DefaultSource
  <2>2. \A x \in Cycles : x <= w => default[c][x] = "none"
    BY <1>1, <2>1 DEF EarlierRow
  <2>3. \A x \in Cycles : default[c][x] # "none" => w < x /\ x <= w + 1
    BY <1>1, <2>2 DEF RowsHaveBegun
  <2>4. ASSUME NEW d \in Circles, NEW v \in Cycles, NEW x \in Cycles, default'[d][x] = "legacy_bridge"
        PROVE  /\ d = Primary
               /\ default'[d][v] = "cycle_default" => x < v
               /\ default'[d][v] = "legacy_bridge" => v <= x + 1 /\ x <= v + 1
    <3>1. CASE d # c
      BY <1>2, <2>4, <3>1 DEF BridgeComesFirst
    <3>2. CASE d = c /\ x = w
      BY <1>1, <1>2, <1>5, <2>1, <2>3, <3>2
    <3>3. CASE d = c /\ x # w /\ v # w
      BY <1>2, <2>4, <3>3 DEF BridgeComesFirst
    <3>4. CASE d = c /\ x # w /\ v = w
      <4>1. w < x /\ x <= w + 1
        BY <1>2, <2>3, <2>4, <3>4
      <4> QED BY <1>1, <1>2, <1>5, <2>1, <3>4, <4>1
    <3> QED BY <3>1, <3>2, <3>3, <3>4
  <2> QED BY <1>3, <2>4 DEF BridgeComesFirst
<1>6. CASE default[c][w] = "none" /\ DefaultSource(c, w) = "cycle_default"
  <2>1. c # Primary \/ EarlierRow(c, w)
    BY <1>6 DEF DefaultSource
  <2>2. ASSUME NEW x \in Cycles, default[c][x] = "legacy_bridge" PROVE x < w
    <3>1. PICK v \in 0..w : default[c][v] # "none"
      BY <2>1, <2>2 DEF EarlierRow, BridgeComesFirst
    <3>2. v \in Cycles /\ v < w /\ x # w /\ v \in Nat /\ w \in Nat /\ x \in Nat
      BY <1>1, <1>6, <2>2, <3>1
    <3>3. CASE default[c][v] = "cycle_default"
      BY <2>2, <3>2, <3>3 DEF BridgeComesFirst
    <3>4. CASE default[c][v] = "legacy_bridge"
      BY <2>2, <3>2, <3>4 DEF BridgeComesFirst
    <3> QED BY <1>1, <3>1, <3>2, <3>3, <3>4 DEF Shape
  <2>3. ASSUME NEW d \in Circles, NEW v \in Cycles, NEW x \in Cycles, default'[d][x] = "legacy_bridge"
        PROVE  /\ d = Primary
               /\ default'[d][v] = "cycle_default" => x < v
               /\ default'[d][v] = "legacy_bridge" => v <= x + 1 /\ x <= v + 1
    <3>1. default[d][x] = "legacy_bridge"
      BY <1>2, <1>6, <2>3
    <3>2. CASE <<d, v>> = <<c, w>>
      BY <1>2, <1>6, <2>2, <3>1, <3>2 DEF BridgeComesFirst
    <3>3. CASE <<d, v>> # <<c, w>>
      BY <1>2, <3>1, <3>3 DEF BridgeComesFirst
    <3> QED BY <3>2, <3>3
  <2> QED BY <1>3, <2>3 DEF BridgeComesFirst
<1> QED BY <1>2, <1>4, <1>5, <1>6

LEMMA BridgeStep ==
  ASSUME PairingConstants, BridgeInv, [Next]_vars PROVE BridgeInv'
<1>1. /\ Typed /\ Typed' /\ Cycles \subseteq Nat /\ Upcoming \in Nat /\ Upcoming' \in Nat
      /\ Upcoming <= Upcoming' /\ (now' = now => Upcoming' = Upcoming)
  BY StepTyped, NextTyped DEF BridgeInv
<1>2. CASE default' = default
  <2>1. RowsHaveBegun'
    <3>1. ASSUME NEW c \in Circles, NEW w \in Cycles, default[c][w] # "none" PROVE w <= Upcoming'
      <4>1. w <= Upcoming /\ w \in Nat
        BY <1>1, <3>1 DEF BridgeInv, RowsHaveBegun
      <4> HIDE DEF Upcoming
      <4> QED BY <1>1, <4>1
    <3> QED BY <1>2, <3>1 DEF RowsHaveBegun
  <2>2. BridgeComesFirst'
    BY <1>2 DEF BridgeInv, BridgeComesFirst
  <2> QED BY <1>1, <2>1, <2>2 DEF BridgeInv
<1>3. ASSUME NEW c \in Circles, NEW w \in Cycles, w \in {Current, Upcoming}, now' = now,
             default' = Materialized(c, w)
      PROVE  RowsHaveBegun' /\ BridgeComesFirst'
  BY <1>1, <1>3, NewRow
<1>4. (RowsHaveBegun' /\ BridgeComesFirst') \/ default' = default
  BY <1>1, <1>3, RowSteps
<1> QED BY <1>1, <1>2, <1>4 DEF BridgeInv

(* The old account setting is read in the primary circle only, and there in *)
(* at most its first two cycles, whoever writes which row first.            *)
THEOREM BridgeEnds == ASSUME PairingConstants PROVE Spec => []BridgeComesFirst
<1>1. Init => BridgeInv
  <2>1. Init => RowsHaveBegun /\ BridgeComesFirst
    BY DEF Init, AvailabilityInit, RowsHaveBegun, BridgeComesFirst
  <2> QED BY <2>1, InitTyped DEF BridgeInv
<1>2. BridgeInv /\ [Next]_vars => BridgeInv'
  BY BridgeStep
<1>3. BridgeInv => BridgeComesFirst
  BY DEF BridgeInv
<1> QED BY <1>1, <1>2, <1>3, PTL DEF Spec

-----------------------------------------------------------------------------
(* What a tab shows.                                                        *)

(* A tab shows a cycle that is read the same way ever after, and a decision *)
(* that is either on record or superseded.                                  *)
Standing(t) ==
  LET s == shown[t]  c == s.circle  w == s.cycle  u == UserOf[t] IN
  /\ s.version <= MaxVersion /\ EarlierRow(c, w) /\ w <= Upcoming
  /\ account[u] # "erased" =>
       /\ s.version <= decision[c][w][u].version
       /\ s.version = decision[c][w][u].version => s.available = IsAvailable(c, w, u)

TabsStand == \A t \in Tabs : shown[t] # NoState => Standing(t)

ShownInv == SnapshotInv /\ TabsStand /\ ShownIsUsed

LEMMA AvailabilityStands ==
  ASSUME PairingConstants, Typed, [Next]_vars,
         NEW c \in Circles, NEW w \in Cycles, NEW u \in Users, account'[u] # "erased",
         decision'[c][w][u] = decision[c][w][u], EarlierRow(c, w)
  PROVE  IsAvailable(c, w, u)' = IsAvailable(c, w, u)
<1>1. DefaultSource(c, w)' = DefaultSource(c, w)
  BY SourceStands
<1>2. setting'[u] = setting[u]
  BY DecisionStands
<1> QED BY <1>1, <1>2 DEF IsAvailable, Inherited

LEMMA ShownSteps ==
  ASSUME PairingConstants, Typed, [Next]_vars, NEW t \in Tabs
  PROVE  \/ shown'[t] = shown[t]
         \/ ReadStep(t)
         \/ \E choice \in BOOLEAN, heard \in BOOLEAN : SaveStep(t, choice, heard)
<1> USE DEF Typed
<1>1. CASE UNCHANGED vars
  BY <1>1 DEF vars, availabilityVars
<1>2. CASE Tick
  BY <1>2, TickTyped
<1>3. CASE CircleStep
  BY <1>3, CircleTyped
<1>4. CASE JobStep
  BY <1>4, JobTyped DEF JobStep, availabilityVars
<1>5. CASE \E u \in Users : AccountStep(u) \/ Erase(u)
  BY <1>5 DEF AccountStep, Lock, Unlock, Erase, EraseRows
<1>6. ASSUME NEW x \in Tabs, x # t, ReadStep(x) PROVE shown'[t] = shown[t]
  BY <1>6 DEF ReadStep, Look, Refuse, Shape
<1>7. ASSUME NEW x \in Tabs, x # t, NEW choice \in BOOLEAN, NEW heard \in BOOLEAN, SaveStep(x, choice, heard)
      PROVE  shown'[t] = shown[t]
  BY <1>7, SaveEffect DEF SaveStep
<1>8. CASE \E c \in Circles : PublishStep(c)
  BY <1>8 DEF PublishStep, Publish
<1> QED BY <1>1, <1>2, <1>3, <1>4, <1>5, <1>6, <1>7, <1>8, StepCases

LEMMA UntouchedStands ==
  ASSUME PairingConstants, Typed, [Next]_vars, NEW t \in Tabs, Standing(t), shown'[t] = shown[t]
  PROVE  Standing(t)'
<1> DEFINE s == shown[t]  c == s.circle  w == s.cycle  u == UserOf[t]
<1>1. /\ c \in Circles /\ w \in Cycles /\ u \in Users /\ s.version \in Nat
      /\ decision[c][w][u].version \in Nat
  <2>1. s \in States /\ u \in Users /\ MaxVersion \in Nat
    BY DEF Typed, Shape, PairingConstants
  <2>2. c \in Circles /\ w \in Cycles /\ s.version \in Nat
    BY <2>1 DEF States
  <2>3. decision[c][w][u] \in Decisions
    BY <2>1, <2>2 DEF Typed, Shape
  <2> QED BY <2>1, <2>2, <2>3 DEF Decisions
<1>2. EarlierRow(c, w)'
  <2>1. EarlierRow(c, w)
    BY DEF Standing
  <2>2. \A d \in Circles, v \in Cycles : EarlierRow(d, v) => \E x \in 0..v : default'[d][x] # "none"
    BY SourceStands DEF EarlierRow
  <2>3. \E x \in 0..w : default'[c][x] # "none"
    BY <1>1, <2>1, <2>2
  <2> QED BY <2>3 DEF EarlierRow
<1>3. w <= Upcoming'
  <2>1. w <= Upcoming /\ w \in Nat
    BY <1>1, StepTyped DEF Standing
  <2> QED BY <2>1, StepTyped
<1>4. ASSUME account'[u] # "erased"
      PROVE  /\ s.version <= decision'[c][w][u].version
             /\ s.version = decision'[c][w][u].version => s.available = IsAvailable(c, w, u)'
  <2>1. /\ s.version <= decision[c][w][u].version
        /\ s.version = decision[c][w][u].version => s.available = IsAvailable(c, w, u)
    BY <1>1, <1>4, DecisionStands DEF Standing
  <2>2. CASE decision'[c][w][u] = decision[c][w][u]
    BY <1>1, <1>4, <2>1, <2>2, AvailabilityStands DEF Standing
  <2>3. CASE decision'[c][w][u].version = decision[c][w][u].version + 1
    BY <1>1, <2>1, <2>3
  <2> QED BY <1>1, <1>4, <2>2, <2>3, DecisionStands
<1> QED BY <1>2, <1>3, <1>4 DEF Standing

LEMMA ReadStands ==
  ASSUME PairingConstants, Typed, TabsStand, [Next]_vars, NEW t \in Tabs, ReadStep(t)
  PROVE  Standing(t)'
<1> DEFINE w == Upcoming  u == UserOf[t]
<1>1. PICK c \in Circles : /\ shown' = [shown EXCEPT ![t] = StateOf(c, w, u)]
                           /\ Upcoming \in Cycles /\ Admitted(u, c)
                           /\ UNCHANGED <<now, account, setting, decision>>
                           /\ default' = Materialized(c, w) \/ (default' = default /\ EarlierRow(c, w))
  <2>1. ASSUME NEW c \in Circles, Look(t, c)
        PROVE  /\ shown' = [shown EXCEPT ![t] = StateOf(c, w, u)]
               /\ Upcoming \in Cycles /\ Admitted(u, c)
               /\ UNCHANGED <<now, account, setting, decision>>
               /\ default' = Materialized(c, w)
    BY <2>1 DEF Look
  <2>2. ASSUME Refuse(t)
        PROVE  LET c == shown[t].circle IN
               /\ c \in Circles /\ shown' = [shown EXCEPT ![t] = StateOf(c, w, u)]
               /\ Upcoming \in Cycles /\ Admitted(u, c)
               /\ UNCHANGED <<now, account, setting, decision>>
               /\ default' = default /\ EarlierRow(c, w)
    <3>1. shown[t].circle \in Circles
      BY DEF Typed, Shape, States
    <3>2. EarlierRow(shown[t].circle, shown[t].cycle) /\ shown[t].cycle <= Upcoming
      BY <2>2 DEF Refuse, TabsStand, Standing
    <3>3. shown[t].cycle \in Nat /\ Upcoming \in Nat
      BY StepTyped DEF Shape, States
    <3>4. EarlierRow(shown[t].circle, w)
      BY <3>2, <3>3 DEF EarlierRow
    <3> QED BY <2>2, <3>1, <3>4 DEF Refuse
  <2> QED BY <2>1, <2>2 DEF ReadStep
<1>2. w \in Cycles /\ w \in Nat /\ w \in 0..w /\ u \in Users /\ MaxVersion \in Nat /\ Upcoming' = w
  BY <1>1, StepTyped DEF PairingConstants
<1>3. DefaultSource(c, w)' = DefaultSource(c, w) /\ \E x \in 0..w : default'[c][x] # "none"
  <2>1. CASE default' = default /\ EarlierRow(c, w)
    BY <1>2, <2>1 DEF DefaultSource, EarlierRow
  <2>2. CASE default' = Materialized(c, w)
    <3>1. default'[c][w] = DefaultSource(c, w) /\ DefaultSource(c, w) # "none"
      BY <1>2, <2>2, MaterializedTyped, SourceTyped DEF Typed
    <3> QED BY <1>2, <3>1 DEF DefaultSource
  <2> QED BY <1>1, <2>1, <2>2
<1>4. /\ shown'[t] = StateOf(c, w, u) /\ shown'[t].circle = c /\ shown'[t].cycle = w
      /\ shown'[t].version = decision[c][w][u].version /\ shown'[t].available = IsAvailable(c, w, u)
  BY <1>1 DEF Typed, Shape, StateOf
<1>5. decision[c][w][u].version \in 0..MaxVersion
  BY <1>2 DEF Typed, Shape, Decisions
<1>6. \A b \in Cycles : b = w => IsAvailable(c, b, u)' = IsAvailable(c, b, u)
  BY <1>1, <1>2, <1>3 DEF IsAvailable, Inherited
<1>7. \A b \in Cycles : b = w => EarlierRow(c, b)'
  BY <1>3 DEF EarlierRow
<1>8. \A b \in Cycles : b = w => Standing(t)'
  BY <1>1, <1>2, <1>4, <1>5, <1>6, <1>7 DEF Standing
<1> QED BY <1>2, <1>8

LEMMA SaveStands ==
  ASSUME PairingConstants, Typed, TabsStand, [Next]_vars, NEW t \in Tabs,
         NEW choice \in BOOLEAN, NEW heard \in BOOLEAN, SaveStep(t, choice, heard),
         shown'[t] # shown[t]
  PROVE  Standing(t)'
<1> DEFINE s == shown[t]  c == s.circle  w == s.cycle  u == UserOf[t]
<1>1. /\ c \in Circles /\ w \in Cycles /\ u \in Users /\ w = Upcoming
      /\ s.version \in 0..MaxVersion - 1
      /\ decision'[c][w][u] = [version |-> s.version + 1, available |-> choice]
      /\ shown'[t] = Retold(s, s.version + 1, choice)
  BY SaveEffect DEF SaveStep, Typed
<1>2. s \in States /\ s.version + 1 \in 0..MaxVersion /\ s.version + 1 \in 0..MaxVersion + 1
      /\ s.version + 1 > 0
  BY <1>1 DEF Typed, Shape, PairingConstants
<1>3. /\ shown'[t].circle = c /\ shown'[t].cycle = w
      /\ shown'[t].version = s.version + 1 /\ shown'[t].available = choice
  BY <1>1, <1>2, RetoldFields
<1>4. default' = Materialized(c, w) /\ now' = now
  BY DEF SaveStep, Save
<1>5. default'[c][w] # "none"
  <2>1. Shape
    BY DEF Typed
  <2> HIDE DEF c, w
  <2>2. Materialized(c, w)[c][w] = DefaultSource(c, w) /\ DefaultSource(c, w) # "none"
    BY <1>1, <2>1, MaterializedTyped, SourceTyped
  <2> QED BY <1>4, <2>2
<1>6. w \in 0..w /\ Upcoming' = w
  BY <1>1, <1>4, StepTyped
<1>7. \A d \in Circles, b \in Cycles : d = c /\ b = w =>
        /\ EarlierRow(d, b)' /\ IsAvailable(d, b, u)' = choice
  BY <1>1, <1>2, <1>5, <1>6 DEF EarlierRow, IsAvailable
<1> QED BY <1>1, <1>2, <1>3, <1>6, <1>7 DEF Standing

LEMMA TabsStep ==
  ASSUME PairingConstants, Typed, TabsStand, [Next]_vars PROVE TabsStand'
<1> SUFFICES ASSUME NEW t \in Tabs, shown'[t] # NoState PROVE Standing(t)'
  BY DEF TabsStand
<1>1. CASE shown'[t] = shown[t]
  BY <1>1, UntouchedStands DEF TabsStand
<1> QED BY <1>1, ShownSteps, ReadStands, SaveStands

(* A tab of an erased account shows what it showed, and no publication of   *)
(* one counts the account.                                                  *)
LEMMA ErasedIsOver ==
  ASSUME PairingConstants, Typed, [Next]_vars, NEW t \in Tabs, account'[UserOf[t]] = "erased"
  PROVE  /\ shown'[t] = shown[t]
         /\ \A c \in Circles, w \in Cycles :
              UserOf[t] \in publication'[c][w].members => publication'[c][w] = publication[c][w]
<1>1. UserOf[t] \in Users
  BY DEF PairingConstants
<1>2. shown'[t] = shown[t]
  <2>1. ASSUME ReadStep(t) PROVE FALSE
    BY <2>1 DEF ReadStep, Look, Refuse, Admitted
  <2>2. ASSUME NEW choice \in BOOLEAN, NEW heard \in BOOLEAN, SaveStep(t, choice, heard) PROVE FALSE
    BY <2>2 DEF SaveStep, Save, Admitted
  <2> QED BY <2>1, <2>2, ShownSteps
<1>3. ASSUME NEW b \in Circles, PublishStep(b), NEW c \in Circles, NEW w \in Cycles,
             UserOf[t] \in publication'[c][w].members
      PROVE  publication'[c][w] = publication[c][w]
  <2>1. Publish(b, Current) /\ Current \in Cycles
    BY <1>3 DEF PublishStep
  <2>2. PICK G : /\ publication'[b][Current] = Publication(b, Current, G)
                 /\ <<c, w>> # <<b, Current>> => publication'[c][w] = publication[c][w]
    BY <2>1, StoredPublication DEF Typed
  <2>3. UserOf[t] \notin Eligible(b)
    BY <2>1 DEF Publish, Eligible
  <2> QED BY <1>3, <2>2, <2>3 DEF Publication
<1> QED BY <1>2, <1>3, Stored

LEMMA ShownStep ==
  ASSUME PairingConstants, ShownInv, [Next]_vars, SnapshotInv', TabsStand' PROVE ShownIsUsed'
<1> SUFFICES ASSUME NEW t \in Tabs, NEW c \in Circles, NEW w \in Cycles,
                    shown'[t].circle = c, shown'[t].cycle = w,
                    UserOf[t] \in publication'[c][w].members,
                    shown'[t].version = publication'[c][w].snapshot[UserOf[t]].version
             PROVE  shown'[t].available = publication'[c][w].snapshot[UserOf[t]].available
  BY DEF ShownIsUsed
<1>1. CASE account'[UserOf[t]] = "erased"
  <2>1. shown'[t] = shown[t] /\ publication'[c][w] = publication[c][w]
    BY <1>1, ErasedIsOver DEF ShownInv, SnapshotInv
  <2> QED BY <2>1 DEF ShownInv, ShownIsUsed
<1>2. CASE account'[UserOf[t]] # "erased"
  <2>1. /\ decision'[c][w][UserOf[t]].version = publication'[c][w].snapshot[UserOf[t]].version
        /\ \A x \in Circles, y \in Cycles : x = c /\ y = w =>
             IsAvailable(x, y, UserOf[t])' = publication'[c][w].snapshot[UserOf[t]].available
    BY <1>2 DEF SnapshotInv, SnapshotStands
  <2>2. decision'[c][w][UserOf[t]].version \in 0..MaxVersion /\ MaxVersion \in Nat
    BY DEF SnapshotInv, Typed, Shape, Decisions, PairingConstants
  <2>3. shown'[t] # NoState
    BY <2>1, <2>2 DEF NoState
  <2>4. Standing(t)'
    BY <2>3 DEF TabsStand
  <2> QED BY <1>2, <2>1, <2>4 DEF Standing
<1> QED BY <1>1, <1>2

(* What a tab shows for a cycle is what the pairing of that cycle used,     *)
(* whatever other tabs, lost answers, cutoffs and publications intervened,  *)
(* unless a later save of the same member superseded it.                    *)
THEOREM TabsDoNotLie == ASSUME PairingConstants PROVE Spec => []ShownIsUsed
<1>1. Init => TabsStand /\ ShownIsUsed
  BY DEF Init, AvailabilityInit, TabsStand, ShownIsUsed, None
<1>2. ShownInv /\ [Next]_vars /\ SnapshotInv' => TabsStand' /\ ShownIsUsed'
  BY TabsStep, ShownStep DEF ShownInv, SnapshotInv
<1>3. SnapshotInv /\ TabsStand /\ ShownIsUsed /\ [Next]_vars /\ SnapshotInv' => TabsStand' /\ ShownIsUsed'
  BY <1>2 DEF ShownInv
<1> QED BY <1>1, <1>3, SnapshotAlways, PTL DEF Spec

-----------------------------------------------------------------------------
(* The mail.                                                                *)

Kinds == {"paired", "solo", "unavailable"}

MailInv ==
  /\ SnapshotInv
  /\ mail \subseteq Circles \X Cycles \X Users \X Kinds
  /\ MailTellsTheSnapshot

(* What a publication tells one member.                                     *)
LEMMA IntentOf ==
  ASSUME Shape, NEW c \in Circles, NEW w \in Cycles, NEW G \in Divisions(Participants(c, w)),
         NEW m \in Intents(c, w, G)
  PROVE  /\ m[1] = c /\ m[2] = w /\ m[3] \in Eligible(c) /\ m[4] = Kind(c, w, m[3], G)
         /\ m \in Circles \X Cycles \X Users \X Kinds
         /\ (m[4] = "unavailable") = (m[3] \notin UNION G)
<1>1. PICK u \in Eligible(c) : m = <<c, w, u, Kind(c, w, u, G)>>
  BY DEF Intents
<1>2. u \in Users
  BY SnapshotTyped
<1>3. u \notin UNION G <=> ~IsAvailable(c, w, u)
  BY DivisionsCover DEF Participants
<1>4. Kind(c, w, u, G) \in Kinds /\ (Kind(c, w, u, G) = "unavailable" <=> ~IsAvailable(c, w, u))
  <2>1. CASE IsAvailable(c, w, u)
    BY <2>1 DEF Kind, Kinds
  <2>2. CASE ~IsAvailable(c, w, u)
    <3>1. {u} \notin G
      BY <1>3, <2>2
    <3> QED BY <2>2, <3>1 DEF Kind, Kinds
  <2> QED BY <2>1, <2>2
<1> QED BY <1>1, <1>2, <1>3, <1>4

LEMMA MailStep ==
  ASSUME PairingConstants, MailInv, [Next]_vars, SnapshotInv'
  PROVE  MailInv'
<1>1. CASE publication' = publication /\ mail' = mail
  BY <1>1 DEF MailInv, MailTellsTheSnapshot
<1>2. ASSUME NEW c \in Circles, PublishStep(c) PROVE MailInv'
  <2> DEFINE w == Current
  <2>1. w \in Cycles /\ ~publication[c][w].published /\ Publish(c, w) /\ Shape
    BY <1>2 DEF PublishStep, Unpublished, MailInv, SnapshotInv, Typed
  <2> HIDE DEF w
  <2>2. PICK G \in Divisions(Participants(c, w)) :
          /\ publication'[c][w] = Publication(c, w, G)
          /\ \A d \in Circles, v \in Cycles : <<d, v>> # <<c, w>> => publication'[d][v] = publication[d][v]
          /\ mail' \in {mail, mail \cup Intents(c, w, G)}
          /\ c = Primary => mail' = mail \cup Intents(c, w, G)
    BY <2>1, StoredPublication
  <2>3. publication'[c][w].members = Eligible(c) /\ publication'[c][w].groups = G
    BY <2>2 DEF Publication
  <2>4. ASSUME NEW m \in mail
        PROVE  /\ <<m[1], m[2]>> # <<c, w>> /\ publication'[m[1]][m[2]] = publication[m[1]][m[2]]
               /\ m[1] \in Circles /\ m[2] \in Cycles
               /\ m[3] \in publication[m[1]][m[2]].members
               /\ (m[4] = "unavailable") = (m[3] \notin UNION publication[m[1]][m[2]].groups)
    <3>1. m[1] \in Circles /\ m[2] \in Cycles
      BY DEF MailInv
    <3>2. /\ m[3] \in publication[m[1]][m[2]].members
          /\ (m[4] = "unavailable") = (m[3] \notin UNION publication[m[1]][m[2]].groups)
      BY DEF MailInv, MailTellsTheSnapshot
    <3>3. publication[c][w].members = {}
      BY <2>1 DEF MailInv, SnapshotInv, BegunWithRow
    <3> QED BY <2>2, <3>1, <3>2, <3>3
  <2>5. mail' \subseteq Circles \X Cycles \X Users \X Kinds
    BY <2>1, <2>2, IntentOf DEF MailInv
  <2>6. ASSUME NEW m \in mail'
        PROVE  /\ m[3] \in publication'[m[1]][m[2]].members
               /\ (m[4] = "unavailable") = (m[3] \notin UNION publication'[m[1]][m[2]].groups)
               /\ \A n \in mail' : <<n[1], n[2], n[3]>> = <<m[1], m[2], m[3]>> => n = m
    <3>1. CASE m \in mail
      <4>1. ASSUME NEW n \in mail', <<n[1], n[2], n[3]>> = <<m[1], m[2], m[3]>> PROVE n = m
        <5>1. n \in mail
          <6>1. ASSUME n \in Intents(c, w, G) PROVE FALSE
            <7>1. n[1] = c /\ n[2] = w
              BY <2>1, <6>1, IntentOf
            <7> QED BY <2>4, <3>1, <4>1, <7>1
          <6> QED BY <2>2, <6>1
        <5> QED BY <3>1, <4>1, <5>1 DEF MailInv, MailTellsTheSnapshot
      <4> QED BY <2>4, <3>1, <4>1
    <3>2. CASE m \in Intents(c, w, G)
      <4>1. /\ m[1] = c /\ m[2] = w /\ m[3] \in Eligible(c) /\ m[4] = Kind(c, w, m[3], G)
            /\ m \in Circles \X Cycles \X Users \X Kinds
            /\ (m[4] = "unavailable") = (m[3] \notin UNION G)
        BY <2>1, <3>2, IntentOf
      <4>2. ASSUME NEW n \in mail', <<n[1], n[2], n[3]>> = <<m[1], m[2], m[3]>> PROVE n = m
        <5>1. n \in Intents(c, w, G)
          BY <2>2, <2>4, <4>1, <4>2
        <5>2. n[4] = Kind(c, w, n[3], G) /\ n \in Circles \X Cycles \X Users \X Kinds
          BY <2>1, <5>1, IntentOf
        <5> QED BY <4>1, <4>2, <5>2
      <4> QED BY <2>3, <4>1, <4>2
    <3> QED BY <2>2, <3>1, <3>2
  <2>7. ASSUME NEW v \in Cycles, NEW u \in publication'[Primary][v].members
        PROVE  \E m \in mail' : m[1] = Primary /\ m[2] = v /\ m[3] = u
    <3>1. CASE <<Primary, v>> = <<c, w>>
      <4>1. <<c, w, u, Kind(c, w, u, G)>> \in mail'
        BY <2>2, <2>3, <2>7, <3>1 DEF Intents
      <4> QED BY <3>1, <4>1
    <3>2. CASE <<Primary, v>> # <<c, w>>
      <4>1. publication'[Primary][v] = publication[Primary][v]
        BY <2>2, <3>2 DEF PairingConstants
      <4>2. PICK m \in mail : m[1] = Primary /\ m[2] = v /\ m[3] = u
        BY <2>7, <4>1 DEF MailInv, MailTellsTheSnapshot
      <4> QED BY <2>2, <4>2
    <3> QED BY <3>1, <3>2
  <2> QED BY <2>5, <2>6, <2>7 DEF MailInv, MailTellsTheSnapshot
<1>3. (publication' = publication /\ mail' = mail) \/ \E c \in Circles : PublishStep(c)
  BY Stored DEF MailInv, SnapshotInv
<1> QED BY <1>1, <1>2, <1>3

(* Every member of a published cycle is told at most one thing, the one the *)
(* stored groups say; nobody else is told; the primary circle tells all.    *)
THEOREM MailAgrees == ASSUME PairingConstants PROVE Spec => []MailTellsTheSnapshot
<1>1. Init => MailTellsTheSnapshot /\ mail \subseteq Circles \X Cycles \X Users \X Kinds
  BY DEF Init, MailTellsTheSnapshot, None, PairingConstants
<1>2. SnapshotInv /\ Init => MailInv
  BY <1>1 DEF MailInv
<1>3. MailInv /\ [Next]_vars /\ SnapshotInv' => MailInv'
  BY MailStep
<1>4. MailInv => MailTellsTheSnapshot
  BY DEF MailInv
<1> QED BY <1>2, <1>3, <1>4, SnapshotAlways, PTL DEF Spec

-----------------------------------------------------------------------------
(* Types, and what ties the tables together.                                *)

OwnersAreMembers == \A c \in Circles : owner[c] \subseteq member[c]
WithinTheYear == now \in 0..((LastCycle + 1) * Length)
SnapshotsCover ==
  \A c \in Circles, w \in Cycles : LET p == publication[c][w] IN
    /\ DOMAIN p.snapshot = p.members
    /\ UNION p.groups = {u \in p.members : p.snapshot[u].available}

TypeInv == JobInv /\ OwnersAreMembers /\ WithinTheYear /\ SnapshotsCover

LEMMA OwnersStep ==
  ASSUME PairingConstants, Typed, OwnersAreMembers, [Next]_vars PROVE OwnersAreMembers'
<1> USE DEF Typed
<1>1. CASE owner' = owner /\ member' = member
  BY <1>1 DEF OwnersAreMembers
<1>2. CASE UNCHANGED vars
  BY <1>1, <1>2 DEF vars, availabilityVars, pairingVars
<1>3. CASE CircleStep
  <2>1. \A m \in Moving : m[1] \in Users /\ m[2] \in Circles
    BY DEF PairingConstants
  <2>2. /\ member \in [Circles -> SUBSET Users] /\ owner \in [Circles -> SUBSET Users]
        /\ \A c \in Circles : owner[c] \subseteq member[c]
    BY DEF Shape, OwnersAreMembers
  <2>3. ASSUME NEW u \in Users, NEW c \in Circles, Join(u, c) PROVE OwnersAreMembers'
    BY <2>2, <2>3 DEF Join, pairingVars, OwnersAreMembers
  <2>4. ASSUME NEW u \in Users, NEW c \in Circles, Leave(u, c) PROVE OwnersAreMembers'
    BY <2>2, <2>4 DEF Leave, OwnersAreMembers
  <2>5. ASSUME NEW u \in Users, NEW c \in Circles, Promote(u, c) PROVE OwnersAreMembers'
    BY <2>2, <2>5 DEF Promote, availabilityVars, OwnersAreMembers
  <2>6. ASSUME NEW u \in Users, NEW c \in Circles, Demote(u, c) PROVE OwnersAreMembers'
    BY <2>2, <2>6 DEF Demote, availabilityVars, OwnersAreMembers
  <2>7. ASSUME NEW c \in Circles, Archive(c) PROVE OwnersAreMembers'
    BY <2>2, <2>7 DEF Archive, OwnersAreMembers
  <2> QED BY <1>3, <2>1, <2>3, <2>4, <2>5, <2>6, <2>7 DEF CircleStep
<1>4. CASE JobStep
  BY <1>1, <1>4, JobTyped DEF JobStep, availabilityVars
<1>5. ASSUME NEW u \in Users, AccountStep(u) \/ Erase(u) PROVE OwnersAreMembers'
  <2>1. CASE AccountStep(u)
    BY <1>1, <2>1 DEF AccountStep, Lock, Unlock, pairingVars
  <2>2. CASE Erase(u)
    BY <2>2 DEF Erase, OwnersAreMembers
  <2> QED BY <1>5, <2>1, <2>2
<1>6. CASE Tick \/ \E t \in Tabs : ReadStep(t)
  BY <1>1, <1>6 DEF Tick, ReadStep, Look, Refuse, pairingVars
<1>7. CASE \E t \in Tabs, choice \in BOOLEAN, heard \in BOOLEAN : SaveStep(t, choice, heard)
  BY <1>1, <1>7 DEF SaveStep, Save, pairingVars
<1>8. CASE \E c \in Circles : PublishStep(c)
  BY <1>1, <1>8 DEF PublishStep, Publish
<1> QED BY <1>2, <1>3, <1>4, <1>5, <1>6, <1>7, <1>8, StepCases

LEMMA ClockStep ==
  ASSUME PairingConstants, Typed, WithinTheYear, [Next]_vars PROVE WithinTheYear'
<1>1. CASE now' = now
  BY <1>1 DEF WithinTheYear
<1>2. CASE Tick
  <2>1. (LastCycle + 1) * Length \in Nat /\ now \in Nat
    BY DEF PairingConstants, Typed, Shape
  <2> DEFINE L == (LastCycle + 1) * Length
  <2>2. now < L - 1 /\ now' = now + 1
    BY <1>2 DEF Tick
  <2> HIDE DEF L
  <2>3. now' \in 0..L
    BY <2>1, <2>2 DEF L
  <2> QED BY <2>3 DEF L, WithinTheYear
<1>3. now' # now => Tick
  BY DEF Next, MemberSteps, Look, Save, Refuse, Lock, Unlock, Membership, Join, Leave, Promote,
         Demote, Archive, Erase, EraseRows, Recover, Publish, StartJob, EndJob, KillJob,
         JobPublishes, JobFindsIt, JobFails, availabilityVars, vars
<1> QED BY <1>1, <1>2, <1>3

LEMMA CoverStep ==
  ASSUME PairingConstants, Typed, SnapshotsCover, [Next]_vars PROVE SnapshotsCover'
<1>1. CASE publication' = publication
  BY <1>1 DEF SnapshotsCover
<1>2. ASSUME NEW c \in Circles, PublishStep(c) PROVE SnapshotsCover'
  <2> DEFINE w == Current
  <2>1. w \in Cycles /\ Publish(c, w) /\ Shape
    BY <1>2 DEF PublishStep, Typed
  <2> HIDE DEF w
  <2>2. PICK G \in Divisions(Participants(c, w)) :
          /\ publication'[c][w] = Publication(c, w, G)
          /\ \A d \in Circles, v \in Cycles : <<d, v>> # <<c, w>> => publication'[d][v] = publication[d][v]
    BY <2>1, StoredPublication
  <2>3. /\ publication'[c][w].members = Eligible(c) /\ publication'[c][w].groups = G
        /\ publication'[c][w].snapshot = [u \in Eligible(c) |-> Decided(c, w, u)]
    BY <2>2 DEF Publication
  <2>4. UNION G = {u \in Eligible(c) : Decided(c, w, u).available}
    BY DivisionsCover DEF Participants, Decided
  <2> QED BY <2>2, <2>3, <2>4 DEF SnapshotsCover
<1> QED BY <1>1, <1>2, Stored

(* The stored rows have their types, an owner is a member, and a snapshot   *)
(* covers the members it was taken of, whose available ones are its groups. *)
THEOREM PairingTyped == ASSUME PairingConstants PROVE Spec => []TypeOK
<1>1. Init => TypeInv
  <2>1. Init => OwnersAreMembers /\ WithinTheYear /\ SnapshotsCover
    <3> SUFFICES ASSUME Init PROVE OwnersAreMembers /\ WithinTheYear /\ SnapshotsCover
      OBVIOUS
    <3>1. OwnersAreMembers
      BY DEF Init, AvailabilityInit, OwnersAreMembers, PairingConstants
    <3>2. WithinTheYear
      <4>1. (LastCycle + 1) * Length \in Nat
        BY DEF PairingConstants
      <4> QED BY <4>1 DEF Init, AvailabilityInit, WithinTheYear
    <3>3. SnapshotsCover
      <4>1. DOMAIN None.snapshot = None.members /\ None.members = {} /\ None.groups = {}
        BY DEF None
      <4>2. \A c \in Circles, w \in Cycles : publication[c][w] = None
        BY DEF Init
      <4> QED BY <4>1, <4>2 DEF SnapshotsCover
    <3> QED BY <3>1, <3>2, <3>3
  <2>2. Init => JobInv
    BY InitTyped DEF Init, Idle, JobInv, Accounted
  <2> QED BY <2>1, <2>2 DEF TypeInv
<1>2. TypeInv /\ [Next]_vars => TypeInv'
  BY NextTyped, AccountedStep, OwnersStep, ClockStep, CoverStep DEF TypeInv, JobInv
<1>3. TypeInv => TypeOK
  <2> SUFFICES ASSUME TypeInv PROVE TypeOK
    OBVIOUS
  <2>1. Shape /\ OwnersAreMembers /\ WithinTheYear /\ SnapshotsCover /\ job.todo \subseteq job.listed
    BY DEF TypeInv, JobInv, Typed, Accounted
  <2>2. job.stage \in {"idle", "primary", "others", "200", "503"}
    BY <2>1 DEF Shape, Jobs
  <2>3. \A c \in Circles, w \in Cycles : publication[c][w].snapshot \in Snapshots
    BY <2>1 DEF Shape, Publications
  <2> QED BY <2>1, <2>2, <2>3 DEF Shape, OwnersAreMembers, WithinTheYear, SnapshotsCover, TypeOK, Decisions
<1> QED BY <1>1, <1>2, <1>3, PTL DEF Spec

-----------------------------------------------------------------------------
(* Invitations, the waiting list and registrations.                          *)

(* An instance of a module names its own copy of Cardinality.               *)
LEMMA JoiningCounts == ASSUME NEW S PROVE Joining!Cardinality(S) = Cardinality(S)
BY Zenon DEF Joining!Cardinality, Cardinality

InvitationRows == [email : Emails \cup {Nobody}, token : 0..MaxSends, sends : 0..MaxSends,
       state : {"none", "live", "expired", "used", "revoked"}, by : Emails \cup {Nobody}]
RequestRows    == [email : Emails \cup {Nobody}, invitation : Ids \cup {0},
       status : {"none", "pending", "overdue", "approved", "declined", "expired", "forgotten", "purged"}]
ActivationRows == [state : {"none", "open", "lapsed", "used"}, token : 0..MaxActivations,
       password : Passwords \cup {Nobody}]

(* A token counts the letters sent, or the row alone where no mail is sent;  *)
(* who used an invitation is who it was for.                                 *)
InvitationsSound ==
  /\ invitation \in [Ids -> InvitationRows]
  /\ \A i \in Ids :
       /\ invitation[i].state # "none" =>
            /\ invitation[i].email \in Emails
            /\ invitation[i].token = IF invitation[i].sends = 0 THEN 1 ELSE invitation[i].sends
       /\ invitation[i].state = "none" => invitation[i].token = 0
       /\ invitation[i].state = "used" => invitation[i].by = invitation[i].email
       /\ invitation[i].state # "used" => invitation[i].by = Nobody

(* A row that holds an address was approved with at most one invitation,     *)
(* which is of that address and of no other row, and waits alone.            *)
Waits(r) == asked[r].status \in {"pending", "overdue"}

RequestsSound ==
  /\ asked \in [Requests -> RequestRows]
  /\ \A r \in Requests :
       /\ asked[r].status \notin {"none", "purged"} => asked[r].email \in Emails
       /\ asked[r].status = "approved" => asked[r].invitation # 0
       /\ asked[r].invitation # 0 =>
            /\ invitation[asked[r].invitation].state # "none"
            /\ invitation[asked[r].invitation].email = asked[r].email
  /\ \A r, q \in Requests : r # q =>
       /\ Waits(r) /\ Waits(q) => asked[r].email # asked[q].email
       /\ asked[r].invitation = asked[q].invitation => asked[r].invitation = 0

LEMMA Constants ==
  ASSUME Joining!InvitationsConstants
  PROVE  /\ MaxSends \in Nat \ {0} /\ MaxActivations \in Nat \ {0} /\ MaxDays \in Nat
         /\ DailyLimit \in Nat \ {0} /\ GlobalLimit \in Nat \ {0}
         /\ Nobody \notin Emails /\ Nobody \notin Passwords /\ Nobody # "google" /\ "google" \notin Passwords
         /\ Known \subseteq Emails /\ 0 \notin Ids
<1>1. 0 \notin 1..Cardinality(Ids)
  OBVIOUS
<1> QED BY <1>1, JoiningCounts DEF Joining!InvitationsConstants

-----------------------------------------------------------------------------
(* What a step does to the invitations, the accounts and the members.        *)

Born(i, e) == invitation[i].state = "none" /\ Joining!Inserted(i, e)
Rotated(i) == Joining!IsLive(i) /\ invitation[i].sends \in 1..(MaxSends - 1)
              /\ invitation' = [invitation EXCEPT ![i].token = @ + 1, ![i].sends = @ + 1]
Ended(i)   == \/ invitation[i].state \in {"live", "expired"}
                 /\ invitation' = [invitation EXCEPT ![i].state = "revoked"]
              \/ Joining!IsLive(i) /\ invitation' = [invitation EXCEPT ![i].state = "expired"]

OpensLink(i) ==
  /\ <<i, activation[i].token>> \in letters /\ activation[i].state = "open"
  /\ Joining!IsLive(i) /\ opened[invitation[i].email] = Nobody
  /\ Joining!Admit(i, invitation[i].email, activation[i].password)
OpensGoogle(i) ==
  /\ Joining!IsLive(i) /\ opened[invitation[i].email] = Nobody /\ Joining!Admit(i, invitation[i].email, "google")
Joins(i) ==
  /\ opened[invitation[i].email] # Nobody /\ Joining!MayAccept(i, invitation[i].email)
  /\ Joining!Admit(i, invitation[i].email, opened[invitation[i].email])

LEMMA EntrySteps ==
  ASSUME RequestsSound, [Joining!Next]_(Joining!vars)
  PROVE  \/ UNCHANGED <<invitation, Joining!people>>
         \/ \E i \in Ids, e \in Emails : Born(i, e) /\ UNCHANGED Joining!people
         \/ \E i \in Ids : (Rotated(i) \/ Ended(i)) /\ UNCHANGED Joining!people
         \/ \E i \in Ids : OpensLink(i) \/ OpensGoogle(i) \/ Joins(i)
         \/ \E e \in Emails : Joining!ChangeMember(e)
<1>1. CASE UNCHANGED Joining!vars
  BY <1>1 DEF Joining!vars, Joining!people
<1>2. ASSUME NEW o \in Owners, NEW e \in Emails, Joining!Create(o, e) \/ Joining!CreateNext(o, e)
      PROVE \E i \in Ids : Born(i, e) /\ UNCHANGED Joining!people
  BY <1>2 DEF Joining!Create, Joining!CreateNext, Born, Joining!Fresh, Joining!people
<1>3. ASSUME NEW o \in Owners, (\E S \in SUBSET Emails : Joining!StartBulk(o, S)) \/ Joining!StopBulk(o) \/ Joining!StepDown(o)
      PROVE UNCHANGED <<invitation, Joining!people>>
  BY <1>3 DEF Joining!StartBulk, Joining!StopBulk, Joining!StepDown, Joining!people
<1>4. ASSUME NEW o \in Owners, NEW i \in Ids, Joining!Resend(o, i) \/ Joining!Revoke(o, i)
      PROVE (Rotated(i) \/ Ended(i)) /\ UNCHANGED Joining!people
  BY <1>4 DEF Joining!Resend, Joining!Revoke, Rotated, Ended, Joining!people
<1>5. ASSUME NEW o \in Owners, NEW r \in Requests, Joining!Approve(o, r)
      PROVE \E i \in Ids, e \in Emails : Born(i, e) /\ UNCHANGED Joining!people
  <2>1. asked[r].email \in Emails
    BY <1>5 DEF Joining!Approve, RequestsSound
  <2> QED BY <1>5, <2>1 DEF Joining!Approve, Born, Joining!Fresh, Joining!people
<1>6. ASSUME NEW o \in Owners, NEW r \in Requests, Joining!Decline(o, r) PROVE UNCHANGED <<invitation, Joining!people>>
  BY <1>6 DEF Joining!Decline, Joining!people
<1>7. ASSUME NEW e \in Emails, Joining!Submit(e) PROVE UNCHANGED <<invitation, Joining!people>>
  BY <1>7 DEF Joining!Submit, Joining!people
<1>8. ASSUME NEW r \in Requests, Joining!CloseOverdue(r) \/ Joining!Purge(r) PROVE UNCHANGED <<invitation, Joining!people>>
  BY <1>8 DEF Joining!CloseOverdue, Joining!Purge, Joining!people
<1>9. ASSUME NEW c \in Joining!Claims, (\E p \in Passwords : Joining!Register(c, p)) \/ Joining!ResendActivation(c)
      PROVE UNCHANGED <<invitation, Joining!people>>
  BY <1>9 DEF Joining!Register, Joining!ResendActivation, Joining!people
<1>10. ASSUME NEW c \in Joining!Claims, Joining!CreateGoogle(c) \/ Joining!Accept(c)
       PROVE \E i \in Ids : OpensGoogle(i) \/ Joins(i)
  <2>1. c[1] \in Ids
    BY DEF Joining!Claims
  <2> QED BY <1>10, <2>1 DEF Joining!CreateGoogle, Joining!Accept, OpensGoogle, Joins
<1>11. ASSUME NEW i \in Ids, Joining!DeliverActivation(i) PROVE UNCHANGED <<invitation, Joining!people>>
  BY <1>11 DEF Joining!DeliverActivation, Joining!people
<1>12. ASSUME NEW i \in Ids, NEW n \in 1..MaxActivations, Joining!Verify(i, n) PROVE OpensLink(i)
  BY <1>12 DEF Joining!Verify, OpensLink
<1>13. CASE Joining!Lapse
  BY <1>13 DEF Joining!Lapse, Ended, Joining!people
<1>14. CASE Joining!NextDay
  BY <1>14 DEF Joining!NextDay, Joining!people
<1> QED BY <1>1, <1>2, <1>3, <1>4, <1>5, <1>6, <1>7, <1>8, <1>9, <1>10, <1>11, <1>12, <1>13, <1>14 DEF Joining!Next

-----------------------------------------------------------------------------
(* Invitations.                                                              *)

LEMMA InvitationsSoundStay ==
  ASSUME Joining!InvitationsConstants, RequestsSound, InvitationsSound, [Joining!Next]_(Joining!vars) PROVE InvitationsSound'
<1> USE Constants
<1> DEFINE Row == InvitationRows
<1>1. invitation \in [Ids -> Row]
  BY DEF InvitationsSound
<1>2. CASE UNCHANGED invitation
  BY <1>2 DEF InvitationsSound
<1>3. ASSUME NEW i \in Ids, NEW r \in Row, invitation' = [invitation EXCEPT ![i] = r],
             /\ r.state # "none"
             /\ r.email \in Emails /\ r.token = IF r.sends = 0 THEN 1 ELSE r.sends
             /\ r.state = "used" => r.by = r.email
             /\ r.state # "used" => r.by = Nobody
      PROVE InvitationsSound'
  BY <1>1, <1>3 DEF InvitationsSound
<1>4. ASSUME NEW i \in Ids, NEW e \in Emails, Born(i, e) PROVE InvitationsSound'
  <2>1. PICK sends \in {0, 1} : invitation' = [invitation EXCEPT ![i] =
               [email |-> e, state |-> "live", token |-> 1, sends |-> sends, by |-> Nobody]]
    BY <1>4 DEF Born, Joining!Inserted
  <2> DEFINE r == [email |-> e, state |-> "live", token |-> 1, sends |-> sends, by |-> Nobody]
  <2>2. /\ r \in Row /\ r.state = "live" /\ r.email = e /\ r.token = 1 /\ r.sends = sends /\ r.by = Nobody
    BY DEF InvitationRows
  <2> HIDE DEF r
  <2> QED BY <1>3, <2>1, <2>2 DEF r
<1>5. ASSUME NEW i \in Ids, Rotated(i) PROVE InvitationsSound'
  <2> DEFINE r == [invitation[i] EXCEPT !.token = @ + 1, !.sends = @ + 1]
  <2>1. /\ invitation[i] \in Row /\ invitation[i].sends \in 1..(MaxSends - 1)
        /\ invitation[i].state = "live"
    BY <1>1, <1>5 DEF Rotated, Joining!IsLive
  <2>2. invitation[i].sends # 0 /\ invitation[i].sends + 1 \in 1..MaxSends
    BY <2>1
  <2>3. /\ invitation[i].token = invitation[i].sends
        /\ invitation[i].email \in Emails /\ invitation[i].by = Nobody
    BY <2>1, <2>2 DEF InvitationsSound
  <2>4. invitation' = [invitation EXCEPT ![i] = r]
    BY <1>1, <1>5 DEF Rotated
  <2>5. /\ r.state = invitation[i].state /\ r.email = invitation[i].email /\ r.by = invitation[i].by
        /\ r.token = invitation[i].token + 1 /\ r.sends = invitation[i].sends + 1
    BY <2>1 DEF InvitationRows
  <2>6. invitation[i].token + 1 \in 0..MaxSends /\ invitation[i].sends + 1 \in 0..MaxSends
    BY <2>2, <2>3
  <2>7. r \in Row
    BY <2>1, <2>6 DEF InvitationRows
  <2>8. r.sends # 0 /\ r.token = r.sends
    BY <2>1, <2>3, <2>5
  <2> HIDE DEF r
  <2> QED BY <1>3, <2>1, <2>3, <2>4, <2>5, <2>7, <2>8
<1>6. ASSUME NEW i \in Ids, NEW s \in {"revoked", "expired"}, invitation[i].state \in {"live", "expired"},
             invitation' = [invitation EXCEPT ![i].state = s]
      PROVE InvitationsSound'
  <2> DEFINE r == [invitation[i] EXCEPT !.state = s]
  <2>1. invitation' = [invitation EXCEPT ![i] = r] /\ invitation[i] \in Row
    BY <1>1, <1>6
  <2>2. /\ r \in Row /\ r.state = s /\ r.email = invitation[i].email /\ r.by = invitation[i].by
        /\ r.token = invitation[i].token /\ r.sends = invitation[i].sends
    BY <2>1 DEF InvitationRows
  <2> HIDE DEF r
  <2> QED BY <1>3, <1>6, <2>1, <2>2 DEF InvitationsSound
<1>7. ASSUME NEW i \in Ids, NEW e, NEW w, e = invitation[i].email, invitation[i].state # "none", Joining!Admit(i, e, w)
      PROVE InvitationsSound'
  <2> DEFINE r == [invitation[i] EXCEPT !.state = "used", !.by = e]
  <2>1. invitation' = [invitation EXCEPT ![i] = r] /\ invitation[i] \in Row /\ e \in Emails
    BY <1>1, <1>7 DEF Joining!Admit, InvitationsSound
  <2>2. /\ r \in Row /\ r.state = "used" /\ r.email = e /\ r.by = e
        /\ r.token = invitation[i].token /\ r.sends = invitation[i].sends
    BY <1>7, <2>1 DEF InvitationRows
  <2> HIDE DEF r
  <2> QED BY <1>3, <1>7, <2>1, <2>2 DEF InvitationsSound
<1>8. ASSUME NEW i \in Ids, Ended(i) PROVE InvitationsSound'
  BY <1>6, <1>8 DEF Ended, Joining!IsLive
<1>9. ASSUME NEW i \in Ids, OpensLink(i) \/ OpensGoogle(i) \/ Joins(i) PROVE InvitationsSound'
  BY <1>7, <1>9 DEF OpensLink, OpensGoogle, Joins, Joining!MayAccept, Joining!IsLive
<1> QED BY <1>2, <1>4, <1>5, <1>8, <1>9, EntrySteps DEF Joining!ChangeMember

(* What is settled of an invitation stays so, and its tokens only grow.      *)
Moves(i) ==
  /\ invitation'[i].token >= invitation[i].token
  /\ invitation[i].state # "none" =>
       invitation'[i].state # "none" /\ invitation'[i].email = invitation[i].email
  /\ invitation[i].state \in {"used", "revoked"} =>
       invitation'[i].state = invitation[i].state /\ invitation'[i].by = invitation[i].by

LEMMA InvitationsMove ==
  ASSUME Joining!InvitationsConstants, RequestsSound, InvitationsSound, [Joining!Next]_(Joining!vars), NEW j \in Ids PROVE Moves(j)
<1> USE Constants
<1>1. /\ invitation \in [Ids -> InvitationRows]
      /\ \A i \in Ids : invitation[i].token \in Nat
  BY DEF InvitationsSound, InvitationRows
<1>2. CASE UNCHANGED invitation
  BY <1>1, <1>2 DEF Moves
<1>3. ASSUME NEW i \in Ids, NEW e \in Emails, Born(i, e) PROVE Moves(j)
  BY <1>1, <1>3 DEF Born, Joining!Inserted, Moves, InvitationsSound
<1>4. ASSUME NEW i \in Ids, Rotated(i) PROVE Moves(j)
  <2>1. /\ invitation'[i].token = invitation[i].token + 1 /\ invitation'[i].state = invitation[i].state
        /\ invitation'[i].email = invitation[i].email /\ invitation[i].state = "live"
        /\ \A k \in Ids : k # i => invitation'[k] = invitation[k]
    BY <1>1, <1>4 DEF Rotated, Joining!IsLive, InvitationRows
  <2> QED BY <1>1, <2>1 DEF Moves
<1>5. ASSUME NEW i \in Ids, Ended(i) PROVE Moves(j)
  <2>1. /\ invitation'[i].token = invitation[i].token /\ invitation'[i].state # "none"
        /\ invitation'[i].email = invitation[i].email /\ invitation[i].state \in {"live", "expired"}
        /\ \A k \in Ids : k # i => invitation'[k] = invitation[k]
    BY <1>1, <1>5 DEF Ended, Joining!IsLive, InvitationRows
  <2> QED BY <1>1, <2>1 DEF Moves
<1>6. ASSUME NEW i \in Ids, OpensLink(i) \/ OpensGoogle(i) \/ Joins(i) PROVE Moves(j)
  <2>1. /\ invitation'[i].token = invitation[i].token /\ invitation'[i].state = "used"
        /\ invitation'[i].email = invitation[i].email /\ invitation'[i].by = invitation[i].email
        /\ invitation[i].state \in {"live", "used"}
        /\ \A k \in Ids : k # i => invitation'[k] = invitation[k]
    BY <1>1, <1>6 DEF OpensLink, OpensGoogle, Joins, Joining!Admit, Joining!MayAccept, Joining!IsLive, InvitationRows
  <2> QED BY <1>1, <2>1 DEF Moves, InvitationsSound
<1> QED BY <1>2, <1>3, <1>4, <1>5, <1>6, EntrySteps DEF Joining!ChangeMember

-----------------------------------------------------------------------------
(* The waiting list.                                                         *)

LEMMA RequestSteps ==
  ASSUME [Joining!Next]_(Joining!vars)
  PROVE  \/ UNCHANGED asked
         \/ \E o \in Owners, r \in Requests : Joining!Approve(o, r)
         \/ \E e \in Emails : Joining!Submit(e)
         \/ \E r \in Requests, s \in {"declined", "expired", "overdue", "forgotten"} :
              /\ asked[r].status \notin {"none", "purged"}
              /\ s = "overdue" => asked[r].status = "pending"
              /\ asked' = [asked EXCEPT ![r].status = s]
         \/ \E r \in Requests : asked' = [asked EXCEPT ![r] = [Joining!NoRequest EXCEPT !.status = "purged"]]
<1> USE DEF Joining!waiting
<1>1. CASE UNCHANGED Joining!vars
  BY <1>1 DEF Joining!vars
<1>2. ASSUME NEW o \in Owners,
             \/ \E e \in Emails : Joining!Create(o, e) \/ Joining!CreateNext(o, e)
             \/ (\E S \in SUBSET Emails : Joining!StartBulk(o, S)) \/ Joining!StopBulk(o) \/ Joining!StepDown(o)
             \/ \E i \in Ids : Joining!Resend(o, i) \/ Joining!Revoke(o, i)
      PROVE UNCHANGED asked
  BY <1>2 DEF Joining!Create, Joining!CreateNext, Joining!StartBulk, Joining!StopBulk, Joining!StepDown, Joining!Resend, Joining!Revoke
<1>3. ASSUME NEW c \in Joining!Claims, \/ \E p \in Passwords : Joining!Register(c, p)
                                       \/ Joining!ResendActivation(c) \/ Joining!CreateGoogle(c) \/ Joining!Accept(c)
      PROVE UNCHANGED asked
  BY <1>3 DEF Joining!Register, Joining!ResendActivation, Joining!CreateGoogle, Joining!Accept
<1>4. ASSUME NEW i \in Ids, Joining!DeliverActivation(i) \/ \E n \in 1..MaxActivations : Joining!Verify(i, n)
      PROVE UNCHANGED asked
  BY <1>4 DEF Joining!DeliverActivation, Joining!Verify
<1>5. ASSUME NEW e \in Emails, Joining!ChangeMember(e) PROVE UNCHANGED asked
  BY <1>5 DEF Joining!ChangeMember
<1>6. CASE Joining!NextDay
  BY <1>6 DEF Joining!NextDay
<1>7. ASSUME NEW o \in Owners, NEW r \in Requests, Joining!Decline(o, r)
      PROVE asked[r].status = "pending" /\ asked' = [asked EXCEPT ![r].status = "declined"]
  BY <1>7 DEF Joining!Decline
<1>8. ASSUME NEW r \in Requests, Joining!CloseOverdue(r)
      PROVE asked[r].status = "overdue" /\ asked' = [asked EXCEPT ![r].status = "expired"]
  BY <1>8 DEF Joining!CloseOverdue
<1>9. ASSUME NEW r \in Requests, Joining!Purge(r)
      PROVE asked' = [asked EXCEPT ![r] = [Joining!NoRequest EXCEPT !.status = "purged"]]
  BY <1>9 DEF Joining!Purge
<1>10. CASE Joining!Lapse
  <2>1. \/ UNCHANGED asked
        \/ \E r \in Requests : asked[r].status = "pending" /\ asked' = [asked EXCEPT ![r].status = "overdue"]
        \/ \E r \in Requests : asked[r].status \in {"approved", "declined", "expired"}
                               /\ asked' = [asked EXCEPT ![r].status = "forgotten"]
    BY <1>10 DEF Joining!Lapse
  <2> QED BY <2>1
<1> QED BY <1>1, <1>2, <1>3, <1>4, <1>5, <1>6, <1>7, <1>8, <1>9, <1>10 DEF Joining!Next

LEMMA RequestsSoundStay ==
  ASSUME Joining!InvitationsConstants, RequestsSound, InvitationsSound, [Joining!Next]_(Joining!vars) PROVE RequestsSound'
<1> USE Constants
<1> DEFINE Row == RequestRows
<1>1. asked \in [Requests -> Row] /\ invitation \in [Ids -> InvitationRows]
  BY DEF RequestsSound, InvitationsSound
<1>2. \A i \in Ids : invitation[i].state # "none" =>
         invitation'[i].state # "none" /\ invitation'[i].email = invitation[i].email
  BY InvitationsMove DEF Moves
<1>3. \A r \in Requests : asked[r].invitation \in Ids \cup {0}
  BY <1>1 DEF RequestRows
(* A row keeps its address and its invitation, and waits only if it did.     *)
<1>4. ASSUME asked' \in [Requests -> Row],
             \A r \in Requests :
               \/ /\ asked'[r].email = asked[r].email /\ asked'[r].invitation = asked[r].invitation
                  /\ asked'[r].status \in {"pending", "overdue"} => Waits(r)
                  /\ asked'[r].status \notin {"none", "purged"} => asked[r].status \notin {"none", "purged"}
                  /\ asked'[r].status = "approved" => asked[r].status = "approved"
               \/ asked'[r].invitation = 0 /\ asked'[r].status = "purged"
      PROVE RequestsSound'
  BY <1>1, <1>2, <1>3, <1>4 DEF RequestsSound, Waits
<1>5. CASE UNCHANGED asked
  BY <1>1, <1>4, <1>5 DEF Waits
<1>6. ASSUME NEW o \in Owners, NEW r \in Requests, Joining!Approve(o, r) PROVE RequestsSound'
  <2> DEFINE e == asked[r].email
  <2>1. PICK i \in Ids : /\ invitation[i].state = "none" /\ Joining!Inserted(i, e) /\ asked[r].status = "pending"
                         /\ asked' = [asked EXCEPT ![r].status = "approved", ![r].invitation = i]
    BY <1>6 DEF Joining!Approve, Joining!Fresh
  <2>2. /\ asked'[r].email = e /\ asked'[r].status = "approved" /\ asked'[r].invitation = i
        /\ asked'[r] \in Row
        /\ \A q \in Requests : q # r => asked'[q] = asked[q]
    BY <1>1, <2>1 DEF RequestRows
  <2>3. invitation'[i].state = "live" /\ invitation'[i].email = e
    BY <1>1, <2>1 DEF Joining!Inserted
  <2>4. e \in Emails
    BY <2>1 DEF RequestsSound
  <2>5. \A q \in Requests : asked[q].invitation # i
    BY <2>1 DEF RequestsSound
  <2>6. asked' \in [Requests -> Row]
    BY <1>1, <2>1, <2>2
  <2> HIDE DEF e
  <2> QED BY <1>1, <1>2, <1>3, <2>1, <2>2, <2>3, <2>4, <2>5, <2>6 DEF RequestsSound, Waits
<1>7. ASSUME NEW e \in Emails, Joining!Submit(e) PROVE RequestsSound'
  <2>1. \A r \in Requests :
          /\ Joining!Closed(e)[r] \in Row /\ Joining!Closed(e)[r].email = asked[r].email
          /\ Joining!Closed(e)[r].invitation = asked[r].invitation
          /\ \/ Joining!Closed(e)[r].status = asked[r].status
             \/ Joining!Closed(e)[r].status = "expired" /\ asked[r].status = "overdue"
    BY <1>1 DEF Joining!Closed, RequestRows
  <2>2. Joining!Closed(e) \in [Requests -> Row]
    BY <2>1 DEF Joining!Closed
  <2>3. CASE asked' = Joining!Closed(e)
    BY <1>4, <2>1, <2>2, <2>3 DEF Waits
  <2>4. ASSUME NEW r \in Requests, asked[r].status = "none", Joining!Eligible(e),
               asked' = [Joining!Closed(e) EXCEPT ![r] = [Joining!NoRequest EXCEPT !.email = e, !.status = "pending"]]
        PROVE RequestsSound'
    <3> DEFINE n == [Joining!NoRequest EXCEPT !.email = e, !.status = "pending"]
    <3>1. n \in Row /\ n.email = e /\ n.status = "pending" /\ n.invitation = 0
      BY DEF Joining!NoRequest, RequestRows
    <3> HIDE DEF n
    <3>2. /\ asked' \in [Requests -> Row] /\ asked'[r] = n
          /\ \A q \in Requests : q # r => asked'[q] = Joining!Closed(e)[q]
      BY <2>2, <2>4, <3>1 DEF n
    <3>3. \A q \in Requests : Joining!Closed(e)[q].email = e => Joining!Closed(e)[q].status \notin {"pending", "overdue"}
      BY <2>4 DEF Joining!Eligible
    <3> QED BY <1>1, <1>2, <1>3, <2>1, <3>1, <3>2, <3>3 DEF RequestsSound, Waits
  <2> QED BY <1>7, <2>3, <2>4 DEF Joining!Submit, Joining!Fresh
<1>8. ASSUME NEW r \in Requests, NEW s \in {"declined", "expired", "overdue", "forgotten"},
             asked[r].status \notin {"none", "purged"}, s = "overdue" => asked[r].status = "pending",
             asked' = [asked EXCEPT ![r].status = s]
      PROVE RequestsSound'
  <2>1. /\ asked'[r].email = asked[r].email /\ asked'[r].invitation = asked[r].invitation
        /\ asked'[r].status = s /\ asked'[r] \in Row
        /\ \A q \in Requests : q # r => asked'[q] = asked[q]
    BY <1>1, <1>8 DEF RequestRows
  <2>2. asked' \in [Requests -> Row]
    BY <1>1, <1>8, <2>1
  <2> QED BY <1>4, <1>8, <2>1, <2>2 DEF Waits
<1>9. ASSUME NEW r \in Requests, asked' = [asked EXCEPT ![r] = [Joining!NoRequest EXCEPT !.status = "purged"]]
      PROVE RequestsSound'
  <2> DEFINE n == [Joining!NoRequest EXCEPT !.status = "purged"]
  <2>1. n \in Row /\ n.status = "purged" /\ n.invitation = 0
    BY DEF Joining!NoRequest, RequestRows
  <2>2. asked' = [asked EXCEPT ![r] = n]
    BY <1>9
  <2> HIDE DEF n
  <2>3. /\ asked' \in [Requests -> Row] /\ asked'[r] = n
        /\ \A q \in Requests : q # r => asked'[q] = asked[q]
    BY <1>1, <2>1, <2>2
  <2> QED BY <1>4, <2>1, <2>3 DEF Waits
<1> QED BY <1>5, <1>6, <1>7, <1>8, <1>9, RequestSteps

-----------------------------------------------------------------------------
(* Registrations and their letters.                                          *)

(* The letter of a token was sent for the password that was chosen then; the *)
(* row has the last one.                                                     *)
RegistrationsSound ==
  /\ activation \in [Ids -> ActivationRows] /\ letters \subseteq Ids \X (1..MaxActivations)
  /\ meant \in [Ids -> Seq(Passwords)]
  /\ \A i \in Ids :
       /\ Len(meant[i]) = activation[i].token
       /\ activation[i].state # "none" =>
            activation[i].token >= 1 /\ activation[i].password = meant[i][activation[i].token]
       /\ activation[i].state = "used" => invitation[i].state = "used"

LEMMA RegistrationSteps ==
  ASSUME [Joining!Next]_(Joining!vars)
  PROVE  \/ UNCHANGED Joining!registration
         \/ \E i \in Ids, p \in Passwords : Joining!MayRegister(i)
              /\ activation' = [activation EXCEPT ![i] = Joining!Registered(i, p)]
              /\ meant' = [meant EXCEPT ![i] = Append(@, p)] /\ letters' = letters
         \/ \E i \in Ids : activation[i].state # "none" /\ Joining!MayRegister(i)
              /\ activation' = [activation EXCEPT ![i].state = "open", ![i].token = @ + 1]
              /\ meant' = [meant EXCEPT ![i] = Append(@, @[Len(@)])] /\ letters' = letters
         \/ \E i \in Ids : Joining!DeliverActivation(i)
         \/ \E i \in Ids : OpensLink(i) /\ letters' = letters /\ meant' = meant
              /\ activation' = [activation EXCEPT ![i].state = "used"]
         \/ \E i \in Ids : activation[i].state = "open" /\ letters' = letters /\ meant' = meant
              /\ activation' = [activation EXCEPT ![i].state = "lapsed"]
<1> USE DEF Joining!registration
<1>1. CASE UNCHANGED Joining!vars
  BY <1>1 DEF Joining!vars
<1>2. ASSUME NEW o \in Owners,
             \/ \E e \in Emails : Joining!Create(o, e) \/ Joining!CreateNext(o, e)
             \/ (\E S \in SUBSET Emails : Joining!StartBulk(o, S)) \/ Joining!StopBulk(o) \/ Joining!StepDown(o)
             \/ \E i \in Ids : Joining!Resend(o, i) \/ Joining!Revoke(o, i)
             \/ \E r \in Requests : Joining!Approve(o, r) \/ Joining!Decline(o, r)
      PROVE UNCHANGED Joining!registration
  BY <1>2 DEF Joining!Create, Joining!CreateNext, Joining!StartBulk, Joining!StopBulk, Joining!StepDown, Joining!Resend, Joining!Revoke, Joining!Approve, Joining!Decline
<1>3. ASSUME NEW e \in Emails, Joining!Submit(e) \/ Joining!ChangeMember(e) PROVE UNCHANGED Joining!registration
  BY <1>3 DEF Joining!Submit, Joining!ChangeMember
<1>4. ASSUME NEW r \in Requests, Joining!CloseOverdue(r) \/ Joining!Purge(r) PROVE UNCHANGED Joining!registration
  BY <1>4 DEF Joining!CloseOverdue, Joining!Purge
<1>5. ASSUME NEW c \in Joining!Claims, Joining!CreateGoogle(c) \/ Joining!Accept(c) PROVE UNCHANGED Joining!registration
  BY <1>5 DEF Joining!CreateGoogle, Joining!Accept
<1>6. CASE Joining!NextDay
  BY <1>6 DEF Joining!NextDay
<1>7. CASE Joining!Lapse
  BY <1>7 DEF Joining!Lapse
<1>8. ASSUME NEW c \in Joining!Claims, NEW p \in Passwords, Joining!Register(c, p)
      PROVE \E i \in Ids : Joining!MayRegister(i)
              /\ activation' = [activation EXCEPT ![i] = Joining!Registered(i, p)]
              /\ meant' = [meant EXCEPT ![i] = Append(@, p)] /\ letters' = letters
  BY <1>8 DEF Joining!Register, Joining!Claims
<1>9. ASSUME NEW c \in Joining!Claims, Joining!ResendActivation(c)
      PROVE \E i \in Ids : activation[i].state # "none" /\ Joining!MayRegister(i)
              /\ activation' = [activation EXCEPT ![i].state = "open", ![i].token = @ + 1]
              /\ meant' = [meant EXCEPT ![i] = Append(@, @[Len(@)])] /\ letters' = letters
  BY <1>9 DEF Joining!ResendActivation, Joining!Claims
<1>10. ASSUME NEW i \in Ids, NEW n \in 1..MaxActivations, Joining!Verify(i, n)
       PROVE OpensLink(i) /\ letters' = letters /\ meant' = meant
              /\ activation' = [activation EXCEPT ![i].state = "used"]
  BY <1>10 DEF Joining!Verify, OpensLink
<1> QED BY <1>1, <1>2, <1>3, <1>4, <1>5, <1>6, <1>7, <1>8, <1>9, <1>10 DEF Joining!Next

LEMMA RegistrationsSoundStay ==
  ASSUME Joining!InvitationsConstants, RequestsSound, InvitationsSound, RegistrationsSound, [Joining!Next]_(Joining!vars)
  PROVE  RegistrationsSound'
<1> USE Constants
<1> DEFINE Row == ActivationRows
<1>1. /\ activation \in [Ids -> Row] /\ meant \in [Ids -> Seq(Passwords)]
      /\ letters \subseteq Ids \X (1..MaxActivations)
  BY DEF RegistrationsSound
<1>2. \A i \in Ids : invitation[i].state = "used" => invitation'[i].state = "used"
  BY InvitationsMove DEF Moves
<1>3. CASE UNCHANGED Joining!registration
  BY <1>2, <1>3 DEF RegistrationsSound, Joining!registration
(* One row is written, with the password its last letter was sent for.       *)
<1>4. ASSUME NEW i \in Ids, NEW r \in Row, NEW q \in Seq(Passwords),
             activation' = [activation EXCEPT ![i] = r], meant' = [meant EXCEPT ![i] = q], letters' = letters,
             Len(q) = r.token, r.token >= 1, r.password = q[r.token],
             r.state = "used" => invitation'[i].state = "used"
      PROVE RegistrationsSound'
  BY <1>1, <1>2, <1>4 DEF RegistrationsSound
<1>5. ASSUME NEW i \in Ids, NEW p \in Passwords, Joining!MayRegister(i),
              activation' = [activation EXCEPT ![i] = Joining!Registered(i, p)],
              meant' = [meant EXCEPT ![i] = Append(@, p)], letters' = letters
      PROVE RegistrationsSound'
  <2> DEFINE r == Joining!Registered(i, p)
             q == Append(meant[i], p)
  <2>1. /\ activation[i].token \in 0..MaxActivations /\ activation[i].token < MaxActivations
        /\ Len(meant[i]) = activation[i].token /\ meant[i] \in Seq(Passwords)
    BY <1>1, <1>5 DEF Joining!MayRegister, ActivationRows, RegistrationsSound
  <2>2. /\ r.token = activation[i].token + 1 /\ r.state = "open" /\ r.password = p
        /\ activation[i].token + 1 \in 0..MaxActivations
    BY <2>1 DEF Joining!Registered
  <2>3. r \in Row
    BY <2>2 DEF Joining!Registered, ActivationRows
  <2>4. q \in Seq(Passwords) /\ Len(q) = Len(meant[i]) + 1 /\ q[Len(meant[i]) + 1] = p
    BY <2>1, AppendProperties
  <2>5. meant' = [meant EXCEPT ![i] = q] /\ activation' = [activation EXCEPT ![i] = r]
    BY <1>5
  <2> HIDE DEF r, q
  <2>6. Len(q) = r.token /\ r.token >= 1 /\ r.password = q[r.token] /\ r.state # "used"
    BY <2>1, <2>2, <2>4
  <2> QED BY <1>4, <1>5, <2>3, <2>4, <2>5, <2>6
<1>6. ASSUME NEW i \in Ids, activation[i].state # "none", Joining!MayRegister(i),
              activation' = [activation EXCEPT ![i].state = "open", ![i].token = @ + 1],
              meant' = [meant EXCEPT ![i] = Append(@, @[Len(@)])], letters' = letters
      PROVE RegistrationsSound'
  <2> DEFINE r == [activation[i] EXCEPT !.state = "open", !.token = @ + 1]
             p == meant[i][Len(meant[i])]
             q == Append(meant[i], p)
  <2>1. /\ activation[i] \in Row /\ activation[i].token \in 1..MaxActivations /\ activation[i].token < MaxActivations
        /\ Len(meant[i]) = activation[i].token /\ meant[i] \in Seq(Passwords)
        /\ activation[i].password = p
    BY <1>1, <1>6 DEF Joining!MayRegister, ActivationRows, RegistrationsSound
  <2>2. p \in Passwords
    BY <2>1, ElementOfSeq
  <2>3. activation[i].token + 1 \in 0..MaxActivations
    BY <2>1
  <2>4. r \in Row /\ r.token = activation[i].token + 1 /\ r.state = "open" /\ r.password = activation[i].password
    BY <2>1, <2>3 DEF ActivationRows
  <2>5. activation' = [activation EXCEPT ![i] = r]
    BY <1>1, <1>6
  <2>6. meant' = [meant EXCEPT ![i] = q]
    BY <1>6
  <2> HIDE DEF p
  <2>7. q \in Seq(Passwords) /\ Len(q) = Len(meant[i]) + 1 /\ q[Len(meant[i]) + 1] = p
    BY <2>1, <2>2, AppendProperties
  <2> HIDE DEF r, q
  <2>8. Len(q) = r.token /\ r.token >= 1 /\ r.password = q[r.token] /\ r.state # "used"
    BY <2>1, <2>4, <2>7
  <2> QED BY <1>4, <1>6, <2>4, <2>5, <2>6, <2>7, <2>8
<1>7. ASSUME NEW i \in Ids, Joining!DeliverActivation(i) PROVE RegistrationsSound'
  <2>1. activation[i].token \in 1..MaxActivations
    BY <1>1, <1>7 DEF Joining!DeliverActivation, RegistrationsSound, ActivationRows
  <2>2. letters' \subseteq Ids \X (1..MaxActivations) /\ activation' = activation /\ meant' = meant
    BY <1>1, <1>7, <2>1 DEF Joining!DeliverActivation
  <2> QED BY <1>2, <2>2 DEF RegistrationsSound
<1>8. ASSUME NEW i \in Ids, NEW s \in {"used", "lapsed"}, activation[i].state = "open",
              letters' = letters, meant' = meant, activation' = [activation EXCEPT ![i].state = s],
              s = "used" => invitation'[i].state = "used"
      PROVE RegistrationsSound'
  <2> DEFINE r == [activation[i] EXCEPT !.state = s]
  <2>1. /\ activation[i] \in Row /\ Len(meant[i]) = activation[i].token /\ meant[i] \in Seq(Passwords)
        /\ activation[i].token >= 1 /\ activation[i].password = meant[i][activation[i].token]
    BY <1>1, <1>8 DEF RegistrationsSound
  <2>2. activation' = [activation EXCEPT ![i] = r] /\ meant' = [meant EXCEPT ![i] = meant[i]]
    BY <1>1, <1>8
  <2>3. r \in Row /\ r.token = activation[i].token /\ r.state = s /\ r.password = activation[i].password
    BY <2>1 DEF ActivationRows
  <2> HIDE DEF r
  <2> QED BY <1>4, <1>8, <2>1, <2>2, <2>3
<1>9. ASSUME NEW i \in Ids, OpensLink(i) PROVE invitation'[i].state = "used"
  BY <1>9 DEF OpensLink, Joining!Admit, InvitationsSound, InvitationRows
<1> QED BY <1>3, <1>5, <1>6, <1>7, <1>8, <1>9, RegistrationSteps DEF OpensLink

-----------------------------------------------------------------------------
(* Accounts and members.                                                     *)

PeopleSound ==
  /\ opened \in [Emails -> Passwords \cup {Nobody, "google"}]
  /\ admitted \in [Emails -> {"none", "active", "inactive"}]
  /\ \A i \in Ids : invitation[i].state = "used" =>
       opened[invitation[i].email] # Nobody /\ admitted[invitation[i].email] # "none"
  /\ \A e \in Emails :
       /\ admitted[e] # "none" =>
            opened[e] # Nobody /\ \E i \in Ids : invitation[i].state = "used" /\ invitation[i].email = e
       /\ e \notin Known /\ opened[e] # Nobody => admitted[e] # "none"

Sound == RequestsSound /\ InvitationsSound /\ RegistrationsSound /\ PeopleSound

(* Whoever is admitted, by whichever way, had an invitation for the address. *)
LEMMA AdmittedIs ==
  ASSUME Joining!InvitationsConstants, Sound, NEW i \in Ids, OpensLink(i) \/ OpensGoogle(i) \/ Joins(i)
  PROVE  LET e == invitation[i].email IN
         \E w \in Passwords \cup {"google"} :
         /\ e \in Emails /\ w # Nobody
         /\ opened' = [opened EXCEPT ![e] = w] /\ admitted' = [admitted EXCEPT ![e] = "active"]
         /\ invitation'[i].state = "used" /\ invitation'[i].email = e /\ invitation'[i].by = e
         /\ opened[e] # Nobody => w = opened[e]
         /\ Joining!IsLive(i) \/ w = opened[e]
         /\ admitted[e] # "inactive"
         /\ w \in Passwords /\ opened[e] = Nobody => OpensLink(i)
<1> USE Constants
<1> DEFINE e == invitation[i].email
<1>1. /\ invitation \in [Ids -> InvitationRows] /\ opened \in [Emails -> Passwords \cup {Nobody, "google"}]
      /\ invitation[i].state \in {"live", "used"} /\ e \in Emails
  BY DEF Sound, InvitationsSound, PeopleSound, OpensLink, OpensGoogle, Joins, Joining!MayAccept, Joining!IsLive
<1>2. admitted[e] = "inactive" => opened[e] # Nobody
  BY <1>1 DEF Sound, PeopleSound
<1>3. ASSUME NEW w, Joining!Admit(i, e, w)
      PROVE  /\ opened' = [opened EXCEPT ![e] = w] /\ admitted' = [admitted EXCEPT ![e] = "active"]
             /\ invitation'[i].state = "used" /\ invitation'[i].email = e /\ invitation'[i].by = e
  BY <1>1, <1>3 DEF Joining!Admit, InvitationRows
<1>4. CASE OpensLink(i)
  <2>1. activation[i].password \in Passwords
    <3>1. /\ activation[i].token \in 1..Len(meant[i]) /\ meant[i] \in Seq(Passwords)
          /\ activation[i].password = meant[i][activation[i].token]
      BY <1>4 DEF OpensLink, Sound, RegistrationsSound, ActivationRows
    <3> QED BY <3>1, ElementOfSeq
  <2> QED BY <1>1, <1>2, <1>3, <1>4, <2>1 DEF OpensLink
<1>5. CASE OpensGoogle(i)
  BY <1>1, <1>2, <1>3, <1>5 DEF OpensGoogle
<1>6. CASE Joins(i)
  BY <1>1, <1>2, <1>3, <1>6 DEF Joins, Joining!MayAccept
<1> QED BY <1>4, <1>5, <1>6

LEMMA PeopleSoundStay ==
  ASSUME Joining!InvitationsConstants, Sound, [Joining!Next]_(Joining!vars) PROVE PeopleSound'
<1> USE Constants
<1>1. /\ RequestsSound /\ InvitationsSound /\ PeopleSound /\ InvitationsSound'
      /\ opened \in [Emails -> Passwords \cup {Nobody, "google"}]
      /\ admitted \in [Emails -> {"none", "active", "inactive"}]
  BY InvitationsSoundStay DEF Sound, PeopleSound
<1>2. \A i \in Ids : invitation[i].state = "used" =>
         invitation'[i].state = "used" /\ invitation'[i].email = invitation[i].email
  BY <1>1, InvitationsMove DEF Moves
(* Nobody was admitted: what is used was used before.                        *)
<1>3. ASSUME \A i \in Ids : invitation'[i].state = "used" => invitation[i].state = "used",
             opened' = opened, admitted' \in [Emails -> {"none", "active", "inactive"}],
             \A e \in Emails : admitted'[e] = "none" <=> admitted[e] = "none"
      PROVE PeopleSound'
  <2>1. \A i \in Ids : invitation'[i].state = "used" =>
          /\ invitation'[i].email = invitation[i].email /\ invitation[i].email \in Emails
          /\ opened[invitation[i].email] # Nobody /\ admitted[invitation[i].email] # "none"
    BY <1>1, <1>2, <1>3 DEF PeopleSound, InvitationsSound
  <2>2. \A i \in Ids : invitation'[i].state = "used" =>
          opened'[invitation'[i].email] # Nobody /\ admitted'[invitation'[i].email] # "none"
    BY <1>3, <2>1
  <2>3. \A e \in Emails : admitted'[e] # "none" =>
          opened'[e] # Nobody /\ \E i \in Ids : invitation'[i].state = "used" /\ invitation'[i].email = e
    <3> SUFFICES ASSUME NEW e \in Emails, admitted'[e] # "none"
                 PROVE  opened'[e] # Nobody /\ \E i \in Ids : invitation'[i].state = "used" /\ invitation'[i].email = e
      OBVIOUS
    <3>1. admitted[e] # "none"
      BY <1>3
    <3>2. PICK i \in Ids : invitation[i].state = "used" /\ invitation[i].email = e
      BY <1>1, <3>1 DEF PeopleSound
    <3>3. opened[e] # Nobody
      BY <1>1, <3>1 DEF PeopleSound
    <3> QED BY <1>2, <1>3, <3>2, <3>3
  <2>4. \A e \in Emails : e \notin Known /\ opened'[e] # Nobody => admitted'[e] # "none"
    BY <1>1, <1>3 DEF PeopleSound
  <2>5. opened' \in [Emails -> Passwords \cup {Nobody, "google"}]
    BY <1>1, <1>3
  <2> QED BY <1>3, <2>2, <2>3, <2>4, <2>5 DEF PeopleSound
<1>4. CASE UNCHANGED <<invitation, Joining!people>>
  BY <1>1, <1>3, <1>4 DEF Joining!people
<1>5. ASSUME NEW j \in Ids, (\E e \in Emails : Born(j, e)) \/ Rotated(j) \/ Ended(j), UNCHANGED Joining!people
      PROVE PeopleSound'
  <2>1. invitation \in [Ids -> InvitationRows]
    BY <1>1 DEF InvitationsSound
  <2>2. /\ \A i \in Ids : i # j => invitation'[i] = invitation[i]
        /\ invitation'[j].state # "used"
    BY <1>5, <2>1 DEF Born, Joining!Inserted, Rotated, Ended, Joining!IsLive, InvitationRows
  <2> QED BY <1>1, <1>3, <1>5, <2>2 DEF Joining!people
<1>6. ASSUME NEW e \in Emails, Joining!ChangeMember(e) PROVE PeopleSound'
  <2>1. /\ invitation' = invitation /\ opened' = opened /\ admitted[e] # "none"
        /\ \A d \in Emails : d # e => admitted'[d] = admitted[d]
        /\ admitted'[e] \in {"active", "inactive"}
        /\ admitted' \in [Emails -> {"none", "active", "inactive"}]
    BY <1>1, <1>6 DEF Joining!ChangeMember
  <2> QED BY <1>3, <2>1
<1>7. ASSUME NEW j \in Ids, OpensLink(j) \/ OpensGoogle(j) \/ Joins(j) PROVE PeopleSound'
  <2> DEFINE e == invitation[j].email
  <2>1. PICK w \in Passwords \cup {"google"} :
          /\ e \in Emails /\ w # Nobody
          /\ opened' = [opened EXCEPT ![e] = w] /\ admitted' = [admitted EXCEPT ![e] = "active"]
          /\ invitation'[j].state = "used" /\ invitation'[j].email = e
    BY <1>7, AdmittedIs
  <2>2. \A i \in Ids : i # j => invitation'[i] = invitation[i]
    BY <1>1, <1>7 DEF OpensLink, OpensGoogle, Joins, Joining!Admit, InvitationsSound
  <2> HIDE DEF e
  <2>3. /\ \A d \in Emails : opened'[d] = (IF d = e THEN w ELSE opened[d])
        /\ \A d \in Emails : admitted'[d] = (IF d = e THEN "active" ELSE admitted[d])
        /\ opened' \in [Emails -> Passwords \cup {Nobody, "google"}]
        /\ admitted' \in [Emails -> {"none", "active", "inactive"}]
    BY <1>1, <2>1
  <2>4. \A i \in Ids : invitation'[i].state = "used" =>
          opened'[invitation'[i].email] # Nobody /\ admitted'[invitation'[i].email] # "none"
    <3> SUFFICES ASSUME NEW i \in Ids, invitation'[i].state = "used"
                 PROVE  opened'[invitation'[i].email] # Nobody /\ admitted'[invitation'[i].email] # "none"
      OBVIOUS
    <3>1. CASE i = j
      BY <2>1, <2>3, <3>1
    <3>2. CASE i # j
      <4>1. /\ invitation'[i] = invitation[i] /\ invitation[i].email \in Emails
            /\ opened[invitation[i].email] # Nobody /\ admitted[invitation[i].email] # "none"
        BY <1>1, <2>2, <3>2 DEF PeopleSound, InvitationsSound
      <4> QED BY <2>1, <2>3, <4>1
    <3> QED BY <3>1, <3>2
  <2>5. \A d \in Emails : admitted'[d] # "none" =>
          opened'[d] # Nobody /\ \E i \in Ids : invitation'[i].state = "used" /\ invitation'[i].email = d
    <3> SUFFICES ASSUME NEW d \in Emails, admitted'[d] # "none"
                 PROVE  opened'[d] # Nobody /\ \E i \in Ids : invitation'[i].state = "used" /\ invitation'[i].email = d
      OBVIOUS
    <3>1. CASE d = e
      BY <2>1, <2>3, <3>1
    <3>2. CASE d # e
      BY <1>1, <1>2, <2>3, <3>2 DEF PeopleSound
    <3> QED BY <3>1, <3>2
  <2>6. \A d \in Emails : d \notin Known /\ opened'[d] # Nobody => admitted'[d] # "none"
    BY <1>1, <2>3 DEF PeopleSound
  <2> QED BY <2>3, <2>4, <2>5, <2>6 DEF PeopleSound
<1> QED BY <1>1, <1>4, <1>5, <1>6, <1>7, EntrySteps

-----------------------------------------------------------------------------
(* The invariant of every behaviour.                                         *)

LEMMA SoundAtFirst == ASSUME Joining!InvitationsConstants, Joining!Init PROVE Sound
<1> USE Constants DEF Joining!Init
<1>1. RequestsSound
  BY DEF RequestsSound, RequestRows, Joining!NoRequest, Waits
<1>2. InvitationsSound
  BY DEF InvitationsSound, InvitationRows, Joining!Unborn
<1>3. RegistrationsSound
  <2>1. <<>> \in Seq(Passwords) /\ Len(<<>>) = 0
    BY EmptySeq
  <2>2. meant \in [Ids -> Seq(Passwords)] /\ \A i \in Ids : Len(meant[i]) = 0
    BY <2>1
  <2>3. activation \in [Ids -> ActivationRows]
    BY DEF ActivationRows, Joining!NoActivation
  <2> QED BY <2>2, <2>3 DEF RegistrationsSound, Joining!NoActivation
<1>4. PeopleSound
  BY DEF PeopleSound, Joining!Unborn
<1> QED BY <1>1, <1>2, <1>3, <1>4 DEF Sound

LEMMA SoundStays == ASSUME Joining!InvitationsConstants, Sound, [Joining!Next]_(Joining!vars) PROVE Sound'
BY InvitationsSoundStay, RequestsSoundStay, RegistrationsSoundStay, PeopleSoundStay DEF Sound

LEMMA AlwaysSound == ASSUME Joining!InvitationsConstants PROVE Joining!Spec => []Sound
<1>1. Joining!Init => Sound
  BY SoundAtFirst
<1>2. Sound /\ [Joining!Next]_(Joining!vars) => Sound'
  BY SoundStays
<1> QED BY <1>1, <1>2, PTL DEF Joining!Spec

(* The owners, their bulk requests and the two daily windows.                *)
WindowsSound ==
  /\ owners \subseteq Owners /\ spent \in 0..DailyLimit /\ stored \in 0..GlobalLimit
  /\ bulk \in [Owners -> SUBSET Emails] /\ days \in 0..MaxDays

LEMMA WindowsSoundStay ==
  ASSUME Joining!InvitationsConstants, WindowsSound, [Joining!Next]_(Joining!vars) PROVE WindowsSound'
<1> USE Constants DEF WindowsSound
<1> DEFINE windows == <<owners, spent, stored, bulk, days>>
<1>1. CASE UNCHANGED windows
  BY <1>1
<1>2. CASE UNCHANGED Joining!vars
  BY <1>2 DEF Joining!vars, Joining!waiting
<1>3. ASSUME NEW o \in Owners, NEW e \in Emails, Joining!Create(o, e) \/ Joining!CreateNext(o, e) PROVE WindowsSound'
  <2>1. spent \in 0..DailyLimit /\ spent < DailyLimit /\ spent' = spent + 1
    BY <1>3 DEF Joining!Create, Joining!CreateNext, Joining!Reserve
  <2>2. spent' \in 0..DailyLimit
    BY <2>1
  <2>3. bulk' = bulk \/ bulk' = [bulk EXCEPT ![o] = @ \ {e}]
    BY <1>3 DEF Joining!Create, Joining!CreateNext
  <2>4. bulk' \in [Owners -> SUBSET Emails]
    BY <2>3
  <2>5. owners' = owners /\ stored' = stored /\ days' = days
    BY <1>3 DEF Joining!Create, Joining!CreateNext, Joining!waiting
  <2> QED BY <2>2, <2>4, <2>5
<1>4. ASSUME NEW o \in Owners, NEW S \in SUBSET Emails, Joining!StartBulk(o, S) PROVE WindowsSound'
  BY <1>4 DEF Joining!StartBulk, Joining!waiting
<1>5. ASSUME NEW o \in Owners, Joining!StopBulk(o) \/ Joining!StepDown(o) PROVE WindowsSound'
  BY <1>5 DEF Joining!StopBulk, Joining!StepDown, Joining!waiting
<1>6. ASSUME NEW o \in Owners, \/ \E i \in Ids : Joining!Resend(o, i) \/ Joining!Revoke(o, i)
                               \/ \E r \in Requests : Joining!Approve(o, r) \/ Joining!Decline(o, r)
      PROVE UNCHANGED windows
  BY <1>6 DEF Joining!Resend, Joining!Revoke, Joining!Approve, Joining!Decline, Joining!waiting
<1>7. ASSUME NEW e \in Emails, Joining!Submit(e) PROVE WindowsSound'
  <2>1. stored \in 0..GlobalLimit /\ stored < GlobalLimit /\ (stored' = stored + 1 \/ stored' = stored)
    BY <1>7 DEF Joining!Submit
  <2>2. stored' \in 0..GlobalLimit
    BY <2>1
  <2>3. owners' = owners /\ spent' = spent /\ bulk' = bulk /\ days' = days
    BY <1>7 DEF Joining!Submit
  <2> QED BY <2>2, <2>3
<1>8. ASSUME NEW e \in Emails, Joining!ChangeMember(e) PROVE UNCHANGED windows
  BY <1>8 DEF Joining!ChangeMember, Joining!waiting
<1>9. ASSUME NEW r \in Requests, Joining!CloseOverdue(r) \/ Joining!Purge(r) PROVE UNCHANGED windows
  BY <1>9 DEF Joining!CloseOverdue, Joining!Purge
<1>10. ASSUME NEW c \in Joining!Claims, \/ \E p \in Passwords : Joining!Register(c, p)
                                        \/ Joining!ResendActivation(c) \/ Joining!CreateGoogle(c) \/ Joining!Accept(c)
       PROVE UNCHANGED windows
  BY <1>10 DEF Joining!Register, Joining!ResendActivation, Joining!CreateGoogle, Joining!Accept, Joining!waiting
<1>11. ASSUME NEW i \in Ids, Joining!DeliverActivation(i) \/ \E n \in 1..MaxActivations : Joining!Verify(i, n)
       PROVE UNCHANGED windows
  BY <1>11 DEF Joining!DeliverActivation, Joining!Verify, Joining!waiting
<1>12. CASE Joining!Lapse
  BY <1>12 DEF Joining!Lapse
<1>13. CASE Joining!NextDay
  BY <1>13 DEF Joining!NextDay
<1> HIDE DEF windows, WindowsSound
<1> QED BY <1>1, <1>2, <1>3, <1>4, <1>5, <1>6, <1>7, <1>8, <1>9, <1>10, <1>11, <1>12, <1>13 DEF Joining!Next

(* The daily limits, the letters of an invitation and those of a             *)
(* registration are never passed, and every row is one the tables hold.      *)
THEOREM InvitationsTyped == ASSUME Joining!InvitationsConstants PROVE Joining!Spec => []Joining!TypeOK
<1>1. Joining!Init => WindowsSound
  BY Constants DEF Joining!Init, WindowsSound
<1>2. WindowsSound /\ [Joining!Next]_(Joining!vars) => WindowsSound'
  BY WindowsSoundStay
<1>3. Sound /\ WindowsSound => Joining!TypeOK
  BY DEF Sound, WindowsSound, RequestsSound, InvitationsSound, RegistrationsSound, PeopleSound, Joining!TypeOK,
         RequestRows, InvitationRows, ActivationRows
<1> QED BY <1>1, <1>2, <1>3, AlwaysSound, PTL DEF Joining!Spec

(* Account, membership and invitation come together or not at all, a used    *)
(* link is one of a used invitation, and a request waits once and is         *)
(* approved with an invitation of its own (api/_invite-requests.js:321).     *)
THEOREM AdmissionsAreAlwaysWhole == ASSUME Joining!InvitationsConstants PROVE Joining!Spec => []Joining!AdmissionsAreWhole
<1>1. ASSUME Sound PROVE Joining!AdmissionsAreWhole
  <2> USE <1>1, Constants DEF Sound
  <2>1. ASSUME NEW i \in Ids, invitation[i].state = "used"
        PROVE  /\ invitation[i].by = invitation[i].email
               /\ opened[invitation[i].by] # Nobody /\ admitted[invitation[i].by] # "none"
    BY <2>1 DEF InvitationsSound, PeopleSound
  <2>2. ASSUME NEW e \in Emails, admitted[e] # "none"
        PROVE  opened[e] # Nobody /\ \E i \in Ids : invitation[i].by = e
    <3>1. PICK i \in Ids : invitation[i].state = "used" /\ invitation[i].email = e
      BY <2>2 DEF PeopleSound
    <3>2. invitation[i].by = e
      BY <3>1 DEF InvitationsSound
    <3> QED BY <2>2, <3>2 DEF PeopleSound
  <2>3. \A e \in Emails : e \notin Known /\ opened[e] # Nobody => admitted[e] # "none"
    BY DEF PeopleSound
  <2>4. \A i \in Ids : activation[i].state = "used" => invitation[i].state = "used"
    BY DEF RegistrationsSound
  <2>5. ASSUME NEW r \in Requests, NEW q \in Requests
        PROVE  /\ r # q /\ asked[r].email = asked[q].email /\ asked[r].status \in {"pending", "overdue"}
                    => asked[q].status \notin {"pending", "overdue"}
               /\ asked[r].status = "approved" =>
                    /\ asked[r].invitation \in Ids
                    /\ invitation[asked[r].invitation].email = asked[r].email
                    /\ asked[q].invitation = asked[r].invitation => q = r
    BY DEF RequestsSound, Waits, RequestRows
  <2> HIDE DEF Sound
  <2> QED BY <2>1, <2>2, <2>3, <2>4, <2>5 DEF Joining!AdmissionsAreWhole
<1> QED BY <1>1, AlwaysSound, PTL

(* An account is made by an invitation that is still good and with the       *)
(* password of the registration whose link was opened; what was used or      *)
(* revoked stays so; who was removed comes back by no invitation             *)
(* (docs/INVITE_GATED_SIGNUP.md, api/_circle-membership.js:365).             *)
THEOREM LinksAreAlwaysHonoured == ASSUME Joining!InvitationsConstants PROVE Joining!Spec => [][Joining!LinksAreHonoured]_(Joining!vars)
<1> DEFINE
     Made == \A e \in Emails : opened'[e] # opened[e] =>
       /\ opened[e] = Nobody
       /\ \E i \in Ids :
            /\ Joining!IsLive(i) /\ invitation[i].email = e /\ invitation'[i].by = e
            /\ opened'[e] \in Passwords =>
                 <<i, Len(meant[i])>> \in letters /\ opened'[e] = meant[i][Len(meant[i])]
     Unmoved == \A i \in Ids :
       /\ invitation'[i].token >= invitation[i].token
       /\ invitation[i].state \in {"used", "revoked"} =>
            invitation'[i].state = invitation[i].state /\ invitation'[i].by = invitation[i].by
     Back == \A e \in Emails : admitted[e] = "inactive" /\ admitted'[e] = "active" => invitation' = invitation
<1>1. ASSUME Joining!InvitationsConstants, Sound, [Joining!Next]_(Joining!vars) PROVE Made /\ Unmoved /\ Back
  <2> USE Constants
  <2>1. /\ RequestsSound /\ InvitationsSound /\ RegistrationsSound
        /\ opened \in [Emails -> Passwords \cup {Nobody, "google"}]
        /\ admitted \in [Emails -> {"none", "active", "inactive"}]
    BY <1>1 DEF Sound, PeopleSound
  <2>2. Unmoved
    BY <1>1, <2>1, InvitationsMove DEF Moves
  <2>3. CASE UNCHANGED Joining!people
    BY <2>1, <2>2, <2>3 DEF Joining!people
  <2>4. ASSUME NEW e \in Emails, Joining!ChangeMember(e) PROVE Made /\ Back
    BY <2>1, <2>4 DEF Joining!ChangeMember
  <2>5. ASSUME NEW i \in Ids, OpensLink(i) \/ OpensGoogle(i) \/ Joins(i) PROVE Made /\ Back
    <3> DEFINE e == invitation[i].email
    <3>1. PICK w \in Passwords \cup {"google"} :
            /\ e \in Emails /\ w # Nobody
            /\ opened' = [opened EXCEPT ![e] = w] /\ admitted' = [admitted EXCEPT ![e] = "active"]
            /\ invitation'[i].by = e
            /\ opened[e] # Nobody => w = opened[e]
            /\ Joining!IsLive(i) \/ w = opened[e]
            /\ admitted[e] # "inactive"
            /\ w \in Passwords /\ opened[e] = Nobody => OpensLink(i)
      BY <1>1, <2>5, AdmittedIs
    <3>2. ASSUME OpensLink(i), w \in Passwords, opened[e] = Nobody
          PROVE  <<i, Len(meant[i])>> \in letters /\ w = meant[i][Len(meant[i])]
      <4>1. /\ Len(meant[i]) = activation[i].token /\ <<i, activation[i].token>> \in letters
            /\ activation[i].password = meant[i][activation[i].token]
        BY <2>1, <3>2 DEF OpensLink, RegistrationsSound
      <4>2. opened'[e] = activation[i].password
        BY <2>1, <3>1, <3>2 DEF OpensLink, Joining!Admit
      <4>3. opened'[e] = w
        BY <2>1, <3>1
      <4> QED BY <4>1, <4>2, <4>3
    <3> HIDE DEF e
    <3>3. Back
      BY <2>1, <3>1
    <3>4. ASSUME NEW d \in Emails, opened'[d] # opened[d]
          PROVE  /\ d = e /\ opened[e] = Nobody /\ Joining!IsLive(i) /\ opened'[e] = w
      BY <2>1, <3>1, <3>4
    <3>5. Made
      BY <3>1, <3>2, <3>4 DEF e
    <3> QED BY <3>3, <3>5
  <2> HIDE DEF Made, Unmoved, Back
  <2>6. UNCHANGED <<invitation, Joining!people>> => UNCHANGED Joining!people
    OBVIOUS
  <2> QED BY <1>1, <2>1, <2>2, <2>3, <2>4, <2>5, EntrySteps
<1>2. Sound /\ [Joining!Next]_(Joining!vars) => [Joining!LinksAreHonoured]_(Joining!vars)
  <2>1. ASSUME Sound, [Joining!Next]_(Joining!vars) PROVE Joining!LinksAreHonoured
    BY <1>1, <2>1 DEF Joining!LinksAreHonoured
  <2> QED BY <2>1
<1> QED BY <1>2, AlwaysSound, PTL DEF Joining!Spec

-----------------------------------------------------------------------------
(* The administrators of the application.                                    *)

LEMMA AdminsStart == ASSUME Flags!AdminsConstants, Flags!Init PROVE Flags!TypeOK
BY DEF Flags!AdminsConstants, Flags!Init, Flags!TypeOK, Flags!Active

(* Every writer of the flag looks at the tombstone in the statement that     *)
(* writes, so what a sign-in read before the deletion does not matter.       *)
LEMMA TypedStays == ASSUME Flags!AdminsConstants, Flags!TypeOK, [Flags!Next]_(Flags!vars) PROVE Flags!TypeOK'
<1> USE DEF Flags!AdminsConstants, Flags!TypeOK, Flags!Active, Flags!memberships
<1>1. CASE UNCHANGED Flags!vars
  BY <1>1 DEF Flags!vars
<1>2. ASSUME NEW a \in Staff, NEW v \in Staff, Flags!Grant(a, v) PROVE Flags!TypeOK'
  BY <1>2 DEF Flags!Grant
<1>3. ASSUME NEW a \in Staff, NEW v \in Staff, Flags!Revoke(a, v) PROVE Flags!TypeOK'
  BY <1>3 DEF Flags!Revoke
<1>4. ASSUME NEW u \in Staff, Flags!SyncConfigured(u) PROVE Flags!TypeOK'
  BY <1>4 DEF Flags!SyncConfigured
<1>5. ASSUME NEW u \in Staff, Flags!Join(u) \/ Flags!Depart(u) \/ Flags!Return(u) PROVE Flags!TypeOK'
  BY <1>5 DEF Flags!Join, Flags!Depart, Flags!Return
<1>6. ASSUME NEW u \in Staff, Flags!EnterElsewhere(u) \/ Flags!DepartElsewhere(u) PROVE Flags!TypeOK'
  BY <1>6 DEF Flags!EnterElsewhere, Flags!DepartElsewhere
<1>7. ASSUME NEW u \in Staff, Flags!Delete(u) PROVE Flags!TypeOK'
  BY <1>7 DEF Flags!Delete
<1>8. ASSUME NEW g \in SignIns, Flags!ReadFlag(g) \/ Flags!GiveUp(g) PROVE Flags!TypeOK'
  BY <1>8 DEF Flags!ReadFlag, Flags!GiveUp
<1>9. ASSUME NEW g \in SignIns, Flags!WriteFlag(g) PROVE Flags!TypeOK'
  BY <1>9 DEF Flags!WriteFlag, Flags!Refreshed
<1> QED BY <1>1, <1>2, <1>3, <1>4, <1>5, <1>6, <1>7, <1>8, <1>9 DEF Flags!Next

(* A sign-in of a configured account is about to give the flag, never to     *)
(* take it.                                                                  *)
SignInsKnowTheConfiguration ==
  \A g \in SignIns : StaffOf[g] \in Configured => signIn[g] # "no flag"

AdminsInv == Flags!TypeOK /\ SignInsKnowTheConfiguration

LEMMA AdminsInvStays == ASSUME Flags!AdminsConstants, AdminsInv, [Flags!Next]_(Flags!vars) PROVE AdminsInv'
<1>1. Flags!TypeOK'
  BY TypedStays DEF AdminsInv
<1>2. SignInsKnowTheConfiguration'
  <2> USE DEF AdminsInv, SignInsKnowTheConfiguration, Flags!TypeOK
  <2>1. CASE UNCHANGED signIn
    BY <2>1
  <2>2. ASSUME NEW g \in SignIns, Flags!ReadFlag(g) \/ Flags!WriteFlag(g) \/ Flags!GiveUp(g) PROVE SignInsKnowTheConfiguration'
    BY <2>2 DEF Flags!ReadFlag, Flags!WriteFlag, Flags!GiveUp
  <2>3. UNCHANGED signIn \/ \E g \in SignIns : Flags!ReadFlag(g) \/ Flags!WriteFlag(g) \/ Flags!GiveUp(g)
    BY DEF Flags!Next, Flags!vars, Flags!Grant, Flags!Revoke, Flags!SyncConfigured, Flags!Join, Flags!Depart, Flags!Return, Flags!EnterElsewhere,
           Flags!DepartElsewhere, Flags!Delete
  <2> QED BY <2>1, <2>2, <2>3
<1> QED BY <1>1, <1>2 DEF AdminsInv

LEMMA AlwaysAdminsInv == ASSUME Flags!AdminsConstants PROVE Flags!Spec => []AdminsInv
<1>1. Flags!Init => AdminsInv
  BY AdminsStart DEF AdminsInv, Flags!Init, SignInsKnowTheConfiguration
<1>2. AdminsInv /\ [Flags!Next]_(Flags!vars) => AdminsInv'
  BY AdminsInvStays
<1> QED BY <1>1, <1>2, PTL DEF Flags!Spec

(* A tombstone is no administrator and no member, whatever sign-in was under *)
(* way when it was made (api/auth.js:1493, the live account in the WHERE).   *)
THEOREM TombstonesAdministerNothing == ASSUME Flags!AdminsConstants PROVE Flags!Spec => []Flags!TypeOK
BY AlwaysAdminsInv, PTL DEF AdminsInv

(* An administrator by configuration keeps the flag while the account lives, *)
(* whatever colleagues revoke and sign-ins write back                        *)
(* (api/_member-lifecycle.js, changeAppAdmin).                               *)
THEOREM ConfiguredStays == ASSUME Flags!AdminsConstants PROVE Flags!Spec => [][Flags!ConfiguredStaysAdmin]_(Flags!vars)
<1>1. ASSUME AdminsInv, Flags!Next PROVE Flags!ConfiguredStaysAdmin
  <2> SUFFICES ASSUME NEW u \in Configured, u \in admin, u \notin deleted' PROVE u \in admin'
    BY DEF Flags!ConfiguredStaysAdmin
  <2>1. ASSUME NEW a \in Staff, NEW v \in Staff, Flags!Revoke(a, v) PROVE u \in admin'
    BY <2>1 DEF Flags!Revoke, Flags!Protected
  <2>2. ASSUME NEW v \in Staff, Flags!Delete(v) PROVE u \in admin'
    BY <2>2 DEF Flags!Delete
  <2>3. ASSUME NEW g \in SignIns, Flags!WriteFlag(g) PROVE u \in admin'
    BY <1>1, <2>3 DEF Flags!WriteFlag, Flags!Refreshed, AdminsInv, SignInsKnowTheConfiguration, Flags!TypeOK
  <2>4. \/ admin \subseteq admin'
        \/ \E a \in Staff, v \in Staff : Flags!Revoke(a, v)
        \/ \E v \in Staff : Flags!Delete(v)
        \/ \E g \in SignIns : Flags!WriteFlag(g)
    BY <1>1 DEF Flags!Next, Flags!Grant, Flags!SyncConfigured, Flags!Join, Flags!Depart, Flags!Return, Flags!EnterElsewhere, Flags!DepartElsewhere,
                Flags!ReadFlag, Flags!GiveUp
  <2> QED BY <2>1, <2>2, <2>3, <2>4
<1>2. AdminsInv /\ [Flags!Next]_(Flags!vars) => [Flags!ConfiguredStaysAdmin]_(Flags!vars)
  BY <1>1
<1> QED BY <1>2, AlwaysAdminsInv, PTL DEF Flags!Spec

(* Concurrent revocations leave an active administrator                      *)
(* (docs/MEMBER_LIFECYCLE.md:139).                                           *)
THEOREM SomebodyAdministers == ASSUME Flags!AdminsConstants PROVE Flags!Spec => [][Flags!RevocationsLeaveAnAdmin]_(Flags!vars)
<1>1. ASSUME AdminsInv, Flags!Next PROVE Flags!RevocationsLeaveAnAdmin
  <2> SUFFICES ASSUME Flags!ActiveAdmins # {}, \A u \in Flags!ActiveAdmins : Flags!Active(u)', signIn' = signIn
               PROVE  Flags!ActiveAdmins' # {}
    BY DEF Flags!RevocationsLeaveAnAdmin
  <2>1. PICK w \in Flags!ActiveAdmins : TRUE
    OBVIOUS
  <2>2. w \in admin /\ Flags!Active(w)' /\ w \in Staff
    BY <1>1, <2>1 DEF Flags!ActiveAdmins, AdminsInv, Flags!TypeOK
  <2>3. CASE admin \subseteq admin'
    BY <2>2, <2>3 DEF Flags!ActiveAdmins
  <2>4. ASSUME NEW a \in Staff, NEW v \in Staff, Flags!Revoke(a, v) PROVE Flags!ActiveAdmins' # {}
    <3>1. PICK x \in Flags!ActiveAdmins : x # v
      BY <2>4 DEF Flags!Revoke, Flags!OtherAdmin
    <3>2. x \in admin' /\ Flags!Active(x)'
      BY <2>4, <3>1 DEF Flags!Revoke, Flags!ActiveAdmins
    <3> QED BY <3>2 DEF Flags!ActiveAdmins
  <2>5. ASSUME NEW v \in Staff, Flags!Delete(v) PROVE Flags!ActiveAdmins' # {}
    <3>1. ~Flags!Active(v)'
      BY <1>1, <2>5 DEF Flags!Delete, Flags!Active
    <3>2. w # v
      BY <2>2, <3>1
    <3> QED BY <2>2, <2>5, <3>2 DEF Flags!Delete, Flags!ActiveAdmins
  <2>6. ASSUME NEW g \in SignIns, Flags!WriteFlag(g) PROVE FALSE
    BY <1>1, <2>6 DEF Flags!WriteFlag, AdminsInv, Flags!TypeOK
  <2>7. \/ admin \subseteq admin'
        \/ \E a \in Staff, v \in Staff : Flags!Revoke(a, v)
        \/ \E v \in Staff : Flags!Delete(v)
        \/ \E g \in SignIns : Flags!WriteFlag(g)
    BY <1>1 DEF Flags!Next, Flags!Grant, Flags!SyncConfigured, Flags!Join, Flags!Depart, Flags!Return, Flags!EnterElsewhere, Flags!DepartElsewhere,
                Flags!ReadFlag, Flags!GiveUp
  <2> QED BY <2>3, <2>4, <2>5, <2>6, <2>7
<1>2. AdminsInv /\ [Flags!Next]_(Flags!vars) => [Flags!RevocationsLeaveAnAdmin]_(Flags!vars)
  BY <1>1
<1> QED BY <1>2, AlwaysAdminsInv, PTL DEF Flags!Spec
=============================================================================
