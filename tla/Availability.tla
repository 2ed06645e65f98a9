----------------------------- MODULE Availability -----------------------------
(***************************************************************************)
(* Weekly availability (api/_availability.js, api/_pairing-cycle.js): a    *)
(* member says, for the coming cycle of one circle, whether to be paired.  *)
(* A cycle runs from one Sunday 08:00 to the next; its choices close when  *)
(* it starts. Browser tabs show what they last read and save against it.   *)
(* The loopback scope "local" behaves as a primary circle without owners.  *)
(***************************************************************************)
EXTENDS Naturals, FiniteSets

CONSTANTS
  Users, Circles, Primary,   \* Primary is the one circle with is_primary=1
  Starting,                  \* circle -> the members it starts with
  Moving,                    \* <<account, circle>>: the memberships that change
  Tabs, UserOf,              \* browser tabs and the account each is signed in to
  LastCycle, Length,         \* cycles 0..LastCycle of Length ticks each
  MaxVersion,                \* bound on the saves of one decision
  AccountSetting             \* auth_accounts.is_available, by account

VARIABLES
  now,       \* the database clock, in ticks
  account,   \* "active", "pending" deletion (locked) or "erased"
  member,    \* circle -> accounts with an active membership
  setting,   \* auth_accounts.is_available: only erasure writes it
  default,   \* pairing_cycles.default_source, "none" before the row exists
  decision,  \* pairing_cycle_availability, version 0 without a row
  shown      \* what a tab shows: the last state the server answered with

availabilityVars == <<now, account, member, setting, default, decision, shown>>

Cycles   == 0..LastCycle
Current  == now \div Length
Upcoming == Current + 1
Offset   == now % Length

Undecided == [version |-> 0, available |-> TRUE]
NoState   == [circle |-> Primary, cycle |-> 0, version |-> MaxVersion + 1, available |-> TRUE]
States    == [circle : Circles, cycle : Cycles, version : 0..MaxVersion + 1, available : BOOLEAN]

AvailabilityInit ==
  /\ now = 0
  /\ account = [u \in Users |-> "active"]
  /\ member = Starting
  /\ setting = AccountSetting
  /\ default = [c \in Circles |-> [w \in Cycles |-> "none"]]
  /\ decision = [c \in Circles |-> [w \in Cycles |-> [u \in Users |-> Undecided]]]
  /\ shown = [t \in Tabs |-> NoState]

-----------------------------------------------------------------------------
(* The row of a cycle fixes how its undecided members are read: by their   *)
(* account setting in the first cycles of the primary circle, else as      *)
(* available.                                                              *)
EarlierRow(c, w) == \E v \in 0..w : default[c][v] # "none"

DefaultSource(c, w) ==
  CASE default[c][w] # "none"                              -> default[c][w]
    [] default[c][w] = "none" /\ c = Primary /\ ~EarlierRow(c, w) -> "legacy_bridge"
    [] OTHER                                               -> "cycle_default"

Materialized(c, w) == [default EXCEPT ![c][w] = DefaultSource(c, w)]

Inherited(c, w, u) == DefaultSource(c, w) = "legacy_bridge" => setting[u]

(* Mutant of IsAvailable: a saved FALSE is taken for no decision.          *)
IsAvailableFalsy(c, w, u) == decision[c][w][u].available \/ Inherited(c, w, u)
IsAvailable(c, w, u) ==
  IF decision[c][w][u].version > 0 THEN decision[c][w][u].available ELSE Inherited(c, w, u)

StateOf(c, w, u) ==
  [circle |-> c, cycle |-> w,
   version |-> decision[c][w][u].version, available |-> IsAvailable(c, w, u)]

(* The session, its circle and the membership are checked in the           *)
(* transaction; an account pending deletion has no session.                *)
Admitted(u, c) == account[u] = "active" /\ u \in member[c]

Look(t, c) ==
  /\ Admitted(UserOf[t], c) /\ Upcoming \in Cycles
  /\ default' = Materialized(c, Upcoming)
  /\ shown' = [shown EXCEPT ![t] = StateOf(c, Upcoming, UserOf[t])]
  /\ UNCHANGED <<now, account, member, setting, decision>>

-----------------------------------------------------------------------------
Editable(w) == w = Upcoming

Fresh(t) ==
  LET s == shown[t] IN
  /\ Editable(s.cycle)
  /\ decision[s.circle][s.cycle][UserOf[t]].version = s.version

(* A save that the server accepts; its answer may be lost on the way.      *)
Save(t, choice, heard) ==
  LET s == shown[t]
      saved == [version |-> s.version + 1, available |-> choice] IN
  /\ Admitted(UserOf[t], s.circle) /\ Fresh(t) /\ s.version < MaxVersion
  /\ default' = Materialized(s.circle, s.cycle)
  /\ decision' = [decision EXCEPT ![s.circle][s.cycle][UserOf[t]] = saved]
  /\ shown' = IF heard
       THEN [shown EXCEPT ![t] = [s EXCEPT !.version = saved.version, !.available = choice]]
       ELSE shown
  /\ UNCHANGED <<now, account, member, setting>>

(* A refused save answers with the state of the upcoming cycle, and its    *)
(* transaction, the row of that cycle included, is rolled back.            *)
Refuse(t) ==
  LET c == shown[t].circle IN
  /\ shown[t] # NoState /\ Admitted(UserOf[t], c) /\ ~Fresh(t) /\ Upcoming \in Cycles
  /\ shown' = [shown EXCEPT ![t] = StateOf(c, Upcoming, UserOf[t])]
  /\ UNCHANGED <<now, account, member, setting, default, decision>>

-----------------------------------------------------------------------------
(* Deletion of an account: requested, called off, executed.                *)
Lock(u) ==
  /\ (\E c \in Circles : <<u, c>> \in Moving) /\ account[u] = "active" /\ account' = [account EXCEPT ![u] = "pending"]
  /\ UNCHANGED <<now, member, setting, default, decision, shown>>

Unlock(u) ==
  /\ account[u] = "pending" /\ account' = [account EXCEPT ![u] = "active"]
  /\ UNCHANGED <<now, member, setting, default, decision, shown>>

WithoutRows(u) ==
  [c \in Circles |-> [w \in Cycles |-> [decision[c][w] EXCEPT ![u] = Undecided]]]

EraseRows(u) ==
  /\ account[u] = "pending" /\ account' = [account EXCEPT ![u] = "erased"]
  /\ setting' = [setting EXCEPT ![u] = FALSE]
  /\ decision' = WithoutRows(u)
  /\ UNCHANGED <<now, default, shown>>
=============================================================================
