----------------------------- MODULE AppAdmins -----------------------------
(***************************************************************************)
(* The is_admin flag of an account (api/_member-lifecycle.js, changeAppAdmin) *)
(* and the other writers of it: the sign-ins that copy ADMIN_EMAILS into   *)
(* it (api/auth.js, api/ops.js), a Google sign-in that writes back the     *)
(* flag it read before it asked the provider identity store, and account   *)
(* deletion.  Memberships change underneath by the steps of Circles, of    *)
(* which this module keeps what an administrator is counted by.            *)
(***************************************************************************)
EXTENDS Naturals, FiniteSets

CONSTANTS
  Users,
  Founder,    \* the administrator who initialized the primary circle
  Configured, \* accounts whose address is in ADMIN_EMAILS
  SignIns,    \* Google sign-ins
  UserOf      \* the account of each Google sign-in

(* Assumed of every instance.                                               *)
AdminsConstants ==
  Founder \in Users /\ Configured \subseteq Users /\ UserOf \in [SignIns -> Users]

VARIABLES
  joined,    \* accounts with a membership row in the primary circle
  active,    \* those with status 'active'
  elsewhere, \* accounts active in another circle that is not archived
  admin,     \* auth_accounts.is_admin
  erased,    \* tombstones
  signIn     \* what each Google sign-in is about to write

vars == <<joined, active, elsewhere, admin, erased, signIn>>
memberships == <<joined, active, elsewhere>>

Init ==
  /\ joined = {Founder} /\ active = {Founder} /\ elsewhere = {}
  /\ admin = {Founder} /\ erased = {}
  /\ signIn = [g \in SignIns |-> "idle"]

Active(u) == u \in active \/ u \in elsewhere
ActiveAdmins == {u \in admin : Active(u)}

-----------------------------------------------------------------------------
(* changeAppAdmin, in the actor's primary circle.                          *)

MayAdminister(a) == a \in admin /\ a \in active

Grant(a, v) ==
  /\ MayAdminister(a)
  /\ v \in active /\ v \notin admin
  /\ admin' = admin \cup {v}
  /\ UNCHANGED <<memberships, erased, signIn>>

Protected(v) == v \in Configured

(* Mutant of OtherAdmin: an account without a circle counts.               *)
OtherAdminAnywhere(v) == \E w \in admin : w # v
OtherAdmin(v) == \E w \in ActiveAdmins : w # v

Revoke(a, v) ==
  /\ MayAdminister(a)
  /\ v \in joined /\ v \in admin /\ ~Protected(v)
  /\ OtherAdmin(v)
  /\ admin' = admin \ {v}
  /\ UNCHANGED <<memberships, erased, signIn>>

-----------------------------------------------------------------------------
(* Sign-ins.                                                                *)

(* Password login, /me and admin operations copy the configured address.   *)
SyncConfigured(u) ==
  /\ u \in Configured \ erased
  /\ admin' = admin \cup {u}
  /\ UNCHANGED <<memberships, erased, signIn>>

ReadFlag(g) ==
  /\ signIn[g] = "idle" /\ UserOf[g] \notin erased
  /\ signIn' = [signIn EXCEPT ![g] =
                  IF UserOf[g] \in admin \cup Configured THEN "flag" ELSE "no flag"]
  /\ UNCHANGED <<memberships, admin, erased>>

(* UPDATE auth_accounts SET is_admin=? WHERE id=? AND the account is live. *)
Refreshed(g) ==
  IF UserOf[g] \in erased THEN admin
  ELSE IF signIn[g] = "flag" THEN admin \cup {UserOf[g]} ELSE admin \ {UserOf[g]}

WriteFlag(g) ==
  /\ signIn[g] # "idle"
  /\ admin' = Refreshed(g)
  /\ signIn' = [signIn EXCEPT ![g] = "idle"]
  /\ UNCHANGED <<memberships, erased>>

(* The sign-in fails between its statements.                               *)
GiveUp(g) ==
  /\ signIn[g] # "idle"
  /\ signIn' = [signIn EXCEPT ![g] = "idle"]
  /\ UNCHANGED <<memberships, admin, erased>>

-----------------------------------------------------------------------------
(* Memberships, by the rules of Circles that matter here.                   *)

Join(u) ==
  /\ u \notin erased /\ u \notin joined
  /\ joined' = joined \cup {u} /\ active' = active \cup {u}
  /\ UNCHANGED <<elsewhere, admin, erased, signIn>>

(* A circle keeps an active owner, so it is never its only active member   *)
(* who leaves, is removed or is deleted.                                    *)
OthersRemain(u) == u \in active => active \ {u} # {}

Depart(u) ==
  /\ u \in active /\ OthersRemain(u)
  /\ active' = active \ {u}
  /\ UNCHANGED <<joined, elsewhere, admin, erased, signIn>>

Return(u) ==
  /\ u \in joined \ active /\ u \notin erased
  /\ active' = active \cup {u}
  /\ UNCHANGED <<joined, elsewhere, admin, erased, signIn>>

EnterElsewhere(u) ==
  /\ u \notin elsewhere \cup erased
  /\ elsewhere' = elsewhere \cup {u}
  /\ UNCHANGED <<joined, active, admin, erased, signIn>>

DepartElsewhere(u) ==
  /\ u \in elsewhere
  /\ elsewhere' = elsewhere \ {u}
  /\ UNCHANGED <<joined, active, admin, erased, signIn>>

(* isLastAdmin, on the tables as the deletion finds them.                  *)
LastAdmin(u) ==
  /\ u \in admin \cup Configured
  /\ \A w \in (admin \cup Configured) \ {u} : ~Active(w)

Delete(u) ==
  /\ Active(u) /\ OthersRemain(u) /\ ~LastAdmin(u)
  /\ erased' = erased \cup {u}
  /\ active' = active \ {u} /\ elsewhere' = elsewhere \ {u}
  /\ admin' = admin \ {u}
  /\ UNCHANGED <<joined, signIn>>

-----------------------------------------------------------------------------
Next ==
  \/ \E a \in Users, v \in Users : Grant(a, v) \/ Revoke(a, v)
  \/ \E u \in Users : SyncConfigured(u) \/ Join(u) \/ Depart(u) \/ Return(u)
                        \/ EnterElsewhere(u) \/ DepartElsewhere(u) \/ Delete(u)
  \/ \E g \in SignIns : ReadFlag(g) \/ WriteFlag(g) \/ GiveUp(g)

Spec == Init /\ [][Next]_vars

-----------------------------------------------------------------------------
(* Types; a tombstone is no administrator and no member, whatever sign-in  *)
(* was under way when it was made.                                          *)
TypeOK ==
  /\ active \subseteq joined /\ joined \subseteq Users /\ elsewhere \subseteq Users
  /\ admin \subseteq Users /\ erased \subseteq Users
  /\ signIn \in [SignIns -> {"idle", "flag", "no flag"}]
  /\ \A u \in erased : u \notin admin /\ ~Active(u)

(* An administrator by configuration keeps the flag while the account      *)
(* lives: neither a colleague nor a stale sign-in takes it.                *)
ConfiguredStaysAdmin ==
  \A u \in Configured : u \in admin /\ u \notin erased' => u \in admin'

(* docs/MEMBER_LIFECYCLE.md:139: concurrent revocations leave an active    *)
(* administrator, whoever else joins, is granted or leaves: with its       *)
(* active administrators still members, the application loses its last one *)
(* to nothing but a stale sign-in.                                         *)
RevocationsLeaveAnAdmin ==
  ActiveAdmins # {} /\ (\A u \in ActiveAdmins : Active(u)') /\ admin' \subseteq admin
      /\ signIn' = signIn
    => ActiveAdmins' # {}

(* docs/MEMBER_LIFECYCLE.md:150: a revocation takes effect on the next     *)
(* request; only a grant or the configuration gives the flag back.         *)
RevokedStaysRevoked ==
  [][\A v \in Users \ Configured :
       v \notin admin /\ v \in admin' => \E a \in Users : Grant(a, v)]_vars
=============================================================================
