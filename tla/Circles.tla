------------------------------ MODULE Circles ------------------------------
(***************************************************************************)
(* Circles, their members and owners, and the circle a session works in    *)
(* (api/_member-lifecycle.js, _active-circle.js, _circle-creation.js,      *)
(* _circle-archive.js, the invitation and session parts of                 *)
(* _circle-membership.js and _db.js, and immediate account deletion), with *)
(* the multi-circle control plane on.                                      *)
(*                                                                         *)
(* A mutation is one serialized write transaction, one step here.  What    *)
(* makes it hard is what the request learnt before it: the session was     *)
(* verified in one statement, memberships and the selected context were    *)
(* read in two more, and any transaction may have committed in between.    *)
(***************************************************************************)
EXTENDS Naturals, FiniteSets

CONSTANTS
  Circles,    \* circle ids, handed out in ascending order
  Primary,    \* the primary circle, the first one
  Users,      \* accounts
  Founder,    \* the administrator who initializes the primary circle
  Sessions,   \* sign-ins, each of which ends in at most one session
  UserOf,     \* the account of each sign-in
  MaxOwned,   \* MAX_OWNED_ACTIVE_CIRCLES_PER_ACCOUNT
  MaxCircles, \* MAX_CIRCLES_PER_ACCOUNT
  MaxVersion  \* bound: context versions

ASSUME CirclesAssumption ==
  /\ Circles \subseteq Nat \ {0} /\ Primary \in Circles
  /\ \A c \in Circles : Primary <= c
  /\ Founder \in Users /\ UserOf \in [Sessions -> Users]
  /\ MaxOwned \in Nat /\ MaxCircles \in Nat \ {0} /\ MaxVersion \in Nat

VARIABLES
  live,     \* circles with archived_at NULL
  joined,   \* circle_memberships rows, as pairs of circle and account
  active,   \* those with status 'active'
  owner,    \* those with role 'owner'
  erased,   \* tombstoned accounts
  session,  \* how far each sign-in has come
  context,  \* auth_session_circle_contexts row of each session
  request   \* what the session's request in flight has learnt

vars == <<live, joined, active, owner, erased, session, context, request>>
memberVars == <<live, joined, active, owner, erased>>

NoContext == [circle |-> 0, version |-> 0]
NoRequest == [open |-> FALSE, reads |-> {}, circles |-> {}, context |-> NoContext]
Stages    == {"none", "resolved", "eligible", "live", "ended"}

(* The membership cutover: the accounts of that day join the primary       *)
(* circle, the administrator who runs it and the others as its owners.     *)
Init ==
  /\ live = {Primary}
  /\ \E members \in SUBSET Users, admins \in SUBSET Users :
       /\ Founder \in admins /\ admins \subseteq members
       /\ joined = {Primary} \X members /\ active = {Primary} \X members
       /\ owner = {Primary} \X admins
  /\ erased = {}
  /\ session = [s \in Sessions |-> "none"]
  /\ context = [s \in Sessions |-> NoContext]
  /\ request = [s \in Sessions |-> NoRequest]

-----------------------------------------------------------------------------
(* The predicates the statements share.                                     *)

(* Active memberships in circles that are not archived.                    *)
Memberships(u) == {c \in live : <<c, u>> \in active}

IsOwner(c, u) == c \in live /\ <<c, u>> \in active /\ <<c, u>> \in owner

(* Mutant of OtherOwner: the other owner may be inactive.                  *)
OtherOwnerAnyStatus(c, u) == \E v \in Users \ {u} : <<c, v>> \in owner

OtherOwner(c, u) == \E v \in Users \ {u} : <<c, v>> \in active /\ <<c, v>> \in owner

LiveSessions(u) == {t \in Sessions : UserOf[t] = u /\ session[t] = "live"}

(* revokeAccountSessions *)
SignedOut(u) == [t \in Sessions |-> IF t \in LiveSessions(u) THEN "ended" ELSE session[t]]

(* Mutant of RemainsIn: an archived circle counts.                         *)
RemainsInAny(u, c) == \E d \in Circles : <<d, u>> \in active /\ d # c
RemainsIn(u, c) == \E d \in Memberships(u) : d # c

Close(s) == request' = [request EXCEPT ![s] = NoRequest]

-----------------------------------------------------------------------------
(* Sign-in: the account is read (or refreshed, or created), then its       *)
(* membership is checked or an invitation accepted, then the session row   *)
(* is written; each is a statement or transaction of its own.              *)

ResolveAccount(s) ==
  /\ session[s] = "none" /\ UserOf[s] \notin erased
  /\ session' = [session EXCEPT ![s] = "resolved"]
  /\ UNCHANGED <<memberVars, context, request>>

CheckMembership(s) ==
  /\ session[s] = "resolved"
  /\ session' = [session EXCEPT ![s] =
                   IF Memberships(UserOf[s]) # {} THEN "eligible" ELSE "none"]
  /\ UNCHANGED <<memberVars, context, request>>

(* acceptPreparedInvitation: refused where the account was a member and is *)
(* not any more.                                                            *)
AcceptInvitation(s, c) ==
  LET u == UserOf[s] IN
  /\ session[s] = "resolved"
  /\ c \in live /\ (<<c, u>> \in joined => <<c, u>> \in active)
  /\ joined' = joined \cup {<<c, u>>} /\ active' = active \cup {<<c, u>>}
  /\ session' = [session EXCEPT ![s] = "eligible"]
  /\ UNCHANGED <<live, owner, erased, context, request>>

(* INSERT INTO auth_sessions ... FROM auth_accounts WHERE id=? AND email=?,*)
(* which finds no row once the account is a tombstone.                     *)
Issued(s) == IF UserOf[s] \in erased THEN "none" ELSE "live"

IssueSession(s) ==
  /\ session[s] = "eligible"
  /\ session' = [session EXCEPT ![s] = Issued(s)]
  /\ UNCHANGED <<memberVars, context, request>>

(* Logout, expiry, or rotation by a newer session.                         *)
EndSession(s) ==
  /\ session[s] = "live"
  /\ session' = [session EXCEPT ![s] = "ended"]
  /\ UNCHANGED <<memberVars, context, request>>

-----------------------------------------------------------------------------
(* A request: verify the session, then read memberships and context, in    *)
(* either order (Promise.all).                                              *)

Opened  == [NoRequest EXCEPT !.open = TRUE]
Refused == [NoRequest EXCEPT !.reads = {"refusal"}]

VerifyRequest(s) ==
  /\ session[s] = "live" /\ request[s] = NoRequest
  /\ request' = [request EXCEPT ![s] =
                   IF Memberships(UserOf[s]) # {} THEN Opened ELSE Refused]
  /\ UNCHANGED <<memberVars, session, context>>

(* The account had no circle when it was looked up: its sessions are ended *)
(* by a statement of its own.                                              *)
RevokeRefused(s) ==
  /\ request[s] = Refused
  /\ session' = SignedOut(UserOf[s])
  /\ Close(s)
  /\ UNCHANGED <<memberVars, context>>

WithCircles(r, cs) == [r EXCEPT !.reads = r.reads \cup {"circles"}, !.circles = cs]
WithContext(r, x)  == [r EXCEPT !.reads = r.reads \cup {"context"}, !.context = x]

(* More rows than MaxCircles make listSessionCircleContexts throw.         *)
ReadMemberships(s) ==
  /\ request[s].open /\ "circles" \notin request[s].reads
  /\ Cardinality(Memberships(UserOf[s])) <= MaxCircles
  /\ request' = [request EXCEPT ![s] = WithCircles(request[s], Memberships(UserOf[s]))]
  /\ UNCHANGED <<memberVars, session, context>>

ReadContext(s) ==
  /\ request[s].open /\ "context" \notin request[s].reads
  /\ session[s] = "live"
  /\ request' = [request EXCEPT ![s] = WithContext(request[s], context[s])]
  /\ UNCHANGED <<memberVars, session, context>>

(* The request failed, timed out or was refused.                           *)
Abandon(s) ==
  /\ request[s].open
  /\ Close(s)
  /\ UNCHANGED <<memberVars, session, context>>

(* The circle resolveActiveCircleContext settles on: the selected one, or  *)
(* the only one of a session that never selected.                          *)
Selects(s, c) ==
  /\ request[s].reads = {"circles", "context"}
  /\ c \in request[s].circles
  /\ \/ c = request[s].context.circle
     \/ request[s].context = NoContext /\ request[s].circles = {c}

(* validateActiveCircleMutationContext, inside the write transaction.      *)
ContextValid(s, c) ==
  LET u == UserOf[s] IN
  /\ session[s] = "live" /\ c \in Memberships(u)
  /\ context[s] = request[s].context
  /\ context[s] = NoContext => Memberships(u) = {c}

(* A member request that reaches its transaction with a valid context.     *)
Acts(s, c) == Selects(s, c) /\ ContextValid(s, c)

OwnerActs(s, c, v) ==
  /\ Acts(s, c) /\ IsOwner(c, UserOf[s])
  /\ v # UserOf[s] /\ <<c, v>> \in joined

-----------------------------------------------------------------------------
(* Contexts.                                                                *)

(* Mutant of NextVersion: the first selection stores the version it read.  *)
NextVersionRead(r) == r.version

NextVersion(r) == r.version + 1

(* Mutant of Bumped: a removal leaves the version.                         *)
BumpedNot(u, c) == context

(* bumpSelectedCircleContexts *)
Bumped(u, c) ==
  [t \in Sessions |-> IF UserOf[t] = u /\ context[t].circle = c
                      THEN [circle |-> c, version |-> NextVersion(context[t])]
                      ELSE context[t]]

WithinVersions == \A t \in Sessions : context'[t].version <= MaxVersion

(* selectActiveCircleContext: a compare-and-swap on the version the client *)
(* expects; selecting the selected circle changes nothing.                 *)
Select(s, c) ==
  /\ request[s].open /\ session[s] = "live"
  /\ c \in Memberships(UserOf[s]) /\ c # context[s].circle
  /\ context' = [context EXCEPT ![s] = [circle |-> c, version |-> NextVersion(context[s])]]
  /\ WithinVersions
  /\ Close(s)
  /\ UNCHANGED <<memberVars, session>>

-----------------------------------------------------------------------------
(* Membership and ownership.                                                *)

(* A membership ends: the account's sessions on that circle get a new      *)
(* version, and all its sessions are revoked with its last circle.         *)
Remove(u, c) ==
  /\ active' = active \ {<<c, u>>}
  /\ context' = Bumped(u, c) /\ WithinVersions
  /\ session' = IF RemainsIn(u, c) THEN session ELSE SignedOut(u)
  /\ UNCHANGED <<live, joined, owner, erased>>

Leave(s, c) ==
  /\ Acts(s, c)
  /\ IsOwner(c, UserOf[s]) => OtherOwner(c, UserOf[s])
  /\ Remove(UserOf[s], c)
  /\ Close(s)

Deactivate(s, c, v) ==
  /\ OwnerActs(s, c, v) /\ v \notin erased
  /\ <<c, v>> \in active
  /\ <<c, v>> \in owner => OtherOwner(c, v)
  /\ Remove(v, c)
  /\ Close(s)

Reactivate(s, c, v) ==
  /\ OwnerActs(s, c, v) /\ v \notin erased
  /\ <<c, v>> \notin active
  /\ active' = active \cup {<<c, v>>}
  /\ Close(s)
  /\ UNCHANGED <<live, joined, owner, erased, session, context>>

TransferOwnership(s, c, v) ==
  /\ OwnerActs(s, c, v)
  /\ <<c, v>> \in active /\ <<c, v>> \notin owner
  /\ owner' = (owner \cup {<<c, v>>}) \ {<<c, UserOf[s]>>}
  /\ Close(s)
  /\ UNCHANGED <<live, joined, active, erased, session, context>>

GrantOwnership(s, c, v) ==
  /\ OwnerActs(s, c, v)
  /\ <<c, v>> \in active /\ <<c, v>> \notin owner
  /\ owner' = owner \cup {<<c, v>>}
  /\ Close(s)
  /\ UNCHANGED <<live, joined, active, erased, session, context>>

RevokeOwnership(s, c, v) ==
  /\ OwnerActs(s, c, v)
  /\ <<c, v>> \in owner /\ OtherOwner(c, v)
  /\ owner' = owner \ {<<c, v>>}
  /\ Close(s)
  /\ UNCHANGED <<live, joined, active, erased, session, context>>

-----------------------------------------------------------------------------
(* Creation, archive and account deletion.                                  *)

Created == {c \in Circles : \E u \in Users : <<c, u>> \in joined}

Founding(c, u) == {<<c, u>>}

(* createAttempt.  The receipt of a request makes its retry a no-op, so a  *)
(* circle id stands for the request that creates it.                       *)
Found(s, c) ==
  LET u == UserOf[s] IN
  /\ request[s].open /\ session[s] = "live"
  /\ c \notin Created /\ \A d \in Circles : d < c => d \in Created
  /\ Cardinality(Memberships(u)) < MaxCircles
  /\ Cardinality({d \in Memberships(u) : <<d, u>> \in owner}) < MaxOwned
  /\ live' = live \cup {c}
  /\ joined' = joined \cup {<<c, u>>} /\ active' = active \cup {<<c, u>>}
  /\ owner' = owner \cup Founding(c, u)
  /\ context' = [context EXCEPT ![s] = [circle |-> c, version |-> NextVersion(context[s])]]
  /\ WithinVersions
  /\ Close(s)
  /\ UNCHANGED <<erased, session>>

(* Mutant of Stranded: nobody is looked for.                               *)
StrandedNobody(c) == {}

Stranded(c) == {u \in Users : <<c, u>> \in active /\ ~RemainsIn(u, c)}

(* ORDER BY is_primary DESC, circle_id: the primary circle has the lowest. *)
Fallback(u, c) ==
  CHOOSE d \in Memberships(u) \ {c} : \A e \in Memberships(u) \ {c} : d <= e

(* Sessions on the archived circle move to the fallback of their account;  *)
(* the rows of accounts without one are deleted.                           *)
Moved(c) ==
  [t \in Sessions |->
     IF context[t].circle # c THEN context[t]
     ELSE IF RemainsIn(UserOf[t], c)
       THEN [circle |-> Fallback(UserOf[t], c), version |-> NextVersion(context[t])]
       ELSE NoContext]

Archive(s, c) ==
  /\ request[s].open /\ session[s] = "live"
  /\ c # Primary /\ IsOwner(c, UserOf[s])
  /\ context[s].circle = c
  /\ Stranded(c) = {}
  /\ live' = live \ {c}
  /\ context' = Moved(c) /\ WithinVersions
  /\ Close(s)
  /\ UNCHANGED <<joined, active, owner, erased, session>>

LastOwnerOf(u) == {c \in live : IsOwner(c, u) /\ ~OtherOwner(c, u)}

(* The membership and session part of deletionStatements.                  *)
DeleteAccount(s) ==
  LET u == UserOf[s] IN
  /\ request[s].open /\ session[s] = "live" /\ u \notin erased
  /\ LastOwnerOf(u) = {}
  /\ erased' = erased \cup {u}
  /\ active' = active \ (Circles \X {u}) /\ owner' = owner \ (Circles \X {u})
  /\ session' = SignedOut(u)
  /\ context' = [t \in Sessions |-> IF UserOf[t] = u THEN NoContext ELSE context[t]]
  /\ Close(s)
  /\ UNCHANGED <<live, joined>>

-----------------------------------------------------------------------------
SignIn(s) ==
  \/ ResolveAccount(s) \/ CheckMembership(s)
  \/ \E c \in Circles : AcceptInvitation(s, c)
  \/ IssueSession(s) \/ EndSession(s)

Request(s) ==
  \/ VerifyRequest(s) \/ RevokeRefused(s) \/ ReadMemberships(s) \/ ReadContext(s) \/ Abandon(s)

Mutate(s) ==
  \/ \E c \in Circles : Select(s, c) \/ Leave(s, c) \/ Found(s, c) \/ Archive(s, c)
  \/ \E c \in Circles, v \in Users :
       \/ Deactivate(s, c, v) \/ Reactivate(s, c, v)
       \/ TransferOwnership(s, c, v) \/ GrantOwnership(s, c, v) \/ RevokeOwnership(s, c, v)
  \/ DeleteAccount(s)

Next == \E s \in Sessions : SignIn(s) \/ Request(s) \/ Mutate(s)

Spec == Init /\ [][Next]_vars

-----------------------------------------------------------------------------
(* Types of the tables and of what a request has learnt; a status or role  *)
(* belongs to a membership row.                                             *)
ContextType == [circle : Circles \cup {0}, version : 0..MaxVersion]
RequestType == [open : BOOLEAN, reads : SUBSET {"circles", "context", "refusal"},
                circles : SUBSET Circles, context : ContextType]

MembersOK ==
  /\ live \subseteq Circles /\ joined \subseteq Circles \X Users
  /\ active \subseteq joined /\ owner \subseteq joined /\ erased \subseteq Users
SessionsOK == session \in [Sessions -> Stages]
ContextsOK ==
  /\ context \in [Sessions -> ContextType]
  /\ \A s \in Sessions : context[s].circle = 0 <=> context[s].version = 0
RequestsOK == request \in [Sessions -> RequestType]
TypeOK == MembersOK /\ SessionsOK /\ ContextsOK /\ RequestsOK

(* Every circle in use has an active owner, whatever owners leave, remove, *)
(* demote, transfer, archive and delete at the same time.                  *)
EveryLiveCircleHasAnOwner ==
  \A c \in live : \E u \in Users : IsOwner(c, u)

(* A request that was authenticated and whose session is still live comes  *)
(* from a current member: creation and selection rely on it and do not     *)
(* look at the account's memberships again.                                *)
AuthorityFollowsMembership ==
  \A s \in Sessions :
    request[s].open /\ session[s] = "live" => Memberships(UserOf[s]) # {}

(* A deleted account holds no session, although a sign-in was under way    *)
(* while the deletion committed.                                            *)
ErasedAreSignedOut ==
  \A s \in Sessions : session[s] = "live" => UserOf[s] \notin erased

(* docs/ACTIVE_CIRCLE_CONTEXT.md: a removal leaves a tombstone "so         *)
(* reactivation cannot make an old version valid".  As long as a session   *)
(* lives its version never falls, and it grows with every step that takes  *)
(* the selected circle away or selects another.                            *)
HasSelected(s) == context[s].circle \in Memberships(UserOf[s])
VersionsAreNeverReused ==
  [][\A s \in Sessions : session[s] = "live" /\ session'[s] = "live" =>
       /\ context'[s].version >= context[s].version
       /\ HasSelected(s) /\ (~HasSelected(s)' \/ context'[s].circle # context[s].circle)
            => context'[s].version > context[s].version]_vars

(* Whichever step takes an account's last circle away (its own leave, an   *)
(* owner's removal, an archive, a deletion) also ends its sessions.        *)
LosingTheLastCircleSignsOut ==
  [][\A s \in Sessions :
       Memberships(UserOf[s]) # {} /\ Memberships(UserOf[s])' = {}
         => session'[s] # "live"]_vars

(* _account-deletion.js:30 and docs/ACCOUNT_DELETION.md:247: a request     *)
(* authenticated just before a deletion cannot write into the tombstone.   *)
ErasedStayOut == \A u \in erased : Memberships(u) = {}
=============================================================================
