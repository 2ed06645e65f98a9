-------------------------- MODULE AuthorityProofs --------------------------
(* Theorems about Circles, for every set of accounts, circles and sessions;  *)
(* then, about the composition of MCAuthority, that each of its properties   *)
(* holds: its instances satisfy what is assumed in the proof modules of the  *)
(* parts, whose theorems are cited for them.                                 *)
EXTENDS MCAuthority, TLAPS, WellFoundedInduction

LEMMA SetOfNaturalsHasLeast ==
  ASSUME NEW T \in SUBSET Nat, T # {}
  PROVE  \E x \in T : \A y \in T : x <= y
<1> DEFINE R == {p \in Nat \X Nat : p[1] < p[2]}
<1>1. IsWellFoundedOn(R, Nat)
  BY NatLessThanWellFounded DEF OpToRel
<1>2. PICK x \in T : \A y \in T : <<y, x>> \notin R
  BY <1>1, WFMin
<1>3. \A y \in T : ~ (y < x)
  BY <1>2
<1> QED BY <1>2, <1>3

(* An account with another circle has a fallback, and it is one of its     *)
(* other circles.                                                          *)
LEMMA FallbackIsAMembership ==
  ASSUME MembersOK, NEW u, NEW c, RemainsIn(u, c)
  PROVE  Fallback(u, c) \in Memberships(u) \ {c}
<1> DEFINE T == Memberships(u) \ {c}
<1>1. T \in SUBSET Nat /\ T # {}
  BY CirclesAssumption DEF MembersOK, Memberships, RemainsIn
<1>2. PICK d \in T : \A e \in T : d <= e
  BY <1>1, SetOfNaturalsHasLeast
<1> QED BY <1>2 DEF Fallback

-----------------------------------------------------------------------------
(* Typing.                                                                  *)

(* The contexts of a step are well typed when its versions are within the  *)
(* bound.                                                                   *)
Linked(x) == x \in [circle : Circles \cup {0}, version : Nat] /\ (x.circle = 0 <=> x.version = 0)

LEMMA ContextsTyped ==
  ASSUME context' \in [Sessions -> [circle : Circles \cup {0}, version : Nat]],
         \A t \in Sessions : Linked(context'[t]), WithinVersions
  PROVE  ContextsOK'
<1>1. \A t \in Sessions : context'[t] \in ContextType
  BY CirclesAssumption DEF WithinVersions, ContextType, Linked
<1> QED BY <1>1 DEF ContextsOK, Linked

LEMMA ContextFields ==
  ASSUME ContextsOK, NEW t \in Sessions
  PROVE  /\ context[t].circle \in Circles \cup {0} /\ context[t].version \in Nat
         /\ Linked(context[t])
BY CirclesAssumption DEF ContextsOK, ContextType, Linked

LEMMA NewContext ==
  ASSUME ContextsOK, NEW t \in Sessions, NEW c \in Circles
  PROVE  Linked([circle |-> c, version |-> NextVersion(context[t])])
BY ContextFields, CirclesAssumption DEF NextVersion, Linked

LEMMA BumpedTyped ==
  ASSUME ContextsOK, NEW u, NEW c \in Circles, context' = Bumped(u, c), WithinVersions
  PROVE  ContextsOK'
<1>1. \A t \in Sessions : Linked(context'[t])
  BY NewContext, ContextFields DEF Bumped
<1>2. context' \in [Sessions -> [circle : Circles \cup {0}, version : Nat]]
  BY <1>1 DEF Bumped, Linked
<1> QED BY <1>1, <1>2, ContextsTyped

LEMMA ChosenTyped ==
  ASSUME ContextsOK, NEW s \in Sessions, NEW c \in Circles,
         context' = [context EXCEPT ![s] = [circle |-> c, version |-> NextVersion(context[s])]],
         WithinVersions
  PROVE  ContextsOK'
<1>1. \A t \in Sessions :
        context'[t] = IF t = s THEN [circle |-> c, version |-> NextVersion(context[s])] ELSE context[t]
  BY DEF ContextsOK
<1>2. \A t \in Sessions : Linked(context'[t])
  BY <1>1, NewContext, ContextFields
<1>3. context' \in [Sessions -> [circle : Circles \cup {0}, version : Nat]]
  BY <1>1, <1>2 DEF ContextsOK, Linked
<1> QED BY <1>2, <1>3, ContextsTyped

LEMMA MovedTyped ==
  ASSUME MembersOK, ContextsOK, NEW c \in Circles, context' = Moved(c), WithinVersions
  PROVE  ContextsOK'
<1>1. \A t \in Sessions : Linked(context'[t])
  <2> SUFFICES ASSUME NEW t \in Sessions PROVE Linked(context'[t])
    OBVIOUS
  <2>1. CASE context[t].circle # c
    BY <2>1, ContextFields DEF Moved
  <2>2. CASE context[t].circle = c /\ RemainsIn(UserOf[t], c)
    <3>1. Fallback(UserOf[t], c) \in Circles
      BY <2>2, FallbackIsAMembership DEF MembersOK, Memberships
    <3>2. context'[t] = [circle |-> Fallback(UserOf[t], c), version |-> NextVersion(context[t])]
      BY <2>2 DEF Moved
    <3> QED BY <3>1, <3>2, NewContext
  <2>3. CASE context[t].circle = c /\ ~RemainsIn(UserOf[t], c)
    BY <2>3 DEF Moved, NoContext, Linked
  <2> QED BY <2>1, <2>2, <2>3
<1>2. context' \in [Sessions -> [circle : Circles \cup {0}, version : Nat]]
  BY <1>1 DEF Moved, Linked
<1> QED BY <1>1, <1>2, ContextsTyped

LEMMA SignedOutTyped ==
  ASSUME SessionsOK, NEW u
  PROVE  SignedOut(u) \in [Sessions -> Stages]
BY DEF SessionsOK, SignedOut, Stages

LEMMA CloseTyped ==
  ASSUME RequestsOK, NEW s \in Sessions, Close(s)
  PROVE  RequestsOK'
<1>1. NoRequest \in RequestType
  BY CirclesAssumption DEF NoRequest, NoContext, RequestType, ContextType
<1> QED BY <1>1 DEF RequestsOK, Close

LEMMA RemoveTyped ==
  ASSUME TypeOK, NEW u, NEW c \in Circles, Remove(u, c)
  PROVE  MembersOK' /\ SessionsOK' /\ ContextsOK'
<1>1. MembersOK'
  BY DEF Remove, TypeOK, MembersOK
<1>2. SessionsOK'
  BY SignedOutTyped DEF Remove, TypeOK, SessionsOK
<1>3. ContextsOK'
  BY BumpedTyped DEF Remove, TypeOK
<1> QED BY <1>1, <1>2, <1>3

LEMMA InitTyped == Init => TypeOK
<1> SUFFICES ASSUME Init PROVE TypeOK
  OBVIOUS
<1>1. MembersOK
  BY CirclesAssumption DEF Init, MembersOK
<1>2. SessionsOK
  BY DEF Init, SessionsOK, Stages
<1>3. ContextsOK
  BY CirclesAssumption DEF Init, ContextsOK, ContextType, NoContext
<1>4. RequestsOK
  BY CirclesAssumption DEF Init, RequestsOK, RequestType, ContextType, NoRequest, NoContext
<1> QED BY <1>1, <1>2, <1>3, <1>4 DEF TypeOK

(* Sign-in and the reads of a request.                                     *)
LEMMA SignInTyped ==
  ASSUME TypeOK, NEW s \in Sessions, SignIn(s)
  PROVE  TypeOK'
<1> USE DEF TypeOK
<1>1. RequestsOK' /\ ContextsOK'
  BY DEF SignIn, ResolveAccount, CheckMembership, AcceptInvitation, IssueSession, EndSession,
         RequestsOK, ContextsOK
<1>2. SessionsOK'
  BY DEF SignIn, ResolveAccount, CheckMembership, AcceptInvitation, IssueSession, EndSession,
         SessionsOK, Stages, Issued
<1>3. MembersOK'
  <2>1. ASSUME NEW c \in Circles, AcceptInvitation(s, c) PROVE MembersOK'
    <3>1. <<c, UserOf[s]>> \in Circles \X Users
      BY CirclesAssumption
    <3> QED BY <2>1, <3>1 DEF AcceptInvitation, MembersOK
  <2>2. CASE UNCHANGED memberVars
    BY <2>2 DEF memberVars, MembersOK
  <2> QED
    BY <2>1, <2>2 DEF SignIn, ResolveAccount, CheckMembership, IssueSession, EndSession
<1> QED BY <1>1, <1>2, <1>3

LEMMA RequestTyped ==
  ASSUME TypeOK, NEW s \in Sessions, Request(s)
  PROVE  TypeOK'
<1> USE DEF TypeOK
<1>1. MembersOK' /\ ContextsOK'
  BY DEF Request, VerifyRequest, RevokeRefused, ReadMemberships, ReadContext, Abandon,
         MembersOK, ContextsOK, memberVars
<1>2. SessionsOK'
  BY SignedOutTyped
     DEF Request, VerifyRequest, RevokeRefused, ReadMemberships, ReadContext, Abandon, SessionsOK
<1>3. RequestsOK'
  <2>1. CASE VerifyRequest(s)
    <3>1. NoRequest \in RequestType
      BY CirclesAssumption DEF NoRequest, NoContext, RequestType, ContextType
    <3>2. Opened \in RequestType /\ Refused \in RequestType
      BY <3>1 DEF Opened, Refused, RequestType
    <3> QED BY <2>1, <3>2 DEF VerifyRequest, RequestsOK
  <2>2. CASE RevokeRefused(s) \/ Abandon(s)
    BY <2>2, CloseTyped DEF RevokeRefused, Abandon
  <2>3. CASE ReadMemberships(s)
    <3>1. WithCircles(request[s], Memberships(UserOf[s])) \in RequestType
      BY DEF WithCircles, RequestsOK, RequestType, Memberships, MembersOK
    <3> QED BY <2>3, <3>1 DEF ReadMemberships, RequestsOK
  <2>4. CASE ReadContext(s)
    <3>1. WithContext(request[s], context[s]) \in RequestType
      BY DEF WithContext, RequestsOK, RequestType, ContextsOK
    <3> QED BY <2>4, <3>1 DEF ReadContext, RequestsOK
  <2> QED BY <2>1, <2>2, <2>3, <2>4 DEF Request
<1> QED BY <1>1, <1>2, <1>3

LEMMA MutateTyped ==
  ASSUME TypeOK, NEW s \in Sessions, Mutate(s)
  PROVE  TypeOK'
<1> USE DEF TypeOK
<1>1. UserOf[s] \in Users
  BY CirclesAssumption
<1>2. ASSUME NEW c \in Circles, Select(s, c) PROVE TypeOK'
  BY <1>2, CloseTyped, ChosenTyped DEF Select, MembersOK, SessionsOK, memberVars
<1>3. ASSUME NEW c \in Circles, Leave(s, c) PROVE TypeOK'
  BY <1>3, CloseTyped, RemoveTyped DEF Leave
<1>4. ASSUME NEW c \in Circles, Found(s, c) PROVE TypeOK'
  <2>1. MembersOK'
    BY <1>1, <1>4 DEF Found, Founding, MembersOK
  <2>2. SessionsOK' /\ RequestsOK' /\ ContextsOK'
    BY <1>4, CloseTyped, ChosenTyped DEF Found, SessionsOK
  <2> QED BY <2>1, <2>2
<1>5. ASSUME NEW c \in Circles, Archive(s, c) PROVE TypeOK'
  BY <1>5, CloseTyped, MovedTyped DEF Archive, MembersOK, SessionsOK
<1>6. ASSUME NEW c \in Circles, NEW v \in Users, Deactivate(s, c, v) PROVE TypeOK'
  BY <1>6, CloseTyped, RemoveTyped DEF Deactivate
<1>7. ASSUME NEW c \in Circles, NEW v \in Users,
             Reactivate(s, c, v) \/ TransferOwnership(s, c, v)
               \/ GrantOwnership(s, c, v) \/ RevokeOwnership(s, c, v)
      PROVE  TypeOK'
  <2>1. <<c, v>> \in joined /\ Close(s) /\ UNCHANGED <<live, joined, erased, session, context>>
    BY <1>7 DEF Reactivate, TransferOwnership, GrantOwnership, RevokeOwnership, OwnerActs
  <2>2. active' \subseteq joined /\ owner' \subseteq joined
    BY <1>7, <2>1 DEF Reactivate, TransferOwnership, GrantOwnership, RevokeOwnership, MembersOK
  <2> QED BY <2>1, <2>2, CloseTyped DEF MembersOK, SessionsOK, ContextsOK
<1>8. ASSUME DeleteAccount(s) PROVE TypeOK'
  <2>1. MembersOK'
    BY <1>1, <1>8 DEF DeleteAccount, MembersOK
  <2>2. SessionsOK' /\ RequestsOK'
    BY <1>8, CloseTyped, SignedOutTyped DEF DeleteAccount, SessionsOK
  <2>3. ContextsOK'
    <3>1. NoContext \in ContextType
      BY CirclesAssumption DEF NoContext, ContextType
    <3> QED BY <1>8, <3>1 DEF DeleteAccount, ContextsOK, NoContext
  <2> QED BY <2>1, <2>2, <2>3
<1> QED BY <1>2, <1>3, <1>4, <1>5, <1>6, <1>7, <1>8 DEF Mutate

LEMMA StepTyped == TypeOK /\ [Next]_vars => TypeOK'
<1> SUFFICES ASSUME TypeOK, [Next]_vars PROVE TypeOK'
  OBVIOUS
<1>1. CASE Next
  BY <1>1, SignInTyped, RequestTyped, MutateTyped DEF Next
<1>2. CASE UNCHANGED vars
  BY <1>2 DEF vars, TypeOK, MembersOK, SessionsOK, ContextsOK, RequestsOK
<1> QED BY <1>1, <1>2

(* The tables keep their types: a status or role belongs to a membership,  *)
(* and a stored context has both a circle and a version.                   *)
THEOREM TypeCorrect == Spec => []TypeOK
BY InitTyped, StepTyped, PTL DEF Spec

-----------------------------------------------------------------------------
(* Ownership.  The invariant is inductive over well-typed states: a step   *)
(* takes the ownership of an active owner only where OtherOwner found a    *)
(* second one in the same transaction.                                     *)

(* Taking one account out of a circle it does not own alone.               *)
LEMMA RemovalLeavesAnOwner ==
  ASSUME EveryLiveCircleHasAnOwner, NEW u \in Users, NEW c \in Circles,
         IsOwner(c, u) => OtherOwner(c, u),
         live' = live, owner \ {<<c, u>>} \subseteq owner', active \ {<<c, u>>} \subseteq active'
  PROVE  EveryLiveCircleHasAnOwner'
<1> SUFFICES ASSUME NEW d \in live PROVE \E w \in Users : IsOwner(d, w)'
  BY DEF EveryLiveCircleHasAnOwner
<1>1. PICK w \in Users : IsOwner(d, w)
  BY DEF EveryLiveCircleHasAnOwner
<1>2. CASE <<d, w>> # <<c, u>>
  BY <1>1, <1>2 DEF IsOwner
<1>3. CASE <<d, w>> = <<c, u>>
  <2>1. PICK v \in Users \ {u} : <<c, v>> \in active /\ <<c, v>> \in owner
    BY <1>1, <1>3 DEF OtherOwner
  <2> QED BY <1>1, <1>3, <2>1 DEF IsOwner
<1> QED BY <1>2, <1>3

(* No owner of a live circle is touched.                                   *)
LEMMA OwnersAreKept ==
  ASSUME EveryLiveCircleHasAnOwner, live' \subseteq live, owner \subseteq owner', active \subseteq active'
  PROVE  EveryLiveCircleHasAnOwner'
BY DEF EveryLiveCircleHasAnOwner, IsOwner

LEMMA TransferLeavesAnOwner ==
  ASSUME EveryLiveCircleHasAnOwner, NEW s \in Sessions, NEW c \in Circles, NEW v \in Users,
         TransferOwnership(s, c, v)
  PROVE  EveryLiveCircleHasAnOwner'
<1> SUFFICES ASSUME NEW d \in live PROVE \E w \in Users : IsOwner(d, w)'
  BY DEF EveryLiveCircleHasAnOwner, TransferOwnership
<1>1. CASE d = c
  BY <1>1 DEF TransferOwnership, OwnerActs, IsOwner
<1>2. CASE d # c
  <2>1. PICK w \in Users : IsOwner(d, w)
    BY DEF EveryLiveCircleHasAnOwner
  <2> QED BY <1>2, <2>1 DEF TransferOwnership, IsOwner
<1> QED BY <1>1, <1>2

LEMMA FoundingLeavesAnOwner ==
  ASSUME EveryLiveCircleHasAnOwner, NEW s \in Sessions, NEW c \in Circles, Found(s, c)
  PROVE  EveryLiveCircleHasAnOwner'
<1> SUFFICES ASSUME NEW d \in live' PROVE \E w \in Users : IsOwner(d, w)'
  BY DEF EveryLiveCircleHasAnOwner
<1>1. CASE d = c
  BY <1>1, CirclesAssumption DEF Found, Founding, IsOwner
<1>2. CASE d # c
  <2>1. PICK w \in Users : IsOwner(d, w)
    BY <1>2 DEF Found, EveryLiveCircleHasAnOwner
  <2> QED BY <2>1 DEF Found, IsOwner
<1> QED BY <1>1, <1>2

LEMMA DeletionLeavesAnOwner ==
  ASSUME EveryLiveCircleHasAnOwner, NEW s \in Sessions, DeleteAccount(s)
  PROVE  EveryLiveCircleHasAnOwner'
<1> SUFFICES ASSUME NEW d \in live PROVE \E w \in Users : IsOwner(d, w)'
  BY DEF EveryLiveCircleHasAnOwner, DeleteAccount
<1> DEFINE u == UserOf[s]
<1>1. \E w \in Users \ {u} : IsOwner(d, w)
  <2>1. PICK w \in Users : IsOwner(d, w)
    BY DEF EveryLiveCircleHasAnOwner
  <2>2. CASE w = u
    BY <2>1, <2>2 DEF DeleteAccount, LastOwnerOf, OtherOwner, IsOwner
  <2> QED BY <2>1, <2>2
<1> QED BY <1>1 DEF DeleteAccount, IsOwner

LEMMA OwnersStep ==
  ASSUME TypeOK, EveryLiveCircleHasAnOwner, [Next]_vars
  PROVE  EveryLiveCircleHasAnOwner'
<1>1. CASE UNCHANGED memberVars
  BY <1>1, OwnersAreKept DEF memberVars
<1>2. ASSUME NEW s \in Sessions, SignIn(s) PROVE EveryLiveCircleHasAnOwner'
  <2>1. CASE \E c \in Circles : AcceptInvitation(s, c)
    BY <2>1, OwnersAreKept DEF AcceptInvitation
  <2> QED
    BY <1>1, <1>2, <2>1 DEF SignIn, ResolveAccount, CheckMembership, IssueSession, EndSession
<1>3. ASSUME NEW s \in Sessions, Request(s) PROVE EveryLiveCircleHasAnOwner'
  BY <1>1, <1>3 DEF Request, VerifyRequest, RevokeRefused, ReadMemberships, ReadContext, Abandon
<1>4. ASSUME NEW s \in Sessions, Mutate(s) PROVE EveryLiveCircleHasAnOwner'
  <2>1. UserOf[s] \in Users
    BY CirclesAssumption
  <2>2. ASSUME NEW c \in Circles, Select(s, c) PROVE EveryLiveCircleHasAnOwner'
    BY <1>1, <2>2 DEF Select
  <2>3. ASSUME NEW c \in Circles, Leave(s, c) PROVE EveryLiveCircleHasAnOwner'
    BY <2>1, <2>3, RemovalLeavesAnOwner DEF Leave, Remove
  <2>4. ASSUME NEW c \in Circles, Archive(s, c) PROVE EveryLiveCircleHasAnOwner'
    BY <2>4, OwnersAreKept DEF Archive
  <2>5. ASSUME NEW c \in Circles, NEW v \in Users, Deactivate(s, c, v)
        PROVE  EveryLiveCircleHasAnOwner'
    BY <2>5, RemovalLeavesAnOwner DEF Deactivate, Remove, IsOwner
  <2>6. ASSUME NEW c \in Circles, NEW v \in Users, Reactivate(s, c, v) \/ GrantOwnership(s, c, v)
        PROVE  EveryLiveCircleHasAnOwner'
    BY <2>6, OwnersAreKept DEF Reactivate, GrantOwnership
  <2>7. ASSUME NEW c \in Circles, NEW v \in Users, RevokeOwnership(s, c, v)
        PROVE  EveryLiveCircleHasAnOwner'
    BY <2>7, RemovalLeavesAnOwner DEF RevokeOwnership
  <2> QED BY <1>4, <2>2, <2>3, <2>4, <2>5, <2>6, <2>7, TransferLeavesAnOwner,
             FoundingLeavesAnOwner, DeletionLeavesAnOwner DEF Mutate
<1> QED BY <1>1, <1>2, <1>3, <1>4 DEF Next, vars, memberVars

(* Whatever owners leave, remove, demote, transfer, archive and delete in  *)
(* interleaved requests, a live circle has an active owner.                *)
THEOREM LiveCirclesAreOwned == Spec => []EveryLiveCircleHasAnOwner
<1>1. Init => EveryLiveCircleHasAnOwner
  BY CirclesAssumption DEF Init, EveryLiveCircleHasAnOwner, IsOwner
<1> QED BY <1>1, TypeCorrect, OwnersStep, PTL DEF Spec

-----------------------------------------------------------------------------
(* Sessions and memberships.                                                *)

(* The step of one account's removal from one circle.                      *)
LEMMA LastCircleEndsSessions ==
  ASSUME SessionsOK, NEW t \in Sessions, NEW u, NEW c, Remove(u, c),
         Memberships(UserOf[t]) # {}, Memberships(UserOf[t])' = {}
  PROVE  session'[t] # "live"
<1>1. UserOf[t] = u
  BY DEF Remove, Memberships
<1>2. ~RemainsIn(u, c)
  BY <1>1 DEF Remove, Memberships, RemainsIn
<1> QED BY <1>1, <1>2 DEF Remove, SignedOut, LiveSessions, SessionsOK

LEMMA ArchiveStrandsNobody ==
  ASSUME MembersOK, NEW s \in Sessions, NEW c \in Circles, Archive(s, c), NEW u \in Users,
         Memberships(u) # {}
  PROVE  Memberships(u)' # {}
<1>1. CASE <<c, u>> \in active
  BY <1>1 DEF Archive, Stranded, RemainsIn, Memberships
<1>2. CASE <<c, u>> \notin active
  BY <1>2 DEF Archive, Memberships
<1> QED BY <1>1, <1>2

LEMMA DeletionEndsSessions ==
  ASSUME SessionsOK, NEW s \in Sessions, DeleteAccount(s), NEW t \in Sessions,
         Memberships(UserOf[t]) # {}, Memberships(UserOf[t])' = {}
  PROVE  session'[t] # "live"
<1>1. UserOf[t] = UserOf[s]
  BY DEF DeleteAccount, Memberships
<1> QED BY <1>1 DEF DeleteAccount, SignedOut, LiveSessions, SessionsOK

LEMMA MembershipsAreKept ==
  ASSUME live \subseteq live', active \subseteq active', NEW u, Memberships(u) # {}
  PROVE  Memberships(u)' # {}
BY DEF Memberships

LEMMA LosingStep ==
  ASSUME TypeOK, [Next]_vars, NEW t \in Sessions,
         Memberships(UserOf[t]) # {}, Memberships(UserOf[t])' = {}
  PROVE  session'[t] # "live"
<1> USE DEF TypeOK
<1>0. ~(live \subseteq live' /\ active \subseteq active')
  BY MembershipsAreKept
<1>1. PICK s \in Sessions : SignIn(s) \/ Request(s) \/ Mutate(s)
  BY <1>0 DEF Next, vars
<1>2. ~SignIn(s)
  BY <1>0 DEF SignIn, ResolveAccount, CheckMembership, AcceptInvitation, IssueSession, EndSession,
              memberVars
<1>3. ~Request(s)
  BY <1>0 DEF Request, VerifyRequest, RevokeRefused, ReadMemberships, ReadContext, Abandon, memberVars
<1>4. \A c \in Circles : ~Select(s, c) /\ ~Found(s, c)
  BY <1>0 DEF Select, Found, memberVars
<1>5. \A c \in Circles, v \in Users :
        ~Reactivate(s, c, v) /\ ~TransferOwnership(s, c, v)
          /\ ~GrantOwnership(s, c, v) /\ ~RevokeOwnership(s, c, v)
  BY <1>0 DEF Reactivate, TransferOwnership, GrantOwnership, RevokeOwnership
<1>6. \A c \in Circles : ~Archive(s, c)
  BY ArchiveStrandsNobody, CirclesAssumption
<1>7. CASE \E c \in Circles : Leave(s, c)
  BY <1>7, LastCircleEndsSessions DEF Leave
<1>8. CASE \E c \in Circles, v \in Users : Deactivate(s, c, v)
  BY <1>8, LastCircleEndsSessions DEF Deactivate
<1>9. CASE DeleteAccount(s)
  BY <1>9, DeletionEndsSessions
<1> QED BY <1>1, <1>2, <1>3, <1>4, <1>5, <1>6, <1>7, <1>8, <1>9 DEF Mutate

(* Losing the last circle, by whichever step, ends the account's sessions. *)
THEOREM LastCircleIsLastSession == Spec => LosingTheLastCircleSignsOut
<1>1. TypeOK /\ [Next]_vars =>
        [\A s \in Sessions : Memberships(UserOf[s]) # {} /\ Memberships(UserOf[s])' = {}
           => session'[s] # "live"]_vars
  BY LosingStep
<1> QED BY <1>1, TypeCorrect, PTL DEF Spec, LosingTheLastCircleSignsOut

(* The session part of a step: where a session is live afterwards, it was  *)
(* live before or has just been issued.                                    *)
LEMMA LiveOnlyByIssue ==
  ASSUME TypeOK, [Next]_vars, NEW t \in Sessions, session'[t] = "live"
  PROVE  \/ session[t] = "live"
         \/ session[t] = "eligible" /\ UserOf[t] \notin erased /\ UNCHANGED <<memberVars, request>>
<1> USE DEF TypeOK, SessionsOK
<1> SUFFICES ASSUME session[t] # "live"
             PROVE  session[t] = "eligible" /\ UserOf[t] \notin erased
                      /\ UNCHANGED <<memberVars, request>>
  OBVIOUS
<1>1. PICK s \in Sessions : SignIn(s) \/ Request(s) \/ Mutate(s)
  BY DEF Next, vars
<1>2. \A u : session' # SignedOut(u)
  BY DEF SignedOut
<1>3. session' # session
  OBVIOUS
<1>4. ~Request(s)
  BY <1>2, <1>3 DEF Request, VerifyRequest, RevokeRefused, ReadMemberships, ReadContext, Abandon
<1>5. ~Mutate(s)
  BY <1>2, <1>3
     DEF Mutate, Select, Leave, Found, Archive, Deactivate, Reactivate, TransferOwnership,
         GrantOwnership, RevokeOwnership, DeleteAccount, Remove
<1>6. IssueSession(s) /\ s = t
  BY <1>1, <1>3, <1>4, <1>5
     DEF SignIn, ResolveAccount, CheckMembership, AcceptInvitation, IssueSession, EndSession
<1> QED BY <1>6 DEF IssueSession, Issued

(* A tombstone appears only in the step that ends its sessions.            *)
LEMMA ErasedOnlyByDeletion ==
  ASSUME [Next]_vars
  PROVE  erased' = erased \/ \E s \in Sessions : DeleteAccount(s)
<1>1. CASE UNCHANGED vars
  BY <1>1 DEF vars
<1>2. ASSUME NEW s \in Sessions, SignIn(s) PROVE erased' = erased
  BY <1>2 DEF SignIn, ResolveAccount, CheckMembership, AcceptInvitation, IssueSession, EndSession,
              memberVars
<1>3. ASSUME NEW s \in Sessions, Request(s) PROVE erased' = erased
  BY <1>3 DEF Request, VerifyRequest, RevokeRefused, ReadMemberships, ReadContext, Abandon, memberVars
<1>4. ASSUME NEW s \in Sessions, Mutate(s) PROVE erased' = erased \/ DeleteAccount(s)
  <2>1. ASSUME NEW c \in Circles, Select(s, c) \/ Leave(s, c) \/ Found(s, c) \/ Archive(s, c)
        PROVE  erased' = erased
    BY <2>1 DEF Select, Leave, Found, Archive, Remove, memberVars
  <2>2. ASSUME NEW c \in Circles, NEW v \in Users,
               \/ Deactivate(s, c, v) \/ Reactivate(s, c, v) \/ TransferOwnership(s, c, v)
               \/ GrantOwnership(s, c, v) \/ RevokeOwnership(s, c, v)
        PROVE  erased' = erased
    BY <2>2 DEF Deactivate, Reactivate, TransferOwnership, GrantOwnership, RevokeOwnership, Remove
  <2> QED BY <1>4, <2>1, <2>2 DEF Mutate
<1> QED BY <1>1, <1>2, <1>3, <1>4 DEF Next

LEMMA ErasedStep ==
  ASSUME TypeOK, ErasedAreSignedOut, [Next]_vars
  PROVE  ErasedAreSignedOut'
<1> SUFFICES ASSUME NEW t \in Sessions, session'[t] = "live" PROVE UserOf[t] \notin erased'
  BY DEF ErasedAreSignedOut
<1>1. CASE erased' = erased
  BY <1>1, LiveOnlyByIssue DEF ErasedAreSignedOut
<1>2. ASSUME NEW s \in Sessions, DeleteAccount(s) PROVE UserOf[t] \notin erased'
  BY <1>2 DEF DeleteAccount, SignedOut, LiveSessions, ErasedAreSignedOut, TypeOK, SessionsOK
<1> QED BY <1>1, <1>2, ErasedOnlyByDeletion

(* A sign-in that was under way when its account was deleted gets no       *)
(* session.                                                                 *)
THEOREM DeletedAreSignedOut == Spec => []ErasedAreSignedOut
<1>1. Init => ErasedAreSignedOut
  BY DEF Init, ErasedAreSignedOut
<1> QED BY <1>1, TypeCorrect, ErasedStep, PTL DEF Spec

-----------------------------------------------------------------------------
(* Authority.  AuthorityFollowsMembership is not inductive by itself: a     *)
(* sign-in writes its session row without looking at memberships, so it     *)
(* matters that only a session that has been live has a request.            *)
RequestsAfterIssue ==
  \A s \in Sessions : request[s].open => session[s] \in {"live", "ended"}

AuthorityInv == TypeOK /\ RequestsAfterIssue /\ AuthorityFollowsMembership

(* A request opens only in VerifyRequest, for a live session of a member.  *)
LEMMA OpenOnlyByVerify ==
  ASSUME TypeOK, [Next]_vars, NEW t \in Sessions, request'[t].open
  PROVE  \/ request[t].open
         \/ /\ session[t] = "live" /\ Memberships(UserOf[t]) # {}
            /\ UNCHANGED <<memberVars, session>>
<1> USE DEF TypeOK, RequestsOK
<1> SUFFICES ASSUME ~request[t].open
             PROVE  /\ session[t] = "live" /\ Memberships(UserOf[t]) # {}
                    /\ UNCHANGED <<memberVars, session>>
  OBVIOUS
<1>1. request' # request
  OBVIOUS
<1>2. ~NoRequest.open /\ ~Refused.open
  BY DEF NoRequest, Refused
<1>3. \A s \in Sessions : ~Close(s)
  BY <1>2 DEF Close
<1>4. PICK s \in Sessions : VerifyRequest(s) \/ ReadMemberships(s) \/ ReadContext(s)
  <2>1. PICK s \in Sessions : SignIn(s) \/ Request(s) \/ Mutate(s)
    BY <1>1 DEF Next, vars
  <2>2. ~SignIn(s)
    BY <1>1 DEF SignIn, ResolveAccount, CheckMembership, AcceptInvitation, IssueSession, EndSession
  <2>3. ~Mutate(s)
    BY <1>3 DEF Mutate, Select, Leave, Found, Archive, Deactivate, Reactivate, TransferOwnership,
                GrantOwnership, RevokeOwnership, DeleteAccount
  <2> QED BY <1>3, <2>1, <2>2, <2>3 DEF Request, RevokeRefused, Abandon
<1>5. s = t
  BY <1>4 DEF VerifyRequest, ReadMemberships, ReadContext
<1>6. VerifyRequest(t) /\ Memberships(UserOf[t]) # {}
  BY <1>2, <1>4, <1>5 DEF VerifyRequest, ReadMemberships, ReadContext
<1> QED BY <1>6 DEF VerifyRequest

LEMMA IssuedStaysIssued ==
  ASSUME TypeOK, [Next]_vars, NEW t \in Sessions, session[t] \in {"live", "ended"}
  PROVE  session'[t] \in {"live", "ended"}
<1> USE DEF TypeOK, SessionsOK
<1>1. CASE session' = session
  BY <1>1
<1>2. CASE \E u : session' = SignedOut(u)
  BY <1>2 DEF SignedOut
<1>3. ASSUME NEW s \in Sessions, SignIn(s) PROVE session'[t] \in {"live", "ended"}
  BY <1>3 DEF SignIn, ResolveAccount, CheckMembership, AcceptInvitation, IssueSession, EndSession
<1>4. ASSUME NEW s \in Sessions, Request(s) PROVE session'[t] \in {"live", "ended"}
  BY <1>1, <1>2, <1>4 DEF Request, VerifyRequest, RevokeRefused, ReadMemberships, ReadContext, Abandon
<1>5. ASSUME NEW s \in Sessions, Mutate(s) PROVE session'[t] \in {"live", "ended"}
  BY <1>1, <1>2, <1>5
     DEF Mutate, Select, Leave, Found, Archive, Deactivate, Reactivate, TransferOwnership,
         GrantOwnership, RevokeOwnership, DeleteAccount, Remove
<1> QED BY <1>1, <1>3, <1>4, <1>5 DEF Next, vars

LEMMA AuthorityStep ==
  ASSUME AuthorityInv, [Next]_vars
  PROVE  AuthorityInv'
<1> USE DEF AuthorityInv
<1>1. TypeOK'
  BY StepTyped
<1>2. RequestsAfterIssue'
  <2> SUFFICES ASSUME NEW t \in Sessions, request'[t].open PROVE session'[t] \in {"live", "ended"}
    BY DEF RequestsAfterIssue
  <2>1. session[t] \in {"live", "ended"}
    BY OpenOnlyByVerify DEF RequestsAfterIssue
  <2> QED BY <2>1, IssuedStaysIssued
<1>3. AuthorityFollowsMembership'
  <2> SUFFICES ASSUME NEW t \in Sessions, request'[t].open, session'[t] = "live",
                      Memberships(UserOf[t])' = {}
               PROVE  FALSE
    BY DEF AuthorityFollowsMembership
  <2>1. CASE request[t].open
    <3>1. session[t] = "live"
      BY <2>1, LiveOnlyByIssue DEF RequestsAfterIssue
    <3>2. Memberships(UserOf[t]) # {}
      BY <2>1, <3>1 DEF AuthorityFollowsMembership
    <3> QED BY <3>2, LosingStep
  <2>2. CASE Memberships(UserOf[t]) # {} /\ UNCHANGED <<memberVars, session>>
    BY <2>2, LosingStep
  <2> QED BY <2>1, <2>2, OpenOnlyByVerify
<1> QED BY <1>1, <1>2, <1>3

LEMMA AuthorityInvariant == Spec => []AuthorityInv
<1>1. Init => AuthorityInv
  BY InitTyped DEF Init, AuthorityInv, RequestsAfterIssue, AuthorityFollowsMembership, NoRequest
<1> QED BY <1>1, AuthorityStep, PTL DEF Spec

(* An authenticated request whose session is live comes from a member, so  *)
(* creation and selection may rely on the check made when it began.        *)
THEOREM RequestsComeFromMembers == Spec => []AuthorityFollowsMembership
BY AuthorityInvariant, PTL DEF AuthorityInv

-----------------------------------------------------------------------------
(* Context versions.  An archive deletes the context rows of accounts that *)
(* it leaves without a circle, and a deleted row would start again from     *)
(* version zero: it takes an invariant to see that no live session has one. *)
ContextsAfterIssue ==
  \A s \in Sessions : context[s] # NoContext => session[s] \in {"live", "ended"}
SelectionFollowsMembership ==
  \A s \in Sessions :
    session[s] = "live" /\ context[s] # NoContext => Memberships(UserOf[s]) # {}

SelectionInv == AuthorityInv /\ ContextsAfterIssue /\ SelectionFollowsMembership

(* The context rows that a step writes.                                    *)
LEMMA ContextSteps ==
  ASSUME [Next]_vars
  PROVE  \/ context' = context
         \/ \E s \in Sessions, c \in Circles : Select(s, c) \/ Found(s, c) \/ Archive(s, c)
         \/ \E u \in Users, c \in Circles : Remove(u, c)
         \/ \E s \in Sessions : DeleteAccount(s)
<1>1. ASSUME NEW s \in Sessions, SignIn(s) PROVE context' = context
  BY <1>1 DEF SignIn, ResolveAccount, CheckMembership, AcceptInvitation, IssueSession, EndSession
<1>2. ASSUME NEW s \in Sessions, Request(s) PROVE context' = context
  BY <1>2 DEF Request, VerifyRequest, RevokeRefused, ReadMemberships, ReadContext, Abandon
<1>3. ASSUME NEW s \in Sessions, NEW c \in Circles, NEW v \in Users,
             \/ Reactivate(s, c, v) \/ TransferOwnership(s, c, v)
             \/ GrantOwnership(s, c, v) \/ RevokeOwnership(s, c, v)
      PROVE  context' = context
  BY <1>3 DEF Reactivate, TransferOwnership, GrantOwnership, RevokeOwnership
<1>4. ASSUME NEW s \in Sessions, NEW c \in Circles, Leave(s, c)
      PROVE  \E u \in Users : Remove(u, c)
  BY <1>4, CirclesAssumption DEF Leave
<1>5. ASSUME NEW s \in Sessions, NEW c \in Circles, NEW v \in Users, Deactivate(s, c, v)
      PROVE  Remove(v, c)
  BY <1>5 DEF Deactivate
<1>6. CASE UNCHANGED vars
  BY <1>6 DEF vars
<1>7. CASE \E s \in Sessions : SignIn(s) \/ Request(s)
  BY <1>1, <1>2, <1>7
<1>8. CASE \E s \in Sessions : Mutate(s)
  BY <1>3, <1>4, <1>5, <1>8 DEF Mutate
<1> QED BY <1>6, <1>7, <1>8 DEF Next

LEMMA NoContextIsCircleless ==
  ASSUME NEW c \in Circles
  PROVE  c # NoContext.circle
BY CirclesAssumption DEF NoContext

LEMMA ContextOnlyByMember ==
  ASSUME AuthorityInv, [Next]_vars, NEW t \in Sessions, context[t] = NoContext,
         context'[t] # NoContext
  PROVE  session[t] = "live" /\ session' = session /\ Memberships(UserOf[t])' # {}
<1> USE DEF AuthorityInv, TypeOK, ContextsOK
<1>1. ASSUME NEW s \in Sessions, NEW c \in Circles, Select(s, c) \/ Found(s, c)
      PROVE  session[t] = "live" /\ session' = session /\ Memberships(UserOf[t])' # {}
  <2>1. s = t /\ session[t] = "live" /\ session' = session
    BY <1>1 DEF Select, Found
  <2>2. c \in Memberships(UserOf[t])'
    BY <1>1, <2>1 DEF Select, Found, Memberships, memberVars
  <2> QED BY <2>1, <2>2
<1>2. ASSUME NEW u, NEW c \in Circles, Remove(u, c) PROVE FALSE
  BY <1>2, NoContextIsCircleless DEF Remove, Bumped
<1>3. ASSUME NEW s \in Sessions, NEW c \in Circles, Archive(s, c) PROVE FALSE
  BY <1>3, NoContextIsCircleless DEF Archive, Moved
<1>4. ASSUME NEW s \in Sessions, DeleteAccount(s) PROVE FALSE
  BY <1>4 DEF DeleteAccount
<1> QED BY <1>1, <1>2, <1>3, <1>4, ContextSteps

LEMMA SelectionStep ==
  ASSUME SelectionInv, [Next]_vars
  PROVE  SelectionInv'
<1> USE DEF SelectionInv
<1>1. AuthorityInv'
  BY AuthorityStep
<1>2. TypeOK
  BY DEF AuthorityInv
<1>3. ContextsAfterIssue'
  <2> SUFFICES ASSUME NEW t \in Sessions, context'[t] # NoContext
               PROVE  session'[t] \in {"live", "ended"}
    BY DEF ContextsAfterIssue, NoContext
  <2>1. session[t] \in {"live", "ended"}
    BY ContextOnlyByMember DEF ContextsAfterIssue
  <2> QED BY <1>2, <2>1, IssuedStaysIssued
<1>4. SelectionFollowsMembership'
  <2> SUFFICES ASSUME NEW t \in Sessions, session'[t] = "live", context'[t] # NoContext,
                      Memberships(UserOf[t])' = {}
               PROVE  FALSE
    BY DEF SelectionFollowsMembership, NoContext
  <2>1. context[t] # NoContext
    BY ContextOnlyByMember
  <2>2. session[t] = "live"
    BY <1>2, <2>1, LiveOnlyByIssue DEF ContextsAfterIssue
  <2>3. Memberships(UserOf[t]) # {}
    BY <2>1, <2>2 DEF SelectionFollowsMembership
  <2> QED BY <1>2, <2>3, LosingStep
<1> QED BY <1>1, <1>3, <1>4

LEMMA SelectionInvariant == Spec => []SelectionInv
<1>1. Init => SelectionInv
  BY InitTyped DEF Init, SelectionInv, AuthorityInv, RequestsAfterIssue, AuthorityFollowsMembership,
                   NoRequest, ContextsAfterIssue, SelectionFollowsMembership
<1> QED BY <1>1, SelectionStep, PTL DEF Spec

(* What VersionsAreNeverReused says of one session.                         *)
VersionGrows(t) ==
  /\ context'[t].version >= context[t].version
  /\ HasSelected(t) /\ (~HasSelected(t)' \/ context'[t].circle # context[t].circle)
       => context'[t].version > context[t].version

LEMMA VersionStays ==
  ASSUME ContextsOK, NEW t \in Sessions, context'[t] = context[t],
         HasSelected(t) => context[t].circle \in Memberships(UserOf[t])'
  PROVE  VersionGrows(t)
BY ContextFields DEF VersionGrows, HasSelected

LEMMA VersionMoves ==
  ASSUME ContextsOK, NEW t \in Sessions, context'[t].version = NextVersion(context[t])
  PROVE  VersionGrows(t)
BY ContextFields DEF VersionGrows, NextVersion

LEMMA ArchiveMovesVersions ==
  ASSUME SelectionInv, NEW s \in Sessions, NEW c \in Circles, Archive(s, c),
         NEW t \in Sessions, session[t] = "live"
  PROVE  VersionGrows(t)
<1> USE DEF SelectionInv, AuthorityInv, TypeOK
<1>1. CASE context[t].circle # c
  <2>1. context'[t] = context[t]
    BY <1>1 DEF Archive, Moved
  <2>2. HasSelected(t) => context[t].circle \in Memberships(UserOf[t])'
    BY <1>1 DEF Archive, HasSelected, Memberships
  <2> QED BY <2>1, <2>2, VersionStays
<1>2. CASE context[t].circle = c
  <2>1. RemainsIn(UserOf[t], c)
    <3>1. Memberships(UserOf[t]) # {}
      BY <1>2, NoContextIsCircleless DEF SelectionFollowsMembership
    <3>2. CASE <<c, UserOf[t]>> \in active
      BY <3>2, CirclesAssumption DEF Archive, Stranded
    <3>3. CASE <<c, UserOf[t]>> \notin active
      BY <3>1, <3>3 DEF RemainsIn, Memberships
    <3> QED BY <3>2, <3>3
  <2>2. context'[t].version = NextVersion(context[t])
    BY <1>2, <2>1 DEF Archive, Moved
  <2> QED BY <2>2, VersionMoves
<1> QED BY <1>1, <1>2

LEMMA VersionStep ==
  ASSUME SelectionInv, [Next]_vars, NEW t \in Sessions, session[t] = "live", session'[t] = "live"
  PROVE  VersionGrows(t)
<1> USE DEF SelectionInv, AuthorityInv, TypeOK, SessionsOK
<1>1. ASSUME NEW s \in Sessions, NEW c \in Circles, Select(s, c) \/ Found(s, c)
      PROVE  VersionGrows(t)
  <2>1. CASE t = s
    BY <1>1, <2>1, VersionMoves DEF Select, Found, ContextsOK
  <2>2. CASE t # s
    <3>1. context'[t] = context[t]
      BY <1>1, <2>2 DEF Select, Found, ContextsOK
    <3>2. HasSelected(t) => context[t].circle \in Memberships(UserOf[t])'
      BY <1>1 DEF Select, Found, HasSelected, Memberships, memberVars
    <3> QED BY <3>1, <3>2, VersionStays
  <2> QED BY <2>1, <2>2
<1>2. ASSUME NEW u, NEW c \in Circles, Remove(u, c) PROVE VersionGrows(t)
  <2>1. CASE UserOf[t] = u /\ context[t].circle = c
    BY <1>2, <2>1, VersionMoves DEF Remove, Bumped
  <2>2. CASE ~(UserOf[t] = u /\ context[t].circle = c)
    <3>1. context'[t] = context[t]
      BY <1>2, <2>2 DEF Remove, Bumped
    <3>2. HasSelected(t) => context[t].circle \in Memberships(UserOf[t])'
      BY <1>2, <2>2 DEF Remove, HasSelected, Memberships
    <3> QED BY <3>1, <3>2, VersionStays
  <2> QED BY <2>1, <2>2
<1>3. ASSUME NEW s \in Sessions, DeleteAccount(s) PROVE VersionGrows(t)
  <2>1. UserOf[t] # UserOf[s]
    BY <1>3 DEF DeleteAccount, SignedOut, LiveSessions
  <2>2. context'[t] = context[t]
    BY <1>3, <2>1 DEF DeleteAccount
  <2>3. HasSelected(t) => context[t].circle \in Memberships(UserOf[t])'
    BY <1>3, <2>1 DEF DeleteAccount, HasSelected, Memberships
  <2> QED BY <2>2, <2>3, VersionStays
<1>4. CASE context' = context
  <2>1. HasSelected(t) => context[t].circle \in Memberships(UserOf[t])'
    <3> SUFFICES ASSUME HasSelected(t), context[t].circle \notin Memberships(UserOf[t])'
                 PROVE  FALSE
      OBVIOUS
    <3>1. ~(live \subseteq live' /\ active \subseteq active')
      BY DEF HasSelected, Memberships
    <3>2. \A c \in Circles, u \in Users : ~Remove(u, c)
      <4> SUFFICES ASSUME NEW c \in Circles, NEW u \in Users, Remove(u, c) PROVE FALSE
        OBVIOUS
      <4>1. UserOf[t] = u /\ context[t].circle = c
        BY DEF Remove, HasSelected, Memberships
      <4>2. context'[t].version = context[t].version + 1
        BY <4>1 DEF Remove, Bumped, NextVersion
      <4> QED BY <1>4, <4>2, ContextFields
    <3>3. \A s \in Sessions, c \in Circles : ~Archive(s, c)
      <4> SUFFICES ASSUME NEW s \in Sessions, NEW c \in Circles, Archive(s, c) PROVE FALSE
        OBVIOUS
      <4>1. VersionGrows(t)
        BY ArchiveMovesVersions
      <4> QED BY <1>4, <4>1, ContextFields DEF VersionGrows, HasSelected
    <3>4. \A s \in Sessions : ~DeleteAccount(s)
      <4> SUFFICES ASSUME NEW s \in Sessions, DeleteAccount(s) PROVE FALSE
        OBVIOUS
      <4>1. UserOf[t] = UserOf[s]
        BY DEF DeleteAccount, HasSelected, Memberships
      <4> QED BY <4>1 DEF DeleteAccount, SignedOut, LiveSessions
    <3>5. PICK s \in Sessions : SignIn(s) \/ Request(s) \/ Mutate(s)
      BY <3>1 DEF Next, vars
    <3>6. ~SignIn(s) /\ ~Request(s)
      BY <3>1 DEF SignIn, ResolveAccount, CheckMembership, AcceptInvitation, IssueSession, EndSession,
                  Request, VerifyRequest, RevokeRefused, ReadMemberships, ReadContext, Abandon,
                  memberVars
    <3>7. \A c \in Circles : ~Select(s, c) /\ ~Found(s, c)
      BY <3>1 DEF Select, Found, memberVars
    <3>8. \A c \in Circles, v \in Users :
            ~Reactivate(s, c, v) /\ ~TransferOwnership(s, c, v)
              /\ ~GrantOwnership(s, c, v) /\ ~RevokeOwnership(s, c, v)
      BY <3>1 DEF Reactivate, TransferOwnership, GrantOwnership, RevokeOwnership
    <3>9. ~ \E c \in Circles : Select(s, c) \/ Leave(s, c) \/ Found(s, c) \/ Archive(s, c)
      <4>1. \A c \in Circles : ~Leave(s, c)
        BY <3>2, CirclesAssumption DEF Leave
      <4> QED BY <3>3, <3>7, <4>1
    <3>10. ~ \E c \in Circles, v \in Users :
               \/ Deactivate(s, c, v) \/ Reactivate(s, c, v)
               \/ TransferOwnership(s, c, v) \/ GrantOwnership(s, c, v) \/ RevokeOwnership(s, c, v)
      <4>1. \A c \in Circles, v \in Users : ~Deactivate(s, c, v)
        BY <3>2 DEF Deactivate
      <4> QED BY <3>8, <4>1
    <3> QED BY <3>4, <3>5, <3>6, <3>9, <3>10 DEF Mutate
  <2> QED BY <1>4, <2>1, VersionStays
<1> QED BY <1>1, <1>2, <1>3, <1>4, ArchiveMovesVersions, ContextSteps

(* While a session lives its context version never falls, and it grows with *)
(* every step that takes its selected circle away or selects another: a    *)
(* version a page remembers from before is refused for ever.               *)
THEOREM VersionsGrow == Spec => VersionsAreNeverReused
<1>1. SelectionInv /\ [Next]_vars =>
        [\A s \in Sessions : session[s] = "live" /\ session'[s] = "live" =>
           /\ context'[s].version >= context[s].version
           /\ HasSelected(s) /\ (~HasSelected(s)' \/ context'[s].circle # context[s].circle)
                => context'[s].version > context[s].version]_vars
  BY VersionStep DEF VersionGrows
<1> QED BY <1>1, SelectionInvariant, PTL DEF Spec, VersionsAreNeverReused
-----------------------------------------------------------------------------
(* The parts beside circles: each behaviour of the composition is one of the *)
(* part that its first state chose, and every other part stands still.       *)
authorityVars == <<subject, vars, flagVars, pairVars, signVars, inviteVars>>

LEMMA SubjectStays == [AuthorityNext]_authorityVars => subject' = subject
BY DEF AuthorityNext, authorityVars

LEMMA FlagsRun == AuthoritySpec => Choices!Flags!Spec
<1>1. AuthorityInit => Choices!Flags!Init
  BY DEF AuthorityInit
<1>2. [AuthorityNext]_authorityVars => [Choices!Flags!Next]_(Choices!Flags!vars)
  BY DEF AuthorityNext, authorityVars, flagVars, Choices!Flags!vars
<1> QED BY <1>1, <1>2, PTL DEF AuthoritySpec, authorityVars, Choices!Flags!Spec

LEMMA ChoicesRuns == AuthoritySpec => [](~(subject = "choices")) \/ Choices!Spec
<1>1. AuthorityInit /\ subject = "choices" => Choices!Init
  BY DEF AuthorityInit, PairInit
<1>2. [AuthorityNext]_authorityVars /\ subject = "choices" => [Choices!Next]_(Choices!vars)
  BY DEF AuthorityNext, authorityVars, PairNext, InviteNext,
         pairVars, Choices!vars, Choices!availabilityVars, Choices!pairingVars
<1>3. [AuthorityNext]_authorityVars => ((subject = "choices") <=> (subject = "choices")')
  BY SubjectStays
<1> QED BY <1>1, <1>2, <1>3, PTL DEF AuthoritySpec, authorityVars, Choices!Spec

LEMMA SeasonsRuns == AuthoritySpec => [](~(subject = "seasons")) \/ Seasons!Spec
<1>1. AuthorityInit /\ subject = "seasons" => Seasons!Init
  BY DEF AuthorityInit, PairInit
<1>2. [AuthorityNext]_authorityVars /\ subject = "seasons" => [Seasons!Next]_(Seasons!vars)
  BY DEF AuthorityNext, authorityVars, PairNext, InviteNext,
         pairVars, Seasons!vars, Seasons!availabilityVars, Seasons!pairingVars
<1>3. [AuthorityNext]_authorityVars => ((subject = "seasons") <=> (subject = "seasons")')
  BY SubjectStays
<1> QED BY <1>1, <1>2, <1>3, PTL DEF AuthoritySpec, authorityVars, Seasons!Spec

LEMMA BatchRuns == AuthoritySpec => [](~(subject = "batch")) \/ Batch!Spec
<1>1. AuthorityInit /\ subject = "batch" => Batch!Init
  BY DEF AuthorityInit, PairInit
<1>2. [AuthorityNext]_authorityVars /\ subject = "batch" => [Batch!Next]_(Batch!vars)
  BY DEF AuthorityNext, authorityVars, PairNext, InviteNext,
         pairVars, Batch!vars, Batch!availabilityVars, Batch!pairingVars
<1>3. [AuthorityNext]_authorityVars => ((subject = "batch") <=> (subject = "batch")')
  BY SubjectStays
<1> QED BY <1>1, <1>2, <1>3, PTL DEF AuthoritySpec, authorityVars, Batch!Spec

LEMMA OverflowRuns == AuthoritySpec => [](~(subject = "overflow")) \/ Overflow!Spec
<1>1. AuthorityInit /\ subject = "overflow" => Overflow!Init
  BY DEF AuthorityInit, PairInit
<1>2. [AuthorityNext]_authorityVars /\ subject = "overflow" => [Overflow!Next]_(Overflow!vars)
  BY DEF AuthorityNext, authorityVars, PairNext, InviteNext,
         pairVars, Overflow!vars, Overflow!availabilityVars, Overflow!pairingVars
<1>3. [AuthorityNext]_authorityVars => ((subject = "overflow") <=> (subject = "overflow")')
  BY SubjectStays
<1> QED BY <1>1, <1>2, <1>3, PTL DEF AuthoritySpec, authorityVars, Overflow!Spec

LEMMA LinkingRuns == AuthoritySpec => [](~(subject = "linking")) \/ Linking!Spec
<1>1. AuthorityInit /\ subject = "linking" => Linking!Init
  BY DEF AuthorityInit
<1>2. [AuthorityNext]_authorityVars /\ subject = "linking" => [Linking!Next]_(Linking!vars)
  BY DEF AuthorityNext, authorityVars, PairNext, InviteNext,
         signVars, Linking!vars
<1>3. [AuthorityNext]_authorityVars => ((subject = "linking") <=> (subject = "linking")')
  BY SubjectStays
<1> QED BY <1>1, <1>2, <1>3, PTL DEF AuthoritySpec, authorityVars, Linking!Spec

LEMMA ResettingRuns == AuthoritySpec => [](~(subject = "resetting")) \/ Resetting!Spec
<1>1. AuthorityInit /\ subject = "resetting" => Resetting!Init
  BY DEF AuthorityInit
<1>2. [AuthorityNext]_authorityVars /\ subject = "resetting" => [Resetting!Next]_(Resetting!vars)
  BY DEF AuthorityNext, authorityVars, PairNext, InviteNext,
         signVars, Resetting!vars
<1>3. [AuthorityNext]_authorityVars => ((subject = "resetting") <=> (subject = "resetting")')
  BY SubjectStays
<1> QED BY <1>1, <1>2, <1>3, PTL DEF AuthoritySpec, authorityVars, Resetting!Spec

LEMMA VerifyingRuns == AuthoritySpec => [](~(subject = "verifying")) \/ Choices!Joining!Spec
<1>1. AuthorityInit /\ subject = "verifying" => Choices!Joining!Init
  BY DEF AuthorityInit, InviteInit
<1>2. [AuthorityNext]_authorityVars /\ subject = "verifying" => [Choices!Joining!Next]_(Choices!Joining!vars)
  BY DEF AuthorityNext, authorityVars, PairNext, InviteNext,
         inviteVars, Choices!Joining!vars
<1>3. [AuthorityNext]_authorityVars => ((subject = "verifying") <=> (subject = "verifying")')
  BY SubjectStays
<1> QED BY <1>1, <1>2, <1>3, PTL DEF AuthoritySpec, authorityVars, Choices!Joining!Spec

LEMMA TwiceRuns == AuthoritySpec => [](~(subject = "twice")) \/ Seasons!Joining!Spec
<1>1. AuthorityInit /\ subject = "twice" => Seasons!Joining!Init
  BY DEF AuthorityInit, InviteInit
<1>2. [AuthorityNext]_authorityVars /\ subject = "twice" => [Seasons!Joining!Next]_(Seasons!Joining!vars)
  BY DEF AuthorityNext, authorityVars, PairNext, InviteNext,
         inviteVars, Seasons!Joining!vars
<1>3. [AuthorityNext]_authorityVars => ((subject = "twice") <=> (subject = "twice")')
  BY SubjectStays
<1> QED BY <1>1, <1>2, <1>3, PTL DEF AuthoritySpec, authorityVars, Seasons!Joining!Spec

LEMMA InvitingRuns == AuthoritySpec => [](~(subject = "inviting")) \/ Batch!Joining!Spec
<1>1. AuthorityInit /\ subject = "inviting" => Batch!Joining!Init
  BY DEF AuthorityInit, InviteInit
<1>2. [AuthorityNext]_authorityVars /\ subject = "inviting" => [Batch!Joining!Next]_(Batch!Joining!vars)
  BY DEF AuthorityNext, authorityVars, PairNext, InviteNext,
         inviteVars, Batch!Joining!vars
<1>3. [AuthorityNext]_authorityVars => ((subject = "inviting") <=> (subject = "inviting")')
  BY SubjectStays
<1> QED BY <1>1, <1>2, <1>3, PTL DEF AuthoritySpec, authorityVars, Batch!Joining!Spec

LEMMA ElsewhereRuns == AuthoritySpec => [](~(subject = "elsewhere")) \/ Overflow!Joining!Spec
<1>1. AuthorityInit /\ subject = "elsewhere" => Overflow!Joining!Init
  BY DEF AuthorityInit, InviteInit
<1>2. [AuthorityNext]_authorityVars /\ subject = "elsewhere" => [Overflow!Joining!Next]_(Overflow!Joining!vars)
  BY DEF AuthorityNext, authorityVars, PairNext, InviteNext,
         inviteVars, Overflow!Joining!vars
<1>3. [AuthorityNext]_authorityVars => ((subject = "elsewhere") <=> (subject = "elsewhere")')
  BY SubjectStays
<1> QED BY <1>1, <1>2, <1>3, PTL DEF AuthoritySpec, authorityVars, Overflow!Joining!Spec

(* Every row, request, tab, letter and job of every part has its type, and a *)
(* tombstone is no administrator.                                            *)
THEOREM PartsAreTyped == AuthoritySpec => []PartTypesOK
<1>1. AuthoritySpec => [](subject = "choices" => Choices!TypeOK)
  <2>1. Choices!Spec => []Choices!TypeOK
    BY InstancesAreLegal, Choices!PairingTyped
  <2> QED BY <2>1, ChoicesRuns, PTL
<1>2. AuthoritySpec => [](subject = "seasons" => Seasons!TypeOK)
  <2>1. Seasons!Spec => []Seasons!TypeOK
    BY InstancesAreLegal, Seasons!PairingTyped
  <2> QED BY <2>1, SeasonsRuns, PTL
<1>3. AuthoritySpec => [](subject = "batch" => Batch!TypeOK)
  <2>1. Batch!Spec => []Batch!TypeOK
    BY InstancesAreLegal, Batch!PairingTyped
  <2> QED BY <2>1, BatchRuns, PTL
<1>4. AuthoritySpec => [](subject = "overflow" => Overflow!TypeOK)
  <2>1. Overflow!Spec => []Overflow!TypeOK
    BY InstancesAreLegal, Overflow!PairingTyped
  <2> QED BY <2>1, OverflowRuns, PTL
<1>5. AuthoritySpec => [](subject = "linking" => Linking!TypeOK)
  <2>1. Linking!Spec => []Linking!TypeOK
    BY CredentialsAreLegal, Linking!CredentialsTyped
  <2> QED BY <2>1, LinkingRuns, PTL
<1>6. AuthoritySpec => [](subject = "resetting" => Resetting!TypeOK)
  <2>1. Resetting!Spec => []Resetting!TypeOK
    BY CredentialsAreLegal, Resetting!CredentialsTyped
  <2> QED BY <2>1, ResettingRuns, PTL
<1>7. AuthoritySpec => [](subject = "verifying" => Choices!Joining!TypeOK)
  <2>1. Choices!Joining!Spec => []Choices!Joining!TypeOK
    BY InvitationsAreLegal, Choices!InvitationsTyped
  <2> QED BY <2>1, VerifyingRuns, PTL
<1>8. AuthoritySpec => [](subject = "twice" => Seasons!Joining!TypeOK)
  <2>1. Seasons!Joining!Spec => []Seasons!Joining!TypeOK
    BY InvitationsAreLegal, Seasons!InvitationsTyped
  <2> QED BY <2>1, TwiceRuns, PTL
<1>9. AuthoritySpec => [](subject = "inviting" => Batch!Joining!TypeOK)
  <2>1. Batch!Joining!Spec => []Batch!Joining!TypeOK
    BY InvitationsAreLegal, Batch!InvitationsTyped
  <2> QED BY <2>1, InvitingRuns, PTL
<1>10. AuthoritySpec => [](subject = "elsewhere" => Overflow!Joining!TypeOK)
  <2>1. Overflow!Joining!Spec => []Overflow!Joining!TypeOK
    BY InvitationsAreLegal, Overflow!InvitationsTyped
  <2> QED BY <2>1, ElsewhereRuns, PTL
<1>11. AuthoritySpec => []Choices!Flags!TypeOK
  <2>1. Choices!Flags!Spec => []Choices!Flags!TypeOK
    BY FlagsAreLegal, Choices!TombstonesAdministerNothing
  <2> QED BY <2>1, FlagsRun, PTL
<1> QED BY <1>1, <1>2, <1>3, <1>4, <1>5, <1>6, <1>7, <1>8, <1>9, <1>10, <1>11, PTL DEF PartTypesOK

(* What a tab shows is what the pairing uses, nothing is saved behind a      *)
(* publication, members are told what it says, and the job answers success   *)
(* only for all it listed (api/_pairing-publication.js, api/ops.js).         *)
THEOREM PublicationsStayTrue == AuthoritySpec => []PublicationsAreTrue
<1>1. AuthoritySpec
       => [](subject = "choices" => Choices!ShownIsUsed /\ Choices!SnapshotStands /\ Choices!MailTellsTheSnapshot)
  <2>1. Choices!Spec
         => []Choices!ShownIsUsed /\ []Choices!SnapshotStands /\ []Choices!MailTellsTheSnapshot
    BY InstancesAreLegal, Choices!TabsDoNotLie, Choices!NothingBehindTheSnapshot, Choices!MailAgrees
  <2> QED BY <2>1, ChoicesRuns, PTL
<1>2. AuthoritySpec
       => [](subject = "seasons" => Seasons!ShownIsUsed /\ Seasons!SnapshotStands /\ Seasons!BridgeComesFirst)
  <2>1. Seasons!Spec
         => []Seasons!ShownIsUsed /\ []Seasons!SnapshotStands /\ []Seasons!BridgeComesFirst
    BY InstancesAreLegal, Seasons!TabsDoNotLie, Seasons!NothingBehindTheSnapshot, Seasons!BridgeEnds
  <2> QED BY <2>1, SeasonsRuns, PTL
<1>3. AuthoritySpec
       => [](subject = "batch" =>
                /\ Batch!ShownIsUsed /\ Batch!SnapshotStands /\ Batch!BridgeComesFirst
                /\ Batch!MailTellsTheSnapshot /\ Batch!JobAnswersTruly)
  <2>1. Batch!Spec
         => []Batch!ShownIsUsed /\ []Batch!SnapshotStands /\ []Batch!BridgeComesFirst
         /\ []Batch!MailTellsTheSnapshot /\ []Batch!JobAnswersTruly
    BY InstancesAreLegal, Batch!TabsDoNotLie, Batch!NothingBehindTheSnapshot, Batch!BridgeEnds,
       Batch!MailAgrees, Batch!SuccessIsComplete
  <2> QED BY <2>1, BatchRuns, PTL
<1>4. AuthoritySpec => [](subject = "overflow" => Overflow!JobAnswersTruly)
  <2>1. Overflow!Spec => []Overflow!JobAnswersTruly
    BY InstancesAreLegal, Overflow!SuccessIsComplete
  <2> QED BY <2>1, OverflowRuns, PTL
<1> QED BY <1>1, <1>2, <1>3, <1>4, PTL DEF PublicationsAreTrue

(* An account can always be entered, and an address enters the circle whole  *)
(* or not at all (api/auth.js, api/_invitations.js).                         *)
THEOREM EntryStaysWhole == AuthoritySpec => []EntryIsWhole
<1>1. AuthoritySpec => [](subject = "linking" => Linking!EveryoneCanSignIn)
  <2>1. Linking!Spec => []Linking!EveryoneCanSignIn
    BY CredentialsAreLegal, Linking!NobodyIsLockedOut
  <2> QED BY <2>1, LinkingRuns, PTL
<1>2. AuthoritySpec => [](subject = "resetting" => Resetting!EveryoneCanSignIn)
  <2>1. Resetting!Spec => []Resetting!EveryoneCanSignIn
    BY CredentialsAreLegal, Resetting!NobodyIsLockedOut
  <2> QED BY <2>1, ResettingRuns, PTL
<1>3. AuthoritySpec => [](subject = "verifying" => Choices!Joining!AdmissionsAreWhole)
  <2>1. Choices!Joining!Spec => []Choices!Joining!AdmissionsAreWhole
    BY InvitationsAreLegal, Choices!AdmissionsAreAlwaysWhole
  <2> QED BY <2>1, VerifyingRuns, PTL
<1>4. AuthoritySpec => [](subject = "twice" => Seasons!Joining!AdmissionsAreWhole)
  <2>1. Seasons!Joining!Spec => []Seasons!Joining!AdmissionsAreWhole
    BY InvitationsAreLegal, Seasons!AdmissionsAreAlwaysWhole
  <2> QED BY <2>1, TwiceRuns, PTL
<1>5. AuthoritySpec => [](subject = "inviting" => Batch!Joining!AdmissionsAreWhole)
  <2>1. Batch!Joining!Spec => []Batch!Joining!AdmissionsAreWhole
    BY InvitationsAreLegal, Batch!AdmissionsAreAlwaysWhole
  <2> QED BY <2>1, InvitingRuns, PTL
<1>6. AuthoritySpec => [](subject = "elsewhere" => Overflow!Joining!AdmissionsAreWhole)
  <2>1. Overflow!Joining!Spec => []Overflow!Joining!AdmissionsAreWhole
    BY InvitationsAreLegal, Overflow!AdmissionsAreAlwaysWhole
  <2> QED BY <2>1, ElsewhereRuns, PTL
<1> QED BY <1>1, <1>2, <1>3, <1>4, <1>5, <1>6, PTL DEF EntryIsWhole

(* An administrator by configuration keeps the flag, and colleagues who      *)
(* revoke each other leave one (docs/MEMBER_LIFECYCLE.md:139).               *)
THEOREM AdministratorsRemain == AuthoritySpec => AdminsRemain
<1>1. Choices!Flags!Spec
       => [][Choices!Flags!ConfiguredStaysAdmin]_(Choices!Flags!vars) /\ [][Choices!Flags!RevocationsLeaveAnAdmin]_(Choices!Flags!vars)
  BY FlagsAreLegal, Choices!ConfiguredStays, Choices!SomebodyAdministers
<1>2. [Choices!Flags!ConfiguredStaysAdmin]_(Choices!Flags!vars) /\ [Choices!Flags!RevocationsLeaveAnAdmin]_(Choices!Flags!vars)
        => [Choices!Flags!ConfiguredStaysAdmin /\ Choices!Flags!RevocationsLeaveAnAdmin]_flagVars
  BY DEF flagVars, Choices!Flags!vars
<1> QED BY <1>1, <1>2, FlagsRun, PTL DEF AdminsRemain

(* A stored publication is never replaced, by the job, an owner or both      *)
(* (docs/PAIRING_PUBLICATION_RECOVERY.md).                                   *)
THEOREM PublicationsAreFinal == AuthoritySpec => PublishedOnce
<1>1. AuthoritySpec => [][subject = "choices" => Choices!Kept]_<<subject, pairVars>>
  <2>1. Choices!Spec => [][Choices!Kept]_(Choices!vars)
    BY InstancesAreLegal, Choices!PublicationIsOnce DEF Choices!PublishedOnce
  <2>2. [AuthorityNext]_authorityVars /\ [Choices!Kept]_(Choices!vars)
         => [subject = "choices" => Choices!Kept]_<<subject, pairVars>>
    BY SubjectStays DEF pairVars, Choices!vars, Choices!availabilityVars, Choices!pairingVars
  <2>3. ~(subject = "choices") => [subject = "choices" => Choices!Kept]_<<subject, pairVars>>
    OBVIOUS
  <2> QED BY <2>1, <2>2, <2>3, ChoicesRuns, PTL DEF AuthoritySpec, authorityVars
<1>2. AuthoritySpec => [][subject = "batch" => Batch!Kept]_<<subject, pairVars>>
  <2>1. Batch!Spec => [][Batch!Kept]_(Batch!vars)
    BY InstancesAreLegal, Batch!PublicationIsOnce DEF Batch!PublishedOnce
  <2>2. [AuthorityNext]_authorityVars /\ [Batch!Kept]_(Batch!vars)
         => [subject = "batch" => Batch!Kept]_<<subject, pairVars>>
    BY SubjectStays DEF pairVars, Batch!vars, Batch!availabilityVars, Batch!pairingVars
  <2>3. ~(subject = "batch") => [subject = "batch" => Batch!Kept]_<<subject, pairVars>>
    OBVIOUS
  <2> QED BY <2>1, <2>2, <2>3, BatchRuns, PTL DEF AuthoritySpec, authorityVars
<1> QED BY <1>1, <1>2, PTL DEF PublishedOnce

(* Credentials change for who proved itself, and only a good link lets       *)
(* anyone in, with the password it was sent for (api/auth.js).               *)
THEOREM EntryStaysEarned == AuthoritySpec => EntryIsEarned
<1>1. AuthoritySpec
       => [][subject = "linking" => Linking!CredentialsAnswerProof]_<<subject, signVars, inviteVars>>
  <2>1. Linking!Spec => [][Linking!CredentialsAnswerProof]_(Linking!vars)
    BY CredentialsAreLegal, Linking!CredentialsAreEarned
  <2>2. [AuthorityNext]_authorityVars /\ [Linking!CredentialsAnswerProof]_(Linking!vars)
         => [subject = "linking" => Linking!CredentialsAnswerProof]_<<subject, signVars, inviteVars>>
    BY SubjectStays DEF AuthorityNext, authorityVars, PairNext, InviteNext, signVars, Linking!vars
  <2>3. ~(subject = "linking")
         => [subject = "linking" => Linking!CredentialsAnswerProof]_<<subject, signVars, inviteVars>>
    OBVIOUS
  <2> QED BY <2>1, <2>2, <2>3, LinkingRuns, PTL DEF AuthoritySpec, authorityVars
<1>2. AuthoritySpec
       => [][subject = "resetting" => Resetting!CredentialsAnswerProof]_<<subject, signVars, inviteVars>>
  <2>1. Resetting!Spec => [][Resetting!CredentialsAnswerProof]_(Resetting!vars)
    BY CredentialsAreLegal, Resetting!CredentialsAreEarned
  <2>2. [AuthorityNext]_authorityVars /\ [Resetting!CredentialsAnswerProof]_(Resetting!vars)
         => [subject = "resetting" => Resetting!CredentialsAnswerProof]_<<subject, signVars, inviteVars>>
    BY SubjectStays DEF AuthorityNext, authorityVars, PairNext, InviteNext, signVars, Resetting!vars
  <2>3. ~(subject = "resetting")
         => [subject = "resetting" => Resetting!CredentialsAnswerProof]_<<subject, signVars, inviteVars>>
    OBVIOUS
  <2> QED BY <2>1, <2>2, <2>3, ResettingRuns, PTL DEF AuthoritySpec, authorityVars
<1>3. AuthoritySpec
       => [][subject = "verifying" => Choices!Joining!LinksAreHonoured]_<<subject, signVars, inviteVars>>
  <2>1. Choices!Joining!Spec => [][Choices!Joining!LinksAreHonoured]_(Choices!Joining!vars)
    BY InvitationsAreLegal, Choices!LinksAreAlwaysHonoured
  <2>2. [AuthorityNext]_authorityVars /\ [Choices!Joining!LinksAreHonoured]_(Choices!Joining!vars)
         => [subject = "verifying" => Choices!Joining!LinksAreHonoured]_<<subject, signVars, inviteVars>>
    BY SubjectStays DEF AuthorityNext, authorityVars, PairNext, inviteVars, Choices!Joining!vars
  <2>3. ~(subject = "verifying")
         => [subject = "verifying" => Choices!Joining!LinksAreHonoured]_<<subject, signVars, inviteVars>>
    OBVIOUS
  <2> QED BY <2>1, <2>2, <2>3, VerifyingRuns, PTL DEF AuthoritySpec, authorityVars
<1>4. AuthoritySpec
       => [][subject = "twice" => Seasons!Joining!LinksAreHonoured]_<<subject, signVars, inviteVars>>
  <2>1. Seasons!Joining!Spec => [][Seasons!Joining!LinksAreHonoured]_(Seasons!Joining!vars)
    BY InvitationsAreLegal, Seasons!LinksAreAlwaysHonoured
  <2>2. [AuthorityNext]_authorityVars /\ [Seasons!Joining!LinksAreHonoured]_(Seasons!Joining!vars)
         => [subject = "twice" => Seasons!Joining!LinksAreHonoured]_<<subject, signVars, inviteVars>>
    BY SubjectStays DEF AuthorityNext, authorityVars, PairNext, inviteVars, Seasons!Joining!vars
  <2>3. ~(subject = "twice")
         => [subject = "twice" => Seasons!Joining!LinksAreHonoured]_<<subject, signVars, inviteVars>>
    OBVIOUS
  <2> QED BY <2>1, <2>2, <2>3, TwiceRuns, PTL DEF AuthoritySpec, authorityVars
<1>5. AuthoritySpec
       => [][subject = "inviting" => Batch!Joining!LinksAreHonoured]_<<subject, signVars, inviteVars>>
  <2>1. Batch!Joining!Spec => [][Batch!Joining!LinksAreHonoured]_(Batch!Joining!vars)
    BY InvitationsAreLegal, Batch!LinksAreAlwaysHonoured
  <2>2. [AuthorityNext]_authorityVars /\ [Batch!Joining!LinksAreHonoured]_(Batch!Joining!vars)
         => [subject = "inviting" => Batch!Joining!LinksAreHonoured]_<<subject, signVars, inviteVars>>
    BY SubjectStays DEF AuthorityNext, authorityVars, PairNext, inviteVars, Batch!Joining!vars
  <2>3. ~(subject = "inviting")
         => [subject = "inviting" => Batch!Joining!LinksAreHonoured]_<<subject, signVars, inviteVars>>
    OBVIOUS
  <2> QED BY <2>1, <2>2, <2>3, InvitingRuns, PTL DEF AuthoritySpec, authorityVars
<1>6. AuthoritySpec
       => [][subject = "elsewhere" => Overflow!Joining!LinksAreHonoured]_<<subject, signVars, inviteVars>>
  <2>1. Overflow!Joining!Spec => [][Overflow!Joining!LinksAreHonoured]_(Overflow!Joining!vars)
    BY InvitationsAreLegal, Overflow!LinksAreAlwaysHonoured
  <2>2. [AuthorityNext]_authorityVars /\ [Overflow!Joining!LinksAreHonoured]_(Overflow!Joining!vars)
         => [subject = "elsewhere" => Overflow!Joining!LinksAreHonoured]_<<subject, signVars, inviteVars>>
    BY SubjectStays DEF AuthorityNext, authorityVars, PairNext, inviteVars, Overflow!Joining!vars
  <2>3. ~(subject = "elsewhere")
         => [subject = "elsewhere" => Overflow!Joining!LinksAreHonoured]_<<subject, signVars, inviteVars>>
    OBVIOUS
  <2> QED BY <2>1, <2>2, <2>3, ElsewhereRuns, PTL DEF AuthoritySpec, authorityVars
<1> QED BY <1>1, <1>2, <1>3, <1>4, <1>5, <1>6, PTL DEF EntryIsEarned
=============================================================================
