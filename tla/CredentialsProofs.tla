-------------------------- MODULE CredentialsProofs --------------------------
(* What holds of passwords, Google identities and sessions for every set of  *)
(* accounts, subjects and requests in flight, and every limit.               *)
EXTENDS Credentials, SequenceTheorems, TLAPS

(* What a request in flight remembers at each of its steps.                  *)
OnSession == {"confirm", "manage", "link", "linking", "reauth"}
OnSubject == {"linking", "unseen", "found", "held", "observed", "refreshed", "renewed", "bound"}
Steps     == {"idle", "google", "login"} \cup OnSession \cup OnSubject

FlowsRemember ==
  /\ flow \in [Flows -> [step : Steps, user : Users \cup {None}, session : Sessions \cup {None},
                         subject : Subjects \cup {None}]]
  /\ \A f \in Flows :
       /\ flow[f].step \notin {"idle", "google"} => flow[f].user \in Users
       /\ flow[f].step \in OnSession => flow[f].session \in Sessions
       /\ flow[f].step \in OnSubject => flow[f].subject \in Subjects

(* A row of a reset that ever held a link has a token.                       *)
OpenHasToken == \A u \in Users : reset[u].state # "none" => reset[u].token >= 1

Typed == FlowsRemember /\ TypeOK /\ OpenHasToken

-----------------------------------------------------------------------------
(* Sessions.                                                                 *)

Holds(q, s) == \E i \in 1..Len(q) : q[i] = s

LEMMA RemovalShortens ==
  ASSUME NEW S, NEW q \in Seq(S), NEW i \in 1..Len(q)
  PROVE  /\ RemoveAt(q, i) \in Seq(S) /\ Len(RemoveAt(q, i)) <= Len(q)
         /\ \A s : Holds(RemoveAt(q, i), s) => Holds(q, s)
<1> DEFINE a == SubSeq(q, 1, i - 1)
           b == SubSeq(q, i + 1, Len(q))
<1>1. Len(q) \in Nat /\ \A j \in 1..Len(q) : q[j] \in S
  BY LenProperties, ElementOfSeq
<1>2. /\ a \in Seq(S) /\ Len(a) = i - 1 /\ \A j \in 1..(i - 1) : a[j] = q[j]
  <2>1. /\ SubSeq(q, 1, i - 1) \in Seq(S)
        /\ Len(SubSeq(q, 1, i - 1)) = IF 1 <= i - 1 THEN i - 1 - 1 + 1 ELSE 0
        /\ \A j \in 1..(i - 1 - 1 + 1) : SubSeq(q, 1, i - 1)[j] = q[1 + j - 1]
    BY <1>1, SubSeqProperties
  <2> HIDE DEF a
  <2> QED BY <1>1, <2>1 DEF a
<1>3. /\ b \in Seq(S) /\ Len(b) = Len(q) - i /\ \A j \in 1..(Len(q) - i) : b[j] = q[i + j]
  <2>1. /\ SubSeq(q, i + 1, Len(q)) \in Seq(S)
        /\ Len(SubSeq(q, i + 1, Len(q))) = IF i + 1 <= Len(q) THEN Len(q) - (i + 1) + 1 ELSE 0
        /\ \A j \in 1..(Len(q) - (i + 1) + 1) : SubSeq(q, i + 1, Len(q))[j] = q[i + 1 + j - 1]
    BY <1>1, SubSeqProperties
  <2> HIDE DEF b
  <2> QED BY <1>1, <2>1 DEF b
<1>4. RemoveAt(q, i) = a \o b
  BY DEF RemoveAt
<1> HIDE DEF a, b
<1>5. /\ a \o b \in Seq(S) /\ Len(a \o b) = Len(a) + Len(b)
      /\ \A j \in 1..(Len(a) + Len(b)) : (a \o b)[j] = IF j <= Len(a) THEN a[j] ELSE b[j - Len(a)]
  BY <1>2, <1>3, ConcatProperties
<1>6. \A s : Holds(a \o b, s) => Holds(q, s)
  <2> SUFFICES ASSUME NEW s, NEW j \in 1..Len(a \o b), (a \o b)[j] = s PROVE Holds(q, s)
    BY DEF Holds
  <2>1. CASE j <= i - 1
    BY <1>1, <1>2, <1>3, <1>5, <2>1 DEF Holds
  <2>2. CASE j > i - 1
    <3>1. j - (i - 1) \in 1..(Len(q) - i) /\ j + 1 \in 1..Len(q)
      BY <1>1, <1>2, <1>3, <1>5, <2>2
    <3>2. s = b[j - (i - 1)] /\ b[j - (i - 1)] = q[i + (j - (i - 1))]
      BY <1>1, <1>2, <1>3, <1>5, <2>2, <3>1
    <3> QED BY <1>1, <3>1, <3>2 DEF Holds
  <2> QED BY <1>1, <1>5, <2>1, <2>2
<1> QED BY <1>1, <1>2, <1>3, <1>4, <1>5, <1>6

(* A session that is issued is nobody's, and no request in flight has it.    *)
LEMMA Issued ==
  ASSUME CredentialsConstants, TypeOK, NEW u \in Users, NEW m, Issue(u, m)
  PROVE  \E s \in Sessions :
           /\ Free(s) /\ proof' = [proof EXCEPT ![s] = m]
           /\ signedIn' \in [Users -> Seq(Sessions)]
           /\ Len(signedIn[u]) <= MaxActive => Len(signedIn'[u]) <= MaxActive
           /\ \A v \in Users : v # u => signedIn'[v] = signedIn[v]
           /\ \A t : Live(u, t)' => Live(u, t) \/ t = s
<1> PICK s \in Sessions :
      /\ Free(s) /\ proof' = [proof EXCEPT ![s] = m]
      /\ LET all == Append(signedIn[u], s) IN
         signedIn' = [signedIn EXCEPT ![u] = IF Len(all) > MaxActive THEN Tail(all) ELSE all]
  BY DEF Issue
<1> DEFINE q == signedIn[u]
           all == Append(q, s)
           now == IF Len(all) > MaxActive THEN Tail(all) ELSE all
<1>1. q \in Seq(Sessions) /\ Len(q) \in Nat /\ signedIn \in [Users -> Seq(Sessions)]
  BY LenProperties DEF TypeOK
<1>2. MaxActive \in Nat \ {0}
  BY DEF CredentialsConstants
<1>3. /\ all \in Seq(Sessions) /\ all # <<>> /\ Len(all) = Len(q) + 1
      /\ \A i \in 1..Len(q) : all[i] = q[i]
      /\ all[Len(q) + 1] = s
  BY <1>1, AppendProperties
<1>4. signedIn' = [signedIn EXCEPT ![u] = now]
  OBVIOUS
<1> HIDE DEF all
<1>5. /\ Tail(all) \in Seq(Sessions) /\ Len(Tail(all)) = Len(all) - 1
      /\ \A i \in 1..Len(Tail(all)) : Tail(all)[i] = all[i + 1]
  BY <1>3, HeadTailProperties
<1>6. \A t : Holds(all, t) => Holds(q, t) \/ t = s
  <2> SUFFICES ASSUME NEW i \in 1..Len(all), all[i] # s PROVE Holds(q, all[i])
    BY DEF Holds
  <2>1. i \in 1..Len(q)
    BY <1>1, <1>3
  <2> QED BY <1>3, <2>1 DEF Holds
<1>7. \A t : Holds(Tail(all), t) => Holds(all, t)
  BY <1>1, <1>3, <1>5 DEF Holds
<1>8. /\ now \in Seq(Sessions)
      /\ Len(q) <= MaxActive => Len(now) <= MaxActive
      /\ \A t : Holds(now, t) => Holds(q, t) \/ t = s
  BY <1>1, <1>2, <1>3, <1>5, <1>6, <1>7
<1> HIDE DEF now
<1>9. /\ signedIn'[u] = now /\ signedIn' \in [Users -> Seq(Sessions)]
      /\ \A v \in Users : v # u => signedIn'[v] = signedIn[v]
  BY <1>1, <1>4, <1>8
<1>10. \A t : Live(u, t)' => Live(u, t) \/ t = s
  BY <1>8, <1>9 DEF Live, Holds
<1> QED BY <1>8, <1>9, <1>10

-----------------------------------------------------------------------------
(* Types.                                                                    *)

LEMMA FlowsGoOn ==
  ASSUME FlowsRemember, [Next]_vars PROVE FlowsRemember'
<1> DEFINE Memory == [step : Steps, user : Users \cup {None}, session : Sessions \cup {None},
                      subject : Subjects \cup {None}]
           Sound(r) == /\ r \in Memory
                       /\ r.step \notin {"idle", "google"} => r.user \in Users
                       /\ r.step \in OnSession => r.session \in Sessions
                       /\ r.step \in OnSubject => r.subject \in Subjects
           Rewritten == flow' = flow \/ \E f \in Flows : \E r : Sound(r) /\ flow' = [flow EXCEPT ![f] = r]
<1>1. flow \in [Flows -> Memory] /\ \A f \in Flows : Sound(flow[f])
  BY DEF FlowsRemember
<1>2. Sound(Idle)
  BY DEF Idle, Steps, OnSession, OnSubject
<1>3. Rewritten
  <2>1. CASE UNCHANGED vars
    BY <2>1 DEF vars
  <2>2. ASSUME NEW f \in Flows, Ends(f) PROVE Rewritten
    BY <1>2, <2>2 DEF Ends
  <2>3. ASSUME NEW f \in Flows, NEW u \in Users, Login(f, u) PROVE Rewritten
    BY <2>3 DEF Login, Idle, Steps, OnSession, OnSubject
  <2>4. ASSUME NEW f \in Flows, NEW u \in Users, NEW s \in Sessions, Confirm(f, u, s) \/ Manage(f, u, s)
        PROVE Rewritten
    BY <2>4 DEF Confirm, Manage, Idle, Steps, OnSession, OnSubject
  <2>5. ASSUME NEW f \in Flows, GoogleStart(f) PROVE Rewritten
    <3>1. CASE flow' = [flow EXCEPT ![f].step = "google"]
      BY <1>1, <3>1 DEF Steps, OnSession, OnSubject
    <3>2. CASE \E u \in Users, s \in Sessions :
                 \/ flow' = [flow EXCEPT ![f] = [Idle EXCEPT !.step = "link", !.user = u, !.session = s]]
                 \/ flow' = [flow EXCEPT ![f] = [Idle EXCEPT !.step = "reauth", !.user = u, !.session = s]]
      BY <3>2 DEF Idle, Steps, OnSession, OnSubject
    <3> QED BY <2>5, <3>1, <3>2 DEF GoogleStart
  <2>6. ASSUME NEW f \in Flows, NEW g \in Subjects, CallbackLink(f, g) \/ CallbackReauth(f, g)
        PROVE Rewritten
    BY <1>1, <2>6 DEF CallbackLink, CallbackReauth, Steps, OnSession, OnSubject
  <2>7. ASSUME NEW f \in Flows, NEW g \in Subjects, CallbackLogin(f, g) PROVE Rewritten
    BY <2>7 DEF CallbackLogin, Steps, OnSession, OnSubject
  <2>8. ASSUME NEW f \in Flows, Observe(f) PROVE Rewritten
    BY <1>1, <2>8 DEF Observe, Goes, Steps, OnSession, OnSubject
  <2>9. ASSUME NEW f \in Flows, Refresh(f) PROVE Rewritten
    BY <1>1, <2>9 DEF Refresh, Goes, Steps, OnSession, OnSubject
  <2>10. ASSUME NEW f \in Flows, Bind(f) PROVE Rewritten
    BY <1>1, <2>10 DEF Bind, Goes, Steps, OnSession, OnSubject
  <2>11. ASSUME NEW f \in Flows, LoginIssue(f) \/ ConfirmRecord(f) \/ Refused(f) \/ UnlinkPassword(f)
                \/ UnlinkGoogle(f) \/ (\E p \in Passwords : AddPassword(f, p))
                \/ Abandon(f) \/ Link(f) \/ GoogleIssue(f)
         PROVE Ends(f)
    BY <2>11 DEF LoginIssue, ConfirmRecord, Refused, UnlinkPassword, UnlinkGoogle, AddPassword,
                 Abandon, Link, GoogleIssue
  <2>12. ASSUME NEW u \in Users, RequestReset(u) \/ DeliverReset(u) \/ ResetAges(u) \/ LogoutAll(u)
                \/ RequestDeletion(u) \/ CancelDeletion(u)
                \/ (\E t \in 1..MaxTokens, p \in Passwords : ConsumeReset(u, t, p))
                \/ (\E s \in Sessions : Logout(u, s))
         PROVE flow' = flow
    BY <2>12 DEF RequestReset, DeliverReset, ResetAges, LogoutAll, RequestDeletion, CancelDeletion,
                 ConsumeReset, Logout
  <2>13. ASSUME NEW s \in Sessions, ProofAges(s) PROVE flow' = flow
    BY <2>13 DEF ProofAges
  <2> QED BY <2>1, <2>2, <2>3, <2>4, <2>5, <2>6, <2>7, <2>8, <2>9, <2>10, <2>11, <2>12, <2>13 DEF Next
<1>4. flow' \in [Flows -> Memory] /\ \A f \in Flows : Sound(flow'[f])
  BY <1>1, <1>3
<1> QED BY <1>4 DEF FlowsRemember

(* What a step does to the sessions of an account, and when it adds one.     *)
Shrunk(u) ==
  /\ Len(signedIn'[u]) <= Len(signedIn[u])
  /\ \A s : Live(u, s)' => Live(u, s)

LEMMA Unshrunk == ASSUME TypeOK, NEW u \in Users, signedIn'[u] = signedIn[u] PROVE Shrunk(u)
<1>1. Len(signedIn[u]) \in Nat
  BY LenProperties DEF TypeOK
<1> QED BY <1>1 DEF Shrunk, Live

LEMMA Emptied ==
  ASSUME TypeOK, NEW u \in Users, signedIn' = [signedIn EXCEPT ![u] = <<>>]
  PROVE  /\ signedIn' \in [Users -> Seq(Sessions)] /\ signedIn'[u] = <<>> /\ Len(signedIn'[u]) = 0
         /\ \A s : ~Live(u, s)'
         /\ \A v \in Users : Shrunk(v)
<1>1. /\ <<>> \in Seq(Sessions) /\ Len(<<>>) = 0 /\ Len(signedIn[u]) \in Nat
  BY EmptySeq, LenProperties DEF TypeOK
<1>2. /\ signedIn' \in [Users -> Seq(Sessions)] /\ signedIn'[u] = <<>>
      /\ \A v \in Users : v # u => signedIn'[v] = signedIn[v]
  BY <1>1 DEF TypeOK
<1>3. Shrunk(u) /\ \A s : ~Live(u, s)'
  BY <1>1, <1>2 DEF Shrunk, Live
<1> QED BY <1>1, <1>2, <1>3, Unshrunk

LEMMA OnlyOne ==
  ASSUME TypeOK, NEW u \in Users, NEW s \in Sessions, Live(u, s), OnlySession(u, s)
  PROVE  /\ signedIn' \in [Users -> Seq(Sessions)] /\ Len(signedIn'[u]) = 1
         /\ \A v \in Users : Shrunk(v)
<1>1. signedIn[u] \in Seq(Sessions) /\ Len(signedIn[u]) \in Nat /\ Len(signedIn[u]) >= 1
  <2>1. signedIn[u] \in Seq(Sessions) /\ Len(signedIn[u]) \in Nat
    BY LenProperties DEF TypeOK
  <2> QED BY <2>1 DEF Live
<1>2. <<s>> \in Seq(Sessions) /\ Len(<<s>>) = 1 /\ <<s>>[1] = s
  OBVIOUS
<1>3. /\ signedIn' \in [Users -> Seq(Sessions)] /\ signedIn'[u] = <<s>>
      /\ \A v \in Users : v # u => signedIn'[v] = signedIn[v]
  BY <1>2 DEF OnlySession, TypeOK
<1>4. \A t : Live(u, t)' => t = s
  BY <1>2, <1>3 DEF Live
<1>5. Shrunk(u)
  BY <1>1, <1>2, <1>3, <1>4 DEF Shrunk
<1> QED BY <1>2, <1>3, <1>5, Unshrunk

(* Sessions are added by the two steps that issue them; all others end some. *)
SessionsEnd == signedIn' \in [Users -> Seq(Sessions)] /\ \A u \in Users : Shrunk(u)
Issues(u) == \E m \in {"password", "google"} : Issue(u, m)

LEMMA SessionSteps ==
  ASSUME CredentialsConstants, Typed, [Next]_vars
  PROVE  SessionsEnd \/ \E u \in Users : Issues(u) /\ pending' = pending
<1>1. ASSUME signedIn' = signedIn PROVE SessionsEnd
  <2>1. TypeOK
    BY DEF Typed
  <2>2. signedIn' \in [Users -> Seq(Sessions)]
    BY <1>1, <2>1 DEF TypeOK
  <2> QED BY <1>1, <2>1, <2>2, Unshrunk DEF SessionsEnd
<1>2. CASE UNCHANGED vars
  BY <1>1, <1>2 DEF vars
<1>3. ASSUME NEW f \in Flows, LoginIssue(f) \/ GoogleIssue(f)
      PROVE \E u \in Users : Issues(u) /\ pending' = pending
  BY <1>3 DEF LoginIssue, GoogleIssue, Issues, Typed, FlowsRemember, OnSession, OnSubject
<1>4. ASSUME NEW f \in Flows, UnlinkPassword(f) \/ UnlinkGoogle(f) PROVE SessionsEnd
  <2>1. /\ flow[f].user \in Users /\ flow[f].session \in Sessions /\ TypeOK
    BY <1>4 DEF UnlinkPassword, UnlinkGoogle, Typed, FlowsRemember, OnSession
  <2>2. Live(flow[f].user, flow[f].session) /\ OnlySession(flow[f].user, flow[f].session)
    BY <1>4 DEF UnlinkPassword, UnlinkGoogle, Recent
  <2> QED BY <2>1, <2>2, OnlyOne DEF SessionsEnd
<1>5. ASSUME NEW u \in Users, LogoutAll(u) \/ RequestDeletion(u)
               \/ (\E t \in 1..MaxTokens, p \in Passwords : ConsumeReset(u, t, p))
      PROVE SessionsEnd
  <2>1. signedIn' = [signedIn EXCEPT ![u] = <<>>] /\ TypeOK
    BY <1>5 DEF LogoutAll, RequestDeletion, ConsumeReset, Typed
  <2> QED BY <2>1, Emptied DEF SessionsEnd
<1>6. ASSUME NEW u \in Users, NEW s \in Sessions, Logout(u, s) PROVE SessionsEnd
  <2> PICK i \in 1..Len(signedIn[u]) : signedIn' = [signedIn EXCEPT ![u] = RemoveAt(@, i)]
    BY <1>6 DEF Logout
  <2>1. TypeOK /\ signedIn[u] \in Seq(Sessions) /\ signedIn \in [Users -> Seq(Sessions)]
    BY DEF Typed, TypeOK
  <2> DEFINE q == RemoveAt(signedIn[u], i)
  <2>2. /\ q \in Seq(Sessions) /\ Len(q) <= Len(signedIn[u])
        /\ \A t : Holds(q, t) => Holds(signedIn[u], t)
    BY <2>1, RemovalShortens
  <2>3. signedIn' = [signedIn EXCEPT ![u] = q]
    OBVIOUS
  <2> HIDE DEF q
  <2>4. /\ signedIn' \in [Users -> Seq(Sessions)] /\ signedIn'[u] = q
        /\ \A v \in Users : v # u => signedIn'[v] = signedIn[v]
    BY <2>1, <2>2, <2>3
  <2>5. Shrunk(u)
    BY <2>2, <2>4 DEF Shrunk, Live, Holds
  <2> QED BY <2>1, <2>4, <2>5, Unshrunk DEF SessionsEnd
<1>7. ASSUME NEW f \in Flows, ConfirmRecord(f) \/ Refused(f) \/ (\E p \in Passwords : AddPassword(f, p))
               \/ GoogleStart(f) \/ Abandon(f) \/ Link(f) \/ Observe(f) \/ Refresh(f) \/ Bind(f)
               \/ (\E g \in Subjects : CallbackLink(f, g) \/ CallbackReauth(f, g) \/ CallbackLogin(f, g))
               \/ (\E u \in Users : Login(f, u) \/ \E s \in Sessions : Confirm(f, u, s) \/ Manage(f, u, s))
      PROVE signedIn' = signedIn
  BY <1>7 DEF ConfirmRecord, Refused, AddPassword, GoogleStart, Abandon, Link, Observe, Refresh, Bind,
              CallbackLink, CallbackReauth, CallbackLogin, Login, Confirm, Manage
<1>8. ASSUME NEW u \in Users, RequestReset(u) \/ DeliverReset(u) \/ ResetAges(u) \/ CancelDeletion(u)
      PROVE signedIn' = signedIn
  BY <1>8 DEF RequestReset, DeliverReset, ResetAges, CancelDeletion
<1>9. ASSUME NEW s \in Sessions, ProofAges(s) PROVE signedIn' = signedIn
  BY <1>9 DEF ProofAges
<1> QED BY <1>1, <1>2, <1>3, <1>4, <1>5, <1>6, <1>7, <1>8, <1>9 DEF Next

(* The reset rows and their links.                                           *)
ResetsTyped ==
  /\ reset \in [Users -> [token : 0..MaxTokens, sends : 0..MaxSends, cooling : BOOLEAN,
                          state : {"none", "open", "used", "expired"}]]
  /\ links \subseteq Users \X (1..MaxTokens) /\ answered \subseteq links
  /\ OpenHasToken

LEMMA ResetSteps ==
  ASSUME CredentialsConstants, ResetsTyped, [Next]_vars
  PROVE  \/ UNCHANGED resets
         \/ \E u \in Users : RequestReset(u) \/ DeliverReset(u) \/ ResetAges(u)
              \/ \E t \in 1..MaxTokens, p \in Passwords : ConsumeReset(u, t, p)
<1>1. CASE UNCHANGED vars
  BY <1>1 DEF vars, resets
<1>2. ASSUME NEW f \in Flows, LoginIssue(f) \/ ConfirmRecord(f) \/ Refused(f)
       \/ UnlinkPassword(f) \/ UnlinkGoogle(f) \/ (\E p \in Passwords : AddPassword(f, p))
       \/ GoogleStart(f) \/ Abandon(f) \/ Link(f) \/ Observe(f) \/ Refresh(f) \/ Bind(f) \/ GoogleIssue(f)
       \/ (\E g \in Subjects : CallbackLink(f, g) \/ CallbackReauth(f, g) \/ CallbackLogin(f, g))
       \/ (\E u \in Users : Login(f, u) \/ \E s \in Sessions : Confirm(f, u, s) \/ Manage(f, u, s))
      PROVE UNCHANGED resets
  BY <1>2 DEF LoginIssue, ConfirmRecord, Refused, UnlinkPassword, UnlinkGoogle, AddPassword, GoogleStart,
              Abandon, Link, Observe, Refresh, Bind, GoogleIssue, CallbackLink, CallbackReauth,
              CallbackLogin, Login, Confirm, Manage
<1>3. ASSUME NEW u \in Users, LogoutAll(u) \/ RequestDeletion(u) \/ CancelDeletion(u)
       \/ (\E s \in Sessions : Logout(u, s))
      PROVE UNCHANGED resets
  BY <1>3 DEF LogoutAll, RequestDeletion, CancelDeletion, Logout
<1>4. ASSUME NEW s \in Sessions, ProofAges(s) PROVE UNCHANGED resets
  BY <1>4 DEF ProofAges
<1> QED BY <1>1, <1>2, <1>3, <1>4 DEF Next

LEMMA ResetsStayTyped ==
  ASSUME CredentialsConstants, ResetsTyped, [Next]_vars PROVE ResetsTyped'
<1> DEFINE Row == [token : 0..MaxTokens, sends : 0..MaxSends, cooling : BOOLEAN,
                   state : {"none", "open", "used", "expired"}]
<1>1. MaxTokens \in Nat /\ MaxSends \in Nat \ {0} /\ reset \in [Users -> Row]
  BY DEF CredentialsConstants, ResetsTyped
<1>2. ASSUME NEW u \in Users, NEW r \in Row, r.state # "none" => r.token >= 1,
             reset' = [reset EXCEPT ![u] = r], links' = links, answered' \subseteq links
      PROVE ResetsTyped'
  BY <1>1, <1>2 DEF ResetsTyped, OpenHasToken
<1>3. CASE UNCHANGED resets
  BY <1>3 DEF resets, ResetsTyped, OpenHasToken
<1>4. ASSUME NEW u \in Users, RequestReset(u) PROVE ResetsTyped'
  <2> DEFINE r == Requested(reset[u])
  <2>1. reset[u] \in Row /\ reset[u].token \in 0..MaxTokens /\ reset[u].sends \in 0..MaxSends
    BY <1>1
  <2>2. /\ reset' = [reset EXCEPT ![u] = r] /\ links' = links /\ answered' = answered
        /\ reset[u].token < MaxTokens
        /\ Over(reset[u]) \/ reset[u].sends < MaxSends
    BY <1>4 DEF RequestReset
  <2>3. /\ r \in Row /\ r.token = reset[u].token + 1
    <3>1. reset[u].token + 1 \in 0..MaxTokens
      BY <1>1, <2>1, <2>2
    <3>2. (IF Over(reset[u]) THEN 1 ELSE reset[u].sends + 1) \in 0..MaxSends
      BY <1>1, <2>1, <2>2
    <3> QED BY <2>1, <3>1, <3>2 DEF Requested
  <2>4. r.state # "none" => r.token >= 1
    BY <2>1, <2>3
  <2> HIDE DEF r
  <2> QED BY <1>2, <2>2, <2>3, <2>4 DEF ResetsTyped
<1>5. ASSUME NEW u \in Users, DeliverReset(u) PROVE ResetsTyped'
  <2>1. reset[u].token \in 1..MaxTokens
    BY <1>1, <1>5 DEF DeliverReset, ResetsTyped, OpenHasToken
  <2> QED BY <1>5, <2>1 DEF DeliverReset, ResetsTyped, OpenHasToken
<1>6. ASSUME NEW u \in Users, ResetAges(u) PROVE ResetsTyped'
  <2> DEFINE a == [reset[u] EXCEPT !.cooling = FALSE]
             b == [reset[u] EXCEPT !.state = "expired", !.cooling = FALSE]
  <2>1. /\ reset' = [reset EXCEPT ![u] = a] \/ (reset[u].state = "open" /\ reset' = [reset EXCEPT ![u] = b])
        /\ links' = links /\ answered' = answered
    BY <1>1, <1>6 DEF ResetAges
  <2>2. /\ a \in Row /\ a.state = reset[u].state /\ a.token = reset[u].token
        /\ b \in Row /\ b.token = reset[u].token
    BY <1>1
  <2> HIDE DEF a, b
  <2> QED BY <1>2, <2>1, <2>2 DEF ResetsTyped, OpenHasToken
<1>7. ASSUME NEW u \in Users, NEW t \in 1..MaxTokens, NEW p \in Passwords, ConsumeReset(u, t, p)
      PROVE ResetsTyped'
  <2> DEFINE r == [reset[u] EXCEPT !.state = "used"]
  <2>1. /\ reset' = [reset EXCEPT ![u] = r] /\ links' = links /\ answered' = answered \cup {<<u, t>>}
        /\ <<u, t>> \in links /\ reset[u].token = t
    BY <1>1, <1>7 DEF ConsumeReset
  <2>2. r \in Row /\ r.token = reset[u].token
    BY <1>1
  <2> HIDE DEF r
  <2>3. r.token >= 1 /\ answered' \subseteq links
    BY <1>1, <2>1, <2>2 DEF ResetsTyped
  <2> QED BY <1>2, <2>1, <2>2, <2>3
<1> QED BY <1>3, <1>4, <1>5, <1>6, <1>7, ResetSteps

(* The credentials: which steps write them, and what they leave.             *)
CredentialsTypedNow ==
  /\ password \in [Users -> Passwords \cup {None}] /\ google \in [Users -> Subjects \cup {None}]
  /\ identity \in [Subjects -> Users \cup {None}]

Managed(f) == flow[f].step = "manage" /\ Recent(flow[f].user, flow[f].session)

WritesCredentials ==
  \/ \E f \in Flows : UnlinkPassword(f) \/ UnlinkGoogle(f) \/ (\E p \in Passwords : AddPassword(f, p))
                      \/ Link(f) \/ Refresh(f) \/ Bind(f)
  \/ \E u \in Users, t \in 1..MaxTokens, p \in Passwords : ConsumeReset(u, t, p)

LEMMA CredentialSteps == ASSUME [Next]_vars PROVE UNCHANGED credentials \/ WritesCredentials
<1>1. CASE UNCHANGED vars
  BY <1>1 DEF vars, credentials
<1>2. ASSUME NEW f \in Flows, LoginIssue(f) \/ ConfirmRecord(f) \/ Refused(f)
       \/ GoogleStart(f) \/ Abandon(f) \/ Observe(f) \/ GoogleIssue(f)
       \/ (\E g \in Subjects : CallbackLink(f, g) \/ CallbackReauth(f, g) \/ CallbackLogin(f, g))
       \/ (\E u \in Users : Login(f, u) \/ \E s \in Sessions : Confirm(f, u, s) \/ Manage(f, u, s))
      PROVE UNCHANGED credentials
  BY <1>2 DEF LoginIssue, ConfirmRecord, Refused, GoogleStart,
              Abandon, Observe, GoogleIssue, CallbackLink, CallbackReauth,
              CallbackLogin, Login, Confirm, Manage
<1>3. ASSUME NEW u \in Users, RequestReset(u) \/ DeliverReset(u) \/ ResetAges(u) \/ LogoutAll(u)
       \/ RequestDeletion(u) \/ CancelDeletion(u) \/ (\E s \in Sessions : Logout(u, s))
      PROVE UNCHANGED credentials
  BY <1>3 DEF RequestReset, DeliverReset, ResetAges, LogoutAll, RequestDeletion, CancelDeletion, Logout
<1>4. ASSUME NEW s \in Sessions, ProofAges(s) PROVE UNCHANGED credentials
  BY <1>4 DEF ProofAges
<1> QED BY <1>1, <1>2, <1>3, <1>4 DEF Next, WritesCredentials

LEMMA CredentialsStayTyped ==
  ASSUME CredentialsConstants, Typed, [Next]_vars PROVE CredentialsTypedNow'
<1>1. CredentialsTypedNow /\ FlowsRemember
  BY DEF Typed, TypeOK, CredentialsTypedNow
<1>2. CASE UNCHANGED credentials
  BY <1>1, <1>2 DEF credentials, CredentialsTypedNow
<1>3. ASSUME NEW f \in Flows, UnlinkPassword(f) \/ UnlinkGoogle(f) \/ (\E p \in Passwords : AddPassword(f, p))
                              \/ Link(f) \/ Refresh(f) \/ Bind(f)
      PROVE CredentialsTypedNow'
  <2>1. /\ flow[f].step \in {"manage", "linking", "observed", "held", "refreshed", "renewed"} => flow[f].user \in Users
        /\ flow[f].step \in {"linking", "observed", "held", "refreshed", "renewed"} => flow[f].subject \in Subjects
    BY <1>1 DEF FlowsRemember, OnSubject
  <2> QED BY <1>1, <1>3, <2>1 DEF UnlinkPassword, UnlinkGoogle, AddPassword, Link, Refresh, Bind, CredentialsTypedNow
<1>4. ASSUME NEW u \in Users, NEW t \in 1..MaxTokens, NEW p \in Passwords, ConsumeReset(u, t, p)
      PROVE CredentialsTypedNow'
  BY <1>1, <1>4 DEF ConsumeReset, CredentialsTypedNow
<1> QED BY <1>2, <1>3, <1>4, CredentialSteps DEF WritesCredentials

(* Proofs, and the accounts that wait for their deletion.                    *)
ProofKinds == {"none", "password", "google"}

LEMMA ProofsStayTyped ==
  ASSUME CredentialsConstants, Typed, [Next]_vars
  PROVE  proof' \in [Sessions -> ProofKinds] /\ pending' \subseteq Users
<1>1. proof \in [Sessions -> ProofKinds] /\ pending \subseteq Users /\ FlowsRemember
  BY DEF Typed, TypeOK, ProofKinds
<1>2. CASE UNCHANGED vars
  BY <1>1, <1>2 DEF vars
<1>3. ASSUME NEW f \in Flows, LoginIssue(f) \/ GoogleIssue(f)
      PROVE proof' \in [Sessions -> ProofKinds] /\ pending' = pending
  <2>1. PICK s \in Sessions, m \in ProofKinds : proof' = [proof EXCEPT ![s] = m]
    BY <1>3 DEF LoginIssue, GoogleIssue, Issue, ProofKinds
  <2> QED BY <1>1, <1>3, <2>1 DEF LoginIssue, GoogleIssue
<1>4. ASSUME NEW f \in Flows, ConfirmRecord(f) \/ Link(f)
      PROVE proof' \in [Sessions -> ProofKinds] /\ pending' = pending
  <2>1. flow[f].session \in Sessions
    BY <1>1, <1>4 DEF ConfirmRecord, Link, FlowsRemember, OnSession
  <2>2. PICK m \in ProofKinds : proof' = [proof EXCEPT ![flow[f].session] = m] \/ proof' = proof
    BY <1>4 DEF ConfirmRecord, Link, Record, ProofKinds
  <2> QED BY <1>1, <1>4, <2>1, <2>2 DEF ConfirmRecord, Link
<1>5. ASSUME NEW f \in Flows, Refused(f)
       \/ UnlinkPassword(f) \/ UnlinkGoogle(f) \/ (\E p \in Passwords : AddPassword(f, p))
       \/ GoogleStart(f) \/ Abandon(f) \/ Observe(f) \/ Refresh(f) \/ Bind(f)
       \/ (\E g \in Subjects : CallbackLink(f, g) \/ CallbackReauth(f, g) \/ CallbackLogin(f, g))
       \/ (\E u \in Users : Login(f, u) \/ \E s \in Sessions : Confirm(f, u, s) \/ Manage(f, u, s))
      PROVE proof' = proof /\ pending' = pending
  BY <1>5 DEF Refused, UnlinkPassword, UnlinkGoogle, AddPassword, GoogleStart, Abandon, Observe,
              Refresh, Bind, CallbackLink, CallbackReauth, CallbackLogin, Login, Confirm, Manage
<1>6. ASSUME NEW u \in Users, RequestReset(u) \/ DeliverReset(u) \/ ResetAges(u) \/ LogoutAll(u)
       \/ CancelDeletion(u) \/ (\E t \in 1..MaxTokens, p \in Passwords : ConsumeReset(u, t, p))
       \/ (\E s \in Sessions : Logout(u, s))
      PROVE proof' = proof /\ pending' \subseteq pending
  BY <1>6 DEF RequestReset, DeliverReset, ResetAges, LogoutAll, CancelDeletion, ConsumeReset, Logout
<1>7. ASSUME NEW u \in Users, RequestDeletion(u)
      PROVE proof' \in [Sessions -> ProofKinds] /\ pending' = pending \cup {u}
  <2>1. \A s \in Sessions : (IF Live(u, s) THEN "none" ELSE proof[s]) \in ProofKinds
    BY <1>1 DEF ProofKinds
  <2> QED BY <1>7, <2>1 DEF RequestDeletion
<1>8. ASSUME NEW s \in Sessions, ProofAges(s) PROVE proof' \in [Sessions -> ProofKinds] /\ pending' = pending
  BY <1>1, <1>8 DEF ProofAges, ProofKinds
<1> QED BY <1>1, <1>2, <1>3, <1>4, <1>5, <1>6, <1>7, <1>8 DEF Next

LEMMA TypedInit == ASSUME CredentialsConstants, Init PROVE Typed
<1>1. FlowsRemember
  BY DEF Init, Idle, FlowsRemember, Steps, OnSession, OnSubject
<1>2. ResetsTyped
  BY DEF Init, ResetsTyped, OpenHasToken, CredentialsConstants
<1>3. CredentialsTypedNow
  <2>1. (CHOOSE p \in Passwords : TRUE) \in Passwords
    BY DEF CredentialsConstants
  <2>2. \A g \in Subjects : (\E u \in Users : StartsWith[u] = g) =>
          (CHOOSE u \in Users : StartsWith[u] = g) \in Users
    OBVIOUS
  <2> QED BY <2>1, <2>2 DEF Init, CredentialsTypedNow, CredentialsConstants
<1>4. signedIn \in [Users -> Seq(Sessions)] /\ proof \in [Sessions -> ProofKinds] /\ pending = {}
  BY EmptySeq DEF Init, ProofKinds
<1> QED BY <1>1, <1>2, <1>3, <1>4 DEF Typed, TypeOK, ResetsTyped, CredentialsTypedNow, ProofKinds

LEMMA StaysTyped == ASSUME CredentialsConstants, Typed, [Next]_vars PROVE Typed'
<1>1. FlowsRemember' /\ ResetsTyped'
  BY FlowsGoOn, ResetsStayTyped DEF Typed, TypeOK, ResetsTyped
<1>2. CredentialsTypedNow' /\ proof' \in [Sessions -> ProofKinds] /\ pending' \subseteq Users
  BY CredentialsStayTyped, ProofsStayTyped
<1>3. signedIn' \in [Users -> Seq(Sessions)]
  <2>1. TypeOK
    BY DEF Typed
  <2> QED BY <2>1, SessionSteps, Issued DEF SessionsEnd, Issues
<1> QED BY <1>1, <1>2, <1>3 DEF Typed, TypeOK, ResetsTyped, CredentialsTypedNow, ProofKinds

(* The tables keep their types, for every request in flight: what it read    *)
(* earlier is an account, a session or a subject (api/auth.js).              *)
THEOREM CredentialsTyped == ASSUME CredentialsConstants PROVE Spec => []TypeOK
<1>1. Init => Typed
  BY TypedInit
<1>2. Typed /\ [Next]_vars => Typed'
  BY StaysTyped
<1>3. Typed => TypeOK
  BY DEF Typed
<1> QED BY <1>1, <1>2, <1>3, PTL DEF Spec

-----------------------------------------------------------------------------
(* Nobody is locked out.                                                     *)

HasAWay     == \A u \in Users : password[u] # None \/ \E g \in Subjects : identity[g] = u
RowsAgree   == \A g \in Subjects : identity[g] # None => google[identity[g]] = g
OneAccount  == \A u, v \in Users : google[u] = google[v] /\ google[u] # None => u = v
FewSessions == \A u \in Users : Len(signedIn[u]) <= MaxActive

Entry == HasAWay /\ RowsAgree /\ OneAccount

LEMMA RowIsTheirs ==
  ASSUME CredentialsConstants, NEW u \in Users
  PROVE  /\ RowOf(u) # None => RowOf(u) \in Subjects /\ identity[RowOf(u)] = u
         /\ (\E g \in Subjects : identity[g] = u) => RowOf(u) # None
BY DEF RowOf, CredentialsConstants

LEMMA EntryIs == ASSUME CredentialsConstants PROVE EveryoneCanSignIn <=> Entry /\ FewSessions
BY RowIsTheirs DEF EveryoneCanSignIn, Entry, HasAWay, RowsAgree, OneAccount, FewSessions

LEMMA EntryInit == ASSUME CredentialsConstants, Init PROVE Entry /\ FewSessions
<1>1. \A u, v \in Users : StartsWith[u] = StartsWith[v] /\ StartsWith[u] # None => u = v
  BY DEF CredentialsConstants
<1>2. (CHOOSE p \in Passwords : TRUE) \in Passwords /\ None \notin Passwords
  BY DEF CredentialsConstants
<1>3. \A g \in Subjects : \A u \in Users : StartsWith[u] = g => identity[g] = u
  <2> SUFFICES ASSUME NEW g \in Subjects, NEW u \in Users, StartsWith[u] = g PROVE identity[g] = u
    OBVIOUS
  <2>1. g # None
    BY DEF CredentialsConstants
  <2>2. identity[g] = CHOOSE v \in Users : StartsWith[v] = g
    BY DEF Init
  <2> QED BY <1>1, <2>1, <2>2
<1>4. \A g \in Subjects : identity[g] # None => identity[g] \in Users /\ StartsWith[identity[g]] = g
  BY DEF Init
<1>5. HasAWay
  <2> SUFFICES ASSUME NEW u \in Users PROVE password[u] # None \/ \E g \in Subjects : identity[g] = u
    BY DEF HasAWay
  <2>1. StartsWith[u] = None => password[u] # None
    BY <1>2 DEF Init
  <2>2. StartsWith[u] # None => StartsWith[u] \in Subjects
    BY DEF CredentialsConstants
  <2> QED BY <1>3, <2>1, <2>2
<1>6. RowsAgree /\ OneAccount
  BY <1>1, <1>4 DEF Init, RowsAgree, OneAccount
<1>7. FewSessions
  BY EmptySeq DEF Init, FewSessions, CredentialsConstants
<1> QED BY <1>5, <1>6, <1>7 DEF Entry

LEMMA EntryStays == ASSUME CredentialsConstants, Typed, Entry, [Next]_vars PROVE Entry'
<1>1. CredentialsTypedNow /\ FlowsRemember /\ HasAWay /\ RowsAgree /\ OneAccount
  BY DEF Typed, TypeOK, CredentialsTypedNow, Entry
<1>2. None \notin Users /\ None \notin Subjects /\ None \notin Passwords
  BY DEF CredentialsConstants
<1>3. CASE UNCHANGED credentials
  BY <1>3 DEF credentials, Entry, HasAWay, RowsAgree, OneAccount
<1>4. ASSUME NEW f \in Flows, NEW p \in Passwords, AddPassword(f, p) PROVE Entry'
  BY <1>1, <1>2, <1>4 DEF AddPassword, CredentialsTypedNow, Entry, HasAWay, RowsAgree, OneAccount
<1>5. ASSUME NEW f \in Flows, UnlinkPassword(f) PROVE Entry'
  <2>1. flow[f].user \in Users
    BY <1>1, <1>5 DEF UnlinkPassword, FlowsRemember
  <2>2. \E g \in Subjects : identity[g] = flow[f].user
    BY <1>5, <2>1, RowIsTheirs DEF UnlinkPassword
  <2> QED BY <1>1, <1>5, <2>1, <2>2 DEF UnlinkPassword, CredentialsTypedNow, Entry, HasAWay, RowsAgree, OneAccount
<1>6. ASSUME NEW f \in Flows, UnlinkGoogle(f) PROVE Entry'
  <2> DEFINE u == flow[f].user
             g == RowOf(u)
  <2>1. u \in Users
    BY <1>1, <1>6 DEF UnlinkGoogle, FlowsRemember
  <2>2. g \in Subjects /\ identity[g] = u /\ password[u] # None /\ google[u] = g
    BY <1>6, <2>1, RowIsTheirs DEF UnlinkGoogle, HasPassword
  <2>3. /\ password' = password /\ identity' = [identity EXCEPT ![g] = None]
        /\ google' = [google EXCEPT ![u] = None]
    BY <1>6 DEF UnlinkGoogle
  <2> HIDE DEF u, g
  <2>4. HasAWay'
    BY <1>1, <2>1, <2>2, <2>3 DEF CredentialsTypedNow, HasAWay
  <2>5. RowsAgree'
    BY <1>1, <1>2, <2>1, <2>2, <2>3 DEF CredentialsTypedNow, RowsAgree
  <2>6. OneAccount'
    BY <1>1, <1>2, <2>1, <2>2, <2>3 DEF CredentialsTypedNow, OneAccount
  <2> QED BY <2>4, <2>5, <2>6 DEF Entry
<1>7. ASSUME NEW u \in Users, NEW g \in Subjects,
             google[u] \in {None, g}, \A v \in Users \ {u} : google[v] # g,
             password' = password, google' = [google EXCEPT ![u] = g],
             \/ identity' = identity
             \/ identity[g] \in {None, u} /\ identity' = [identity EXCEPT ![g] = u]
      PROVE Entry'
  <2>1. \A v \in Users : google'[v] = IF v = u THEN g ELSE google[v]
    BY <1>1, <1>7 DEF CredentialsTypedNow
  <2>2. \A h \in Subjects : identity'[h] = identity[h] \/ (h = g /\ identity[h] \in {None, u} /\ identity'[h] = u)
    BY <1>1, <1>7 DEF CredentialsTypedNow
  <2>3. \A h \in Subjects : identity[h] = u => h = g
    BY <1>1, <1>2, <1>7 DEF RowsAgree
  <2>4. HasAWay'
    BY <1>1, <1>2, <1>7, <2>2 DEF HasAWay
  <2>5. RowsAgree'
    <3> SUFFICES ASSUME NEW h \in Subjects, identity'[h] # None PROVE google'[identity'[h]] = h
      BY DEF RowsAgree
    <3>1. CASE identity'[h] = u
      BY <1>7, <2>1, <2>2, <2>3, <3>1
    <3>2. CASE identity'[h] # u
      <4>1. identity'[h] = identity[h] /\ identity[h] \in Users
        BY <1>1, <2>2, <3>2 DEF CredentialsTypedNow
      <4> QED BY <1>1, <2>1, <3>2, <4>1 DEF RowsAgree
    <3> QED BY <3>1, <3>2
  <2>6. OneAccount'
    BY <1>1, <1>7, <2>1 DEF OneAccount
  <2> QED BY <2>4, <2>5, <2>6 DEF Entry
<1>8. ASSUME NEW f \in Flows, Link(f) PROVE Entry'
  <2>1. flow[f].user \in Users /\ flow[f].subject \in Subjects
    BY <1>1, <1>8 DEF Link, FlowsRemember, OnSubject
  <2> QED BY <1>7, <1>8, <2>1 DEF Link
<1>9. ASSUME NEW f \in Flows, Refresh(f) PROVE Entry'
  <2>1. flow[f].user \in Users /\ flow[f].subject \in Subjects
    BY <1>1, <1>9 DEF Refresh, FlowsRemember, OnSubject
  <2>2. CASE flow[f].step = "observed"
    BY <1>7, <1>9, <2>1, <2>2 DEF Refresh
  <2>3. CASE flow[f].step # "observed"
    BY <1>3, <1>9, <2>3 DEF Refresh, credentials
  <2> QED BY <2>2, <2>3
<1>10. ASSUME NEW f \in Flows, Bind(f) PROVE Entry'
  <2> DEFINE u == flow[f].user
             g == flow[f].subject
  <2>1. u \in Users /\ g \in Subjects
    BY <1>1, <1>10 DEF Bind, FlowsRemember, OnSubject
  <2>2. password' = password /\ google' = google
    BY <1>10 DEF Bind
  <2>3. CASE identity' = identity
    BY <1>3, <2>2, <2>3 DEF credentials
  <2>4. CASE google[u] = g /\ identity[g] = None /\ identity' = [identity EXCEPT ![g] = u]
    <3>1. /\ google' = [google EXCEPT ![u] = g]
          /\ \A v \in Users \ {u} : google[v] # g
      BY <1>1, <1>2, <2>1, <2>2, <2>4 DEF CredentialsTypedNow, OneAccount
    <3> QED BY <1>7, <2>1, <2>2, <2>4, <3>1
  <2> QED BY <1>10, <2>3, <2>4 DEF Bind
<1>11. ASSUME NEW u \in Users, NEW t \in 1..MaxTokens, NEW p \in Passwords, ConsumeReset(u, t, p)
       PROVE Entry'
  BY <1>1, <1>2, <1>11 DEF ConsumeReset, CredentialsTypedNow, Entry, HasAWay, RowsAgree, OneAccount
<1> QED BY <1>3, <1>4, <1>5, <1>6, <1>8, <1>9, <1>10, <1>11, CredentialSteps DEF WritesCredentials

LEMMA SessionsStayFew ==
  ASSUME CredentialsConstants, Typed, FewSessions, [Next]_vars PROVE FewSessions'
<1>1. TypeOK /\ MaxActive \in Nat
  BY DEF Typed, CredentialsConstants
<1>2. CASE SessionsEnd
  <2>1. \A u \in Users : Len(signedIn[u]) \in Nat /\ Len(signedIn'[u]) \in Nat
    BY <1>1, <1>2, LenProperties DEF TypeOK, SessionsEnd
  <2> QED BY <1>1, <1>2, <2>1 DEF SessionsEnd, Shrunk, FewSessions
<1>3. ASSUME NEW u \in Users, Issues(u) PROVE FewSessions'
  <2>1. /\ \A v \in Users : v # u => signedIn'[v] = signedIn[v]
        /\ Len(signedIn'[u]) <= MaxActive
    BY <1>1, <1>3, Issued DEF Issues, FewSessions
  <2> QED BY <2>1 DEF FewSessions
<1> QED BY <1>2, <1>3, SessionSteps

(* Every account keeps a password or a Google identity, an identity opens    *)
(* the account that holds it and no other, and no account has more sessions  *)
(* than the limit, whatever sign-ins, links, resets and removals overlap     *)
(* (api/_identity-linking.js, api/_db.js:284).                               *)
THEOREM NobodyIsLockedOut == ASSUME CredentialsConstants PROVE Spec => []EveryoneCanSignIn
<1>1. Init => Typed /\ Entry /\ FewSessions
  BY TypedInit, EntryInit
<1>2. Typed /\ Entry /\ FewSessions /\ [Next]_vars => (Typed /\ Entry /\ FewSessions)'
  BY StaysTyped, EntryStays, SessionsStayFew
<1>3. Entry /\ FewSessions => EveryoneCanSignIn
  BY EntryIs
<1> QED BY <1>1, <1>2, <1>3, PTL DEF Spec

-----------------------------------------------------------------------------
(* Credentials answer to a proof.                                            *)

(* A request that was admitted keeps its session from being issued again, so *)
(* while that session lives its account has not asked for its deletion; and  *)
(* a link that was answered is not the one of an open row.                   *)
Held(f) == Live(flow[f].user, flow[f].session)

ManagersStay == \A f \in Flows : flow[f].step = "manage" /\ Held(f) => flow[f].user \notin pending

AnsweredOnce == \A u \in Users, t \in 1..MaxTokens :
  <<u, t>> \in answered => t < reset[u].token \/ (t = reset[u].token /\ reset[u].state = "used")

Proving == Typed /\ ManagersStay /\ AnsweredOnce

LEMMA AnsweredOnceStays ==
  ASSUME CredentialsConstants, Typed, AnsweredOnce, [Next]_vars PROVE AnsweredOnce'
<1> DEFINE Row == [token : 0..MaxTokens, sends : 0..MaxSends, cooling : BOOLEAN,
                   state : {"none", "open", "used", "expired"}]
<1>1. MaxTokens \in Nat /\ reset \in [Users -> Row] /\ answered \subseteq Users \X (1..MaxTokens)
  BY DEF CredentialsConstants, Typed, TypeOK
<1>2. CASE UNCHANGED resets
  BY <1>2 DEF resets, AnsweredOnce
<1>3. ASSUME NEW u \in Users, RequestReset(u) PROVE AnsweredOnce'
  <2>1. /\ reset' = [reset EXCEPT ![u] = Requested(reset[u])] /\ answered' = answered
        /\ Requested(reset[u]).token = reset[u].token + 1
    BY <1>1, <1>3 DEF RequestReset, Requested
  <2>2. reset[u].token \in Nat
    BY <1>1
  <2> QED BY <1>1, <2>1, <2>2 DEF AnsweredOnce
<1>4. ASSUME NEW u \in Users, DeliverReset(u) PROVE AnsweredOnce'
  BY <1>4 DEF DeliverReset, AnsweredOnce
<1>5. ASSUME NEW u \in Users, ResetAges(u) PROVE AnsweredOnce'
  <2>1. /\ answered' = answered /\ reset'[u].token = reset[u].token
        /\ reset[u].state = "used" => reset'[u].state = "used"
        /\ \A v \in Users : v # u => reset'[v] = reset[v]
    BY <1>1, <1>5 DEF ResetAges
  <2> QED BY <1>1, <2>1 DEF AnsweredOnce
<1>6. ASSUME NEW u \in Users, NEW t \in 1..MaxTokens, NEW p \in Passwords, ConsumeReset(u, t, p)
      PROVE AnsweredOnce'
  <2>1. /\ answered' = answered \cup {<<u, t>>} /\ reset[u].token = t
        /\ reset'[u].token = reset[u].token /\ reset'[u].state = "used"
        /\ \A v \in Users : v # u => reset'[v] = reset[v]
    BY <1>1, <1>6 DEF ConsumeReset
  <2> QED BY <1>1, <2>1 DEF AnsweredOnce
<1>7. ResetsTyped
  BY DEF Typed, TypeOK, ResetsTyped
<1> QED BY <1>2, <1>3, <1>4, <1>5, <1>6, <1>7, ResetSteps

LEMMA ManagersStaySo ==
  ASSUME CredentialsConstants, Typed, ManagersStay, [Next]_vars PROVE ManagersStay'
<1> SUFFICES ASSUME NEW f \in Flows, (flow[f].step = "manage" /\ Held(f))'
             PROVE  flow'[f].user \notin pending'
  BY DEF ManagersStay
<1>1. TypeOK /\ FlowsRemember /\ FlowsRemember'
  BY FlowsGoOn DEF Typed
<1>2. flow'[f].user \in Users /\ flow'[f].session \in Sessions
  BY <1>1 DEF FlowsRemember, OnSession
<1> PICK u \in Users, s \in Sessions : u = flow'[f].user /\ s = flow'[f].session
  BY <1>2
<1>3. ASSUME flow[f] = flow'[f], Live(u, s) PROVE u \notin pending
  BY <1>3 DEF ManagersStay, Held
<1>4. Live(u, s)'
  BY DEF Held, Live
<1>5. \/ flow[f] = flow'[f]
      \/ \E v \in Users, t \in Sessions : Manage(f, v, t) /\ u = v /\ s = t
  <2> DEFINE Rest(h) == \A g \in Flows : g # h => flow'[g] = flow[g]
  <2>1. CASE UNCHANGED vars
    BY <2>1 DEF vars
  <2>2. ASSUME NEW h \in Flows, Ends(h) PROVE Rest(h) /\ flow'[h].step = "idle"
    BY <1>1, <2>2 DEF Ends, Idle, FlowsRemember
  <2>3. ASSUME NEW h \in Flows, LoginIssue(h) \/ ConfirmRecord(h) \/ Refused(h)
         \/ UnlinkPassword(h) \/ UnlinkGoogle(h) \/ (\E p \in Passwords : AddPassword(h, p))
         \/ Abandon(h) \/ Link(h) \/ GoogleIssue(h)
        PROVE Ends(h)
    BY <2>3 DEF LoginIssue, ConfirmRecord, Refused, UnlinkPassword, UnlinkGoogle, AddPassword,
                Abandon, Link, GoogleIssue
  <2>4. ASSUME NEW h \in Flows, GoogleStart(h) \/ Observe(h) \/ Refresh(h) \/ Bind(h)
         \/ (\E g \in Subjects : CallbackLink(h, g) \/ CallbackReauth(h, g) \/ CallbackLogin(h, g))
         \/ (\E v \in Users : Login(h, v) \/ \E t \in Sessions : Confirm(h, v, t))
        PROVE Rest(h) /\ flow'[h].step # "manage"
    <3>1. flow \in [Flows -> [step : Steps, user : Users \cup {None}, session : Sessions \cup {None},
                              subject : Subjects \cup {None}]]
      BY <1>1 DEF FlowsRemember
    <3>2. CASE GoogleStart(h)
      <4>1. CASE flow' = [flow EXCEPT ![h].step = "google"]
        BY <3>1, <4>1
      <4>2. ASSUME NEW v \in Users, NEW t \in Sessions,
                   flow' = [flow EXCEPT ![h] = [Idle EXCEPT !.step = "link", !.user = v, !.session = t]]
            PROVE Rest(h) /\ flow'[h].step # "manage"
        BY <3>1, <4>2 DEF Idle
      <4>3. ASSUME NEW v \in Users, NEW t \in Sessions,
                   flow' = [flow EXCEPT ![h] = [Idle EXCEPT !.step = "reauth", !.user = v, !.session = t]]
            PROVE Rest(h) /\ flow'[h].step # "manage"
        BY <3>1, <4>3 DEF Idle
      <4> QED BY <3>2, <4>1, <4>2, <4>3 DEF GoogleStart
    <3>3. CASE Observe(h) \/ Refresh(h) \/ Bind(h)
      BY <3>1, <3>3 DEF Observe, Refresh, Bind, Goes
    <3>4. CASE \E g \in Subjects : CallbackLink(h, g) \/ CallbackReauth(h, g) \/ CallbackLogin(h, g)
      BY <3>1, <3>4 DEF CallbackLink, CallbackReauth, CallbackLogin
    <3>5. CASE \E v \in Users : Login(h, v) \/ \E t \in Sessions : Confirm(h, v, t)
      <4>1. ASSUME NEW v \in Users, Login(h, v) PROVE Rest(h) /\ flow'[h].step # "manage"
        BY <3>1, <4>1 DEF Login, Idle
      <4>2. ASSUME NEW v \in Users, NEW t \in Sessions, Confirm(h, v, t)
            PROVE Rest(h) /\ flow'[h].step # "manage"
        BY <3>1, <4>2 DEF Confirm, Idle
      <4> QED BY <3>5, <4>1, <4>2
    <3> QED BY <2>4, <3>2, <3>3, <3>4, <3>5
  <2>5. ASSUME NEW h \in Flows, NEW v \in Users, NEW t \in Sessions, Manage(h, v, t)
        PROVE Rest(h) /\ flow'[h].user = v /\ flow'[h].session = t
    BY <1>1, <2>5 DEF Manage, Idle, FlowsRemember
  <2>6. ASSUME NEW v \in Users, RequestReset(v) \/ DeliverReset(v) \/ ResetAges(v) \/ LogoutAll(v)
         \/ RequestDeletion(v) \/ CancelDeletion(v)
         \/ (\E t \in 1..MaxTokens, p \in Passwords : ConsumeReset(v, t, p))
         \/ (\E t \in Sessions : Logout(v, t))
        PROVE flow' = flow
    BY <2>6 DEF RequestReset, DeliverReset, ResetAges, LogoutAll, RequestDeletion, CancelDeletion,
                ConsumeReset, Logout
  <2>7. ASSUME NEW t \in Sessions, ProofAges(t) PROVE flow' = flow
    BY <2>7 DEF ProofAges
  <2> QED BY <2>1, <2>2, <2>3, <2>4, <2>5, <2>6, <2>7 DEF Next
<1>6. CASE \E v \in Users, t \in Sessions : Manage(f, v, t) /\ u = v /\ s = t
  BY <1>6 DEF Manage, Verified
<1>7. CASE flow[f] = flow'[f]
  <2>1. Live(u, s)
    <3>1. CASE SessionsEnd
      BY <1>2, <1>4, <3>1 DEF SessionsEnd, Shrunk
    <3>2. ASSUME NEW v \in Users, Issues(v) PROVE Live(u, s)
      <4>1. PICK t \in Sessions :
              /\ Free(t) /\ \A x \in Users : x # v => signedIn'[x] = signedIn[x]
              /\ \A x : Live(v, x)' => Live(v, x) \/ x = t
        BY <1>1, <3>2, Issued DEF Issues
      <4>2. s # t
        BY <1>7, <4>1 DEF Free
      <4>3. CASE u = v
        BY <1>4, <4>1, <4>2, <4>3
      <4>4. CASE u # v
        BY <1>4, <4>1, <4>4 DEF Live
      <4> QED BY <4>3, <4>4
    <3> QED BY <3>1, <3>2, SessionSteps
  <2>2. u \notin pending
    BY <1>3, <1>7, <2>1
  <2>3. \A v \in Users : RequestDeletion(v) => v # u
    <3> SUFFICES ASSUME RequestDeletion(u) PROVE FALSE
      BY <1>2
    <3>1. signedIn' = [signedIn EXCEPT ![u] = <<>>]
      BY DEF RequestDeletion
    <3> QED BY <1>1, <1>2, <1>4, <3>1, Emptied
  <2>4. pending' \subseteq pending \/ \E v \in Users : RequestDeletion(v) /\ pending' = pending \cup {v}
    <3>1. CASE UNCHANGED vars
      BY <3>1 DEF vars
    <3>2. ASSUME NEW h \in Flows, LoginIssue(h) \/ ConfirmRecord(h) \/ Refused(h)
           \/ UnlinkPassword(h) \/ UnlinkGoogle(h) \/ (\E p \in Passwords : AddPassword(h, p))
           \/ GoogleStart(h) \/ Abandon(h) \/ Link(h) \/ Observe(h) \/ Refresh(h) \/ Bind(h) \/ GoogleIssue(h)
           \/ (\E g \in Subjects : CallbackLink(h, g) \/ CallbackReauth(h, g) \/ CallbackLogin(h, g))
           \/ (\E v \in Users : Login(h, v) \/ \E t \in Sessions : Confirm(h, v, t) \/ Manage(h, v, t))
          PROVE pending' = pending
      BY <3>2 DEF LoginIssue, ConfirmRecord, Refused, UnlinkPassword, UnlinkGoogle, AddPassword, GoogleStart,
                  Abandon, Link, Observe, Refresh, Bind, GoogleIssue, CallbackLink, CallbackReauth,
                  CallbackLogin, Login, Confirm, Manage
    <3>3. ASSUME NEW v \in Users, RequestReset(v) \/ DeliverReset(v) \/ ResetAges(v) \/ LogoutAll(v)
           \/ CancelDeletion(v) \/ (\E t \in 1..MaxTokens, p \in Passwords : ConsumeReset(v, t, p))
           \/ (\E t \in Sessions : Logout(v, t))
          PROVE pending' \subseteq pending
      BY <3>3 DEF RequestReset, DeliverReset, ResetAges, LogoutAll, CancelDeletion, ConsumeReset, Logout
    <3>4. ASSUME NEW v \in Users, RequestDeletion(v) PROVE pending' = pending \cup {v}
      BY <3>4 DEF RequestDeletion
    <3>5. ASSUME NEW t \in Sessions, ProofAges(t) PROVE pending' = pending
      BY <3>5 DEF ProofAges
    <3> QED BY <3>1, <3>2, <3>3, <3>4, <3>5 DEF Next
  <2> QED BY <2>2, <2>3, <2>4
<1> QED BY <1>5, <1>6, <1>7

LEMMA ProvingStays == ASSUME CredentialsConstants, Proving, [Next]_vars PROVE Proving'
BY StaysTyped, ManagersStaySo, AnsweredOnceStays DEF Proving

(* What a step may do to the credentials of one account.                     *)
Proved(u) == \E s \in Sessions : proof[s] # "none" /\ Live(u, s)
Alone(u)  == Len(signedIn'[u]) <= 1
Linked(u) == \E t \in 1..MaxTokens :
  /\ <<u, t>> \in links \ answered /\ t = reset[u].token
  /\ answered' = answered \cup {<<u, t>>} /\ signedIn'[u] = <<>>

Answers(u) ==
  /\ password'[u] # password[u] => u \notin pending /\ (Proved(u) \/ Linked(u))
  /\ answered' # answered => \E v \in Users, t \in 1..MaxTokens :
       <<v, t>> \notin answered /\ t = reset[v].token /\ signedIn'[v] = <<>>
  /\ password[u] # None /\ password'[u] = None => Alone(u)
  /\ google[u] # None /\ google'[u] = None => Proved(u) /\ Alone(u)
  /\ google[u] = None /\ google'[u] # None =>
       Proved(u) \/ \E f \in Flows : flow[f].step = "observed" /\ flow[f].user = u

LEMMA ManagedIsProved ==
  ASSUME Proving, NEW f \in Flows, Managed(f)
  PROVE  /\ flow[f].user \in Users /\ flow[f].session \in Sessions
         /\ Proved(flow[f].user) /\ flow[f].user \notin pending
<1>1. flow[f].user \in Users /\ flow[f].session \in Sessions
  BY DEF Proving, Typed, FlowsRemember, Managed, OnSession
<1>2. Held(f) /\ proof[flow[f].session] # "none"
  BY DEF Managed, Recent, Held
<1> QED BY <1>1, <1>2 DEF Proving, ManagersStay, Managed, Proved, Held

LEMMA StepsAnswer ==
  ASSUME CredentialsConstants, Proving, [Next]_vars, NEW u \in Users PROVE Answers(u)
<1>1. TypeOK /\ FlowsRemember /\ CredentialsTypedNow /\ None \notin Passwords
  BY DEF Proving, Typed, TypeOK, CredentialsTypedNow, CredentialsConstants
<1>2. ASSUME answered' = answered, UNCHANGED credentials PROVE Answers(u)
  BY <1>2 DEF credentials, Answers
<1>3. ASSUME NEW v \in Users, NEW t \in 1..MaxTokens, NEW p \in Passwords, ConsumeReset(v, t, p)
      PROVE Answers(u)
  <2>1. signedIn' = [signedIn EXCEPT ![v] = <<>>] /\ v \notin pending
    BY <1>3 DEF ConsumeReset
  <2>2. signedIn'[v] = <<>> /\ Len(signedIn'[v]) = 0
    BY <1>1, <2>1, Emptied
  <2>3. /\ <<v, t>> \in links /\ reset[v].token = t /\ reset[v].state = "open"
        /\ answered' = answered \cup {<<v, t>>} /\ google' = google
        /\ password' = [password EXCEPT ![v] = p]
    BY <1>3 DEF ConsumeReset
  <2>4. <<v, t>> \notin answered
    <3>1. t \in Nat
      BY DEF CredentialsConstants
    <3> QED BY <2>3, <3>1 DEF Proving, AnsweredOnce
  <2>5. Linked(v)
    BY <2>2, <2>3, <2>4 DEF Linked
  <2>6. \A w \in Users : w # v => password'[w] = password[w]
    BY <1>1, <2>3 DEF CredentialsTypedNow
  <2>7. password'[v] = p
    BY <1>1, <2>3 DEF CredentialsTypedNow
  <2> QED BY <1>1, <2>1, <2>2, <2>3, <2>4, <2>5, <2>6, <2>7 DEF Answers
<1>4. ASSUME NEW f \in Flows, NEW p \in Passwords, AddPassword(f, p) PROVE Answers(u)
  <2>1. Managed(f) /\ answered' = answered /\ google' = google /\ password' = [password EXCEPT ![flow[f].user] = p]
    BY <1>4 DEF AddPassword, Managed, resets
  <2>2. /\ Proved(flow[f].user) /\ flow[f].user \notin pending
    BY <2>1, ManagedIsProved
  <2> QED BY <1>1, <2>1, <2>2 DEF CredentialsTypedNow, Answers
<1>5. ASSUME NEW f \in Flows, UnlinkPassword(f) \/ UnlinkGoogle(f) PROVE Answers(u)
  <2> DEFINE v == flow[f].user
  <2>1. Managed(f) /\ answered' = answered /\ OnlySession(v, flow[f].session) /\ Live(v, flow[f].session)
    BY <1>5 DEF UnlinkPassword, UnlinkGoogle, Managed, Recent, resets
  <2>2. /\ v \in Users /\ flow[f].session \in Sessions /\ Proved(v) /\ v \notin pending
    BY <2>1, ManagedIsProved
  <2>3. Len(signedIn'[v]) = 1
    BY <1>1, <2>1, <2>2, OnlyOne
  <2>4. \/ google' = google /\ password' = [password EXCEPT ![v] = None]
        \/ password' = password /\ google' = [google EXCEPT ![v] = None]
    BY <1>5 DEF UnlinkPassword, UnlinkGoogle
  <2> HIDE DEF v
  <2>5. Alone(v)
    BY <2>3 DEF Alone
  <2>6. \A w \in Users : w # v => password'[w] = password[w] /\ google'[w] = google[w]
    BY <1>1, <2>4 DEF CredentialsTypedNow
  <2> QED BY <2>1, <2>2, <2>4, <2>5, <2>6 DEF Answers
<1>6. ASSUME NEW f \in Flows, Link(f) PROVE Answers(u)
  <2> DEFINE v == flow[f].user
  <2>1. /\ v \in Users /\ flow[f].session \in Sessions
    BY <1>1, <1>6 DEF Link, FlowsRemember, OnSession
  <2>2. /\ answered' = answered /\ password' = password /\ google' = [google EXCEPT ![v] = flow[f].subject]
        /\ Recent(v, flow[f].session) /\ flow[f].subject \in Subjects
    BY <1>1, <1>6 DEF Link, resets, FlowsRemember, OnSubject
  <2>3. Proved(v) /\ None \notin Subjects
    BY <2>1, <2>2 DEF Proved, Recent, CredentialsConstants
  <2> HIDE DEF v
  <2>4. \A w \in Users : google'[w] = IF w = v THEN flow[f].subject ELSE google[w]
    BY <1>1, <2>1, <2>2 DEF CredentialsTypedNow
  <2> QED BY <2>2, <2>3, <2>4 DEF Answers
<1>7. ASSUME NEW f \in Flows, Refresh(f) \/ Bind(f) PROVE Answers(u)
  <2>1. /\ answered' = answered /\ password' = password
        /\ \/ google' = google
           \/ flow[f].step = "observed" /\ google' = [google EXCEPT ![flow[f].user] = flow[f].subject]
        /\ flow[f].step = "observed" => flow[f].subject \in Subjects
    BY <1>1, <1>7 DEF Refresh, Bind, resets, FlowsRemember, OnSubject
  <2>2. None \notin Subjects
    BY DEF CredentialsConstants
  <2> QED BY <1>1, <2>1, <2>2 DEF CredentialsTypedNow, Answers
<1>8. CASE UNCHANGED credentials
  <2>1. answered' = answered \/ \E v \in Users, t \in 1..MaxTokens, p \in Passwords : ConsumeReset(v, t, p)
    <3>1. ResetsTyped
      BY DEF Proving, Typed, TypeOK, ResetsTyped
    <3> QED BY <3>1, ResetSteps DEF resets, RequestReset, DeliverReset, ResetAges
  <2> QED BY <1>2, <1>3, <1>8, <2>1
<1> QED BY <1>3, <1>4, <1>5, <1>6, <1>7, <1>8, CredentialSteps DEF WritesCredentials

(* A password changes by the newest link of its account, used once and       *)
(* ending every session, or by a live session with a recent proof, and never *)
(* while a deletion is pending; a removal leaves no other session.  What a   *)
(* request verified before its transaction is enough, because a session that *)
(* a request still has in hand is not issued again                           *)
(* (api/_password-reset.js, _identity-linking.js).                           *)
THEOREM CredentialsAreEarned == ASSUME CredentialsConstants PROVE Spec => [][CredentialsAnswerProof]_vars
<1>1. Init => Proving
  <2> SUFFICES ASSUME Init PROVE Proving
    OBVIOUS
  <2>1. ManagersStay /\ AnsweredOnce
    BY DEF Init, Idle, ManagersStay, AnsweredOnce
  <2> QED BY <2>1, TypedInit DEF Proving
<1>2. Proving /\ [Next]_vars => Proving'
  BY ProvingStays
<1>3. Proving /\ [Next]_vars => [CredentialsAnswerProof]_vars
  BY StepsAnswer DEF CredentialsAnswerProof, Answers, Proved, Alone, Linked
<1> QED BY <1>1, <1>2, <1>3, PTL DEF Spec
=============================================================================
