----------------------------- MODULE Credentials -----------------------------
(* The credentials of an account: its password and its Google identity, the  *)
(* sessions and recent proofs they give, and the reset link that replaces a  *)
(* password (api/auth.js, _identity-linking.js, _password-reset.js,          *)
(* _recent-auth.js, the sessions of _db.js).                                 *)
(*                                                                           *)
(* A transaction is a step.  What a request read or verified before it is    *)
(* kept in its flow, and anything may be committed in between; a Google      *)
(* sign-in is five such steps.  A subject is Google's identifier of a user.  *)
EXTENDS Naturals, SequencesExt

CONSTANTS
  Users, Subjects, Sessions,
  Flows,        \* requests in flight
  None,
  StartsWith,   \* the subject an account was created with, or None: a password
  Passwords,    \* what users choose
  MaxActive,    \* MAX_ACTIVE_SESSIONS_PER_ACCOUNT
  MaxSends,     \* PASSWORD_RESET_MAX_SENDS
  Departing,    \* bound: the accounts that may ask for their deletion
  MaxTokens     \* bound: reset requests of an account

(* Assumed of every instance. *)
CredentialsConstants ==
  /\ None \notin Users \cup Subjects \cup Passwords
  /\ StartsWith \in [Users -> Subjects \cup {None}]
  /\ \A u, v \in Users : StartsWith[u] = StartsWith[v] /\ StartsWith[u] # None => u = v
  /\ Departing \subseteq Users /\ Passwords # {} /\ {MaxActive, MaxSends} \subseteq Nat \ {0} /\ MaxTokens \in Nat

VARIABLES
  password,  \* None: a hash that is not '$2'
  google,    \* auth_accounts.google_sub
  identity,  \* auth_provider_identities: the account of each subject
  signedIn,  \* of each account, its live sessions, oldest first
  proof,     \* auth_recent_proofs of each session, while it is recent
  reset,     \* auth_password_resets: the row of each account
  links,     \* the reset links that reached a mailbox
  answered,  \* those that replaced a password
  pending,   \* accounts with a deletion request
  flow

vars == <<password, google, identity, signedIn, proof, reset, links, answered, pending, flow>>
credentials == <<password, google, identity>>
resets == <<reset, links, answered>>

Idle == [step |-> "idle", user |-> None, session |-> None, subject |-> None]

(* Mutant of HasPassword: any hash is a password.                            *)
HasAnyHash(u) == TRUE

(* hasPassword *)
HasPassword(u) == password[u] # None

(* accountState.google_subject *)
RowOf(u) == IF \E g \in Subjects : identity[g] = u
            THEN CHOOSE g \in Subjects : identity[g] = u ELSE None

Live(u, s) == \E i \in 1..Len(signedIn[u]) : signedIn[u][i] = s

(* verifyRequestAuth *)
Verified(u, s) == Live(u, s) /\ u \notin pending

(* Mutant of Recent: the session of the proof is not asked for.              *)
RecentOfAny(u, s) == proof[s] # "none"

(* readRecentAuth *)
Recent(u, s) == Live(u, s) /\ proof[s] # "none"

Free(s) == (\A u \in Users : ~Live(u, s)) /\ \A f \in Flows : flow[f].session # s

Ends(f) == flow' = [flow EXCEPT ![f] = Idle]
Goes(f, step) == flow' = [flow EXCEPT ![f].step = step]

(* revokeOtherSessions *)
OnlySession(u, s) == signedIn' = [signedIn EXCEPT ![u] = <<s>>]

(* issueSessionInTransaction: the proof with it, and the oldest rotated out. *)
Issue(u, method) == \E s \in Sessions :
  /\ Free(s)
  /\ proof' = [proof EXCEPT ![s] = method]
  /\ LET all == Append(signedIn[u], s) IN
     signedIn' = [signedIn EXCEPT ![u] = IF Len(all) > MaxActive THEN Tail(all) ELSE all]

(* recordRecentAuth: nothing for a session that has ended.                   *)
Record(u, s, method) ==
  proof' = IF Live(u, s) THEN [proof EXCEPT ![s] = method] ELSE proof

-----------------------------------------------------------------------------
(* Password sign-in and confirmation: the hash is read and compared, then    *)
(* the session is issued, or the proof recorded, in a step of its own.       *)

Login(f, u) ==
  /\ flow[f] = Idle /\ HasPassword(u)
  /\ flow' = [flow EXCEPT ![f] = [Idle EXCEPT !.step = "login", !.user = u]]
  /\ UNCHANGED <<credentials, signedIn, proof, resets, pending>>

LoginIssue(f) ==
  /\ flow[f].step = "login" /\ Issue(flow[f].user, "password") /\ Ends(f)
  /\ UNCHANGED <<credentials, resets, pending>>

Confirm(f, u, s) ==
  /\ flow[f] = Idle /\ Verified(u, s) /\ HasPassword(u)
  /\ flow' = [flow EXCEPT ![f] = [Idle EXCEPT !.step = "confirm", !.user = u, !.session = s]]
  /\ UNCHANGED <<credentials, signedIn, proof, resets, pending>>

ConfirmRecord(f) ==
  /\ flow[f].step = "confirm" /\ Record(flow[f].user, flow[f].session, "password") /\ Ends(f)
  /\ UNCHANGED <<credentials, signedIn, resets, pending>>

-----------------------------------------------------------------------------
(* Identity management: the handler verifies session and proof, the          *)
(* transaction asks for the proof again.                                     *)

Manage(f, u, s) ==
  /\ flow[f] = Idle /\ Verified(u, s) /\ Recent(u, s)
  /\ flow' = [flow EXCEPT ![f] = [Idle EXCEPT !.step = "manage", !.user = u, !.session = s]]
  /\ UNCHANGED <<credentials, signedIn, proof, resets, pending>>

(* What each transaction refuses: the answer, or the audit row, is all.      *)
Refused(f) ==
  /\ flow[f].step \in {"manage", "linking"} /\ Ends(f)
  /\ UNCHANGED <<credentials, signedIn, proof, resets, pending>>

AddPassword(f, p) ==
  LET u == flow[f].user IN
  /\ flow[f].step = "manage" /\ Recent(u, flow[f].session)
  /\ ~HasPassword(u) /\ RowOf(u) # None /\ proof[flow[f].session] = "google"
  /\ password' = [password EXCEPT ![u] = p] /\ Ends(f)
  /\ UNCHANGED <<google, identity, signedIn, proof, resets, pending>>

UnlinkPassword(f) ==
  LET u == flow[f].user IN
  /\ flow[f].step = "manage" /\ Recent(u, flow[f].session)
  /\ HasPassword(u) /\ RowOf(u) # None
  /\ password' = [password EXCEPT ![u] = None]
  /\ OnlySession(u, flow[f].session) /\ Ends(f)
  /\ UNCHANGED <<google, identity, proof, resets, pending>>

UnlinkGoogle(f) ==
  LET u == flow[f].user  g == RowOf(flow[f].user) IN
  /\ flow[f].step = "manage" /\ Recent(u, flow[f].session)
  /\ g # None /\ HasPassword(u) /\ google[u] = g
  /\ identity' = [identity EXCEPT ![g] = None] /\ google' = [google EXCEPT ![u] = None]
  /\ OnlySession(u, flow[f].session) /\ Ends(f)
  /\ UNCHANGED <<password, proof, resets, pending>>

-----------------------------------------------------------------------------
(* Google: the signed transaction cookie holds purpose, account and session. *)

GoogleStart(f) ==
  /\ flow[f] = Idle
  /\ \/ flow' = [flow EXCEPT ![f].step = "google"]
     \/ \E u \in Users, s \in Sessions :
          /\ Verified(u, s)
          /\ \/ Recent(u, s) /\ flow' = [flow EXCEPT ![f] =
                  [Idle EXCEPT !.step = "link", !.user = u, !.session = s]]
             \/ flow' = [flow EXCEPT ![f] =
                  [Idle EXCEPT !.step = "reauth", !.user = u, !.session = s]]
  /\ UNCHANGED <<credentials, signedIn, proof, resets, pending>>

(* A flow that is given up, whose cookie expires, or that fails: its session *)
(* ended, the provider answered for nobody, a statement threw.               *)
Abandon(f) ==
  /\ flow[f].step \in {"google", "link", "reauth", "found", "held", "observed",
                       "refreshed", "renewed", "unseen", "bound"}
  /\ Ends(f) /\ UNCHANGED <<credentials, signedIn, proof, resets, pending>>

(* The callback of a link: the session is verified once more.                *)
CallbackLink(f, g) ==
  LET u == flow[f].user  s == flow[f].session IN
  /\ flow[f].step = "link" /\ Verified(u, s) /\ Recent(u, s)
  /\ flow' = [flow EXCEPT ![f].step = "linking", ![f].subject = g]
  /\ UNCHANGED <<credentials, signedIn, proof, resets, pending>>

(* linkGoogleCredentialAttempt: the subject is nobody's, or already theirs.  *)
Link(f) ==
  LET u == flow[f].user  s == flow[f].session  g == flow[f].subject IN
  /\ flow[f].step = "linking" /\ Recent(u, s)
  /\ identity[g] \in {None, u} /\ RowOf(u) \in {None, g}
  /\ google[u] \in {None, g} /\ \A v \in Users \ {u} : google[v] # g
  /\ google' = [google EXCEPT ![u] = g] /\ identity' = [identity EXCEPT ![g] = u]
  /\ Record(u, s, "google") /\ Ends(f)
  /\ UNCHANGED <<password, signedIn, resets, pending>>

(* The callback of a reauthentication: the subject is the account's, whose   *)
(* email is observed, and a new session replaces the old one's cookie.       *)
CallbackReauth(f, g) ==
  /\ flow[f].step = "reauth" /\ Verified(flow[f].user, flow[f].session)
  /\ identity[g] = flow[f].user
  /\ flow' = [flow EXCEPT ![f].step = "unseen", ![f].subject = g]
  /\ UNCHANGED <<credentials, signedIn, proof, resets, pending>>

(* The callback of a sign-in: by the subject's row, else by google_sub.      *)
CallbackLogin(f, g) ==
  /\ flow[f].step = "google"
  /\ \E u \in Users :
       \/ identity[g] = u
          /\ flow' = [flow EXCEPT ![f] = [step |-> "found", user |-> u, session |-> None, subject |-> g]]
       \/ identity[g] = None /\ google[u] = g
          /\ flow' = [flow EXCEPT ![f] = [step |-> "held", user |-> u, session |-> None, subject |-> g]]
  /\ UNCHANGED <<credentials, signedIn, proof, resets, pending>>

(* observeGoogleProviderEmail: the row must still be the account's.          *)
Observe(f) ==
  /\ flow[f].step \in {"found", "unseen"} /\ identity[flow[f].subject] = flow[f].user
  /\ Goes(f, IF flow[f].step = "found" THEN "observed" ELSE "bound")
  /\ UNCHANGED <<credentials, signedIn, proof, resets, pending>>

(* The UPDATE that fills google_sub, and the one that asks for it.           *)
Refresh(f) ==
  LET u == flow[f].user  g == flow[f].subject IN
  /\ \/ /\ flow[f].step = "observed" /\ google[u] \in {None, g}
        /\ \A v \in Users \ {u} : google[v] # g
        /\ google' = [google EXCEPT ![u] = g] /\ Goes(f, "refreshed")
     \/ flow[f].step = "held" /\ google[u] = g /\ Goes(f, "renewed") /\ UNCHANGED google
  /\ UNCHANGED <<password, identity, signedIn, proof, resets, pending>>

(* bindGoogleProviderIdentity *)
Bind(f) ==
  LET u == flow[f].user  g == flow[f].subject IN
  /\ flow[f].step \in {"refreshed", "renewed"}
  /\ \/ identity[g] = u /\ UNCHANGED identity
     \/ /\ google[u] = g /\ identity[g] = None /\ RowOf(u) = None
        /\ identity' = [identity EXCEPT ![g] = u]
  /\ Goes(f, IF flow[f].step = "refreshed" THEN "bound" ELSE "unseen")
  /\ UNCHANGED <<password, google, signedIn, proof, resets, pending>>

GoogleIssue(f) ==
  /\ flow[f].step = "bound" /\ Issue(flow[f].user, "google") /\ Ends(f)
  /\ UNCHANGED <<credentials, resets, pending>>

-----------------------------------------------------------------------------
(* Reset links.                                                              *)

(* The row starts again once its link is used or has expired.                *)
Over(r) == r.state \in {"none", "used", "expired"}

(* requestPasswordReset, the upsert: a new id and token each time.           *)
Requested(r) ==
  [r EXCEPT !.sends = IF Over(r) THEN 1 ELSE @ + 1, !.state = "open", !.cooling = TRUE,
            !.token = @ + 1]

RequestReset(u) ==
  /\ HasPassword(u) /\ u \notin pending /\ reset[u].token < MaxTokens
  /\ Over(reset[u]) \/ (reset[u].sends < MaxSends /\ ~reset[u].cooling)
  /\ reset' = [reset EXCEPT ![u] = Requested(reset[u])]
  /\ UNCHANGED <<credentials, signedIn, proof, links, answered, pending, flow>>

(* createPasswordResetHandler: a letter whose row has moved on is suppressed *)
DeliverReset(u) ==
  /\ reset[u].state = "open" /\ HasPassword(u) /\ u \notin pending
  /\ links' = links \cup {<<u, reset[u].token>>} /\ links' # links
  /\ UNCHANGED <<credentials, signedIn, proof, reset, answered, pending, flow>>

(* consumePasswordResetAttempt *)
ConsumeReset(u, t, p) ==
  /\ <<u, t>> \in links /\ reset[u].token = t /\ u \notin pending
  /\ reset[u].state = "open" /\ HasPassword(u)
  /\ password' = [password EXCEPT ![u] = p]
  /\ signedIn' = [signedIn EXCEPT ![u] = <<>>]
  /\ reset' = [reset EXCEPT ![u].state = "used"] /\ answered' = answered \cup {<<u, t>>}
  /\ UNCHANGED <<google, identity, proof, links, pending, flow>>

-----------------------------------------------------------------------------
(* Time, sign-out, and deletion requests (module AccountDeletion).           *)

ResetAges(u) ==
  /\ \/ reset[u].cooling /\ reset' = [reset EXCEPT ![u].cooling = FALSE]
     \/ reset[u].state = "open" /\ reset' = [reset EXCEPT ![u].state = "expired", ![u].cooling = FALSE]
  /\ UNCHANGED <<credentials, signedIn, proof, links, answered, pending, flow>>

ProofAges(s) ==
  /\ proof[s] # "none" /\ proof' = [proof EXCEPT ![s] = "none"]
  /\ UNCHANGED <<credentials, signedIn, resets, pending, flow>>

(* revokeRequestSession, or the thirty days of a session.                    *)
Logout(u, s) ==
  /\ \E i \in 1..Len(signedIn[u]) :
       signedIn[u][i] = s /\ signedIn' = [signedIn EXCEPT ![u] = RemoveAt(@, i)]
  /\ UNCHANGED <<credentials, proof, resets, pending, flow>>

LogoutAll(u) ==
  /\ signedIn[u] # <<>> /\ u \notin pending
  /\ signedIn' = [signedIn EXCEPT ![u] = <<>>]
  /\ UNCHANGED <<credentials, proof, resets, pending, flow>>

RequestDeletion(u) ==
  /\ u \in Departing \ pending /\ pending' = pending \cup {u}
  /\ proof' = [s \in Sessions |-> IF Live(u, s) THEN "none" ELSE proof[s]]
  /\ signedIn' = [signedIn EXCEPT ![u] = <<>>]
  /\ UNCHANGED <<credentials, resets, flow>>

CancelDeletion(u) ==
  /\ u \in pending /\ pending' = pending \ {u}
  /\ UNCHANGED <<credentials, signedIn, proof, resets, flow>>

Init ==
  /\ password = [u \in Users |-> IF StartsWith[u] = None THEN CHOOSE p \in Passwords : TRUE ELSE None]
  /\ google = StartsWith
  /\ identity = [g \in Subjects |-> IF \E u \in Users : StartsWith[u] = g
                                    THEN CHOOSE u \in Users : StartsWith[u] = g ELSE None]
  /\ signedIn = [u \in Users |-> <<>>] /\ proof = [s \in Sessions |-> "none"]
  /\ reset = [u \in Users |-> [token |-> 0, sends |-> 0, state |-> "none", cooling |-> FALSE]]
  /\ links = {} /\ answered = {} /\ pending = {}
  /\ flow = [f \in Flows |-> Idle]

Next ==
  \/ \E f \in Flows :
       \/ LoginIssue(f) \/ ConfirmRecord(f) \/ Refused(f)
       \/ UnlinkPassword(f) \/ UnlinkGoogle(f) \/ (\E p \in Passwords : AddPassword(f, p))
       \/ GoogleStart(f) \/ Abandon(f) \/ Link(f) \/ Observe(f) \/ Refresh(f) \/ Bind(f) \/ GoogleIssue(f)
       \/ \E g \in Subjects : CallbackLink(f, g) \/ CallbackReauth(f, g) \/ CallbackLogin(f, g)
       \/ \E u \in Users : Login(f, u) \/ \E s \in Sessions : Confirm(f, u, s) \/ Manage(f, u, s)
  \/ \E u \in Users :
       \/ RequestReset(u) \/ DeliverReset(u) \/ ResetAges(u) \/ LogoutAll(u)
       \/ RequestDeletion(u) \/ CancelDeletion(u)
       \/ \E t \in 1..MaxTokens, p \in Passwords : ConsumeReset(u, t, p)
       \/ \E s \in Sessions : Logout(u, s)
  \/ \E s \in Sessions : ProofAges(s)

Spec == Init /\ [][Next]_vars

-----------------------------------------------------------------------------
TypeOK ==
  /\ password \in [Users -> Passwords \cup {None}] /\ google \in [Users -> Subjects \cup {None}]
  /\ identity \in [Subjects -> Users \cup {None}] /\ signedIn \in [Users -> Seq(Sessions)]
  /\ proof \in [Sessions -> {"none", "password", "google"}]
  /\ reset \in [Users -> [token : 0..MaxTokens, sends : 0..MaxSends, cooling : BOOLEAN,
                          state : {"none", "open", "used", "expired"}]]
  /\ links \subseteq Users \X (1..MaxTokens) /\ answered \subseteq links /\ pending \subseteq Users

(* Nobody locks itself out, a subject opens one account, and an account      *)
(* keeps at most its newest sessions, whatever sign-ins, links and removals  *)
(* overlap.  docs/IMPLEMENTED_DECISIONS.md:575, api/_db.js:284.              *)
EveryoneCanSignIn ==
  /\ \A u \in Users : password[u] # None \/ RowOf(u) # None
  /\ \A g \in Subjects : identity[g] # None => google[identity[g]] = g
  /\ \A u, v \in Users : google[u] = google[v] /\ google[u] # None => u = v
  /\ \A u \in Users : Len(signedIn[u]) <= MaxActive

(* A password changes by the newest link of its account, once, and then ends *)
(* every session, or by a live session with a recent proof; never while a    *)
(* deletion is pending.  A removal ends the other sessions.  An identity is  *)
(* added by such a session or by a sign-in that had found it.                *)
(* docs/IMPLEMENTED_DECISIONS.md:573, api/_password-reset.js:276.            *)
CredentialsAnswerProof == \A u \in Users :
  LET proved == \E s \in Sessions : proof[s] # "none" /\ Live(u, s)
      alone  == Len(signedIn'[u]) <= 1
      linked == \E t \in 1..MaxTokens :
        /\ <<u, t>> \in links \ answered /\ t = reset[u].token
        /\ answered' = answered \cup {<<u, t>>} /\ signedIn'[u] = <<>>
  IN /\ password'[u] # password[u] => u \notin pending /\ (proved \/ linked)
     /\ answered' # answered => \E v \in Users, t \in 1..MaxTokens :
          <<v, t>> \notin answered /\ t = reset[v].token /\ signedIn'[v] = <<>>
     /\ password[u] # None /\ password'[u] = None => alone
     /\ google[u] # None /\ google'[u] = None => proved /\ alone
     /\ google[u] = None /\ google'[u] # None =>
          proved \/ \E f \in Flows : flow[f].step = "observed" /\ flow[f].user = u
=============================================================================
