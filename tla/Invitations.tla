------------------------------ MODULE Invitations ------------------------------
(* How an address becomes a member of the primary circle: invitations of its *)
(* owners, the waiting list of the public form, the link that verifies a     *)
(* registration, and a Google sign-in with an invitation (api/invitations.js,*)
(* _invitation-create.js, _invite-requests.js, _email-activation.js and the  *)
(* acceptance of _circle-membership.js).                                     *)
(*                                                                           *)
(* A transaction is a step.  A token is the number of its rotation: whoever  *)
(* was given one may have prepared a claim with it while it was good.  The    *)
(* minute that must pass between two letters only delays, and is left out.   *)
EXTENDS Naturals, Sequences, FiniteSets

CONSTANTS
  Emails, Owners, None,
  Known,          \* addresses of accounts that already exist, in other circles
  Ids,            \* 1..n: invitations
  Requests,       \* 1..m: rows of the waiting list
  Passwords,      \* what a registration may choose; "google" is not one
  DailyLimit,     \* INVITATION_CREATE_DAILY_LIMIT
  GlobalLimit,    \* INVITE_REQUEST_GLOBAL_DAILY_LIMIT
  MaxSends,       \* INVITATION_EMAIL_MAX_SENDS
  MaxActivations, \* EMAIL_ACTIVATION_MAX_SENDS
  MaxDays         \* bound: how often the daily windows end

(* Assumed of every instance. *)
InvitationsConstants ==
  /\ Known \subseteq Emails /\ "google" \notin Passwords
  /\ None \notin Emails \cup Passwords /\ None # "google"
  /\ Ids = 1..Cardinality(Ids) /\ Requests = 1..Cardinality(Requests)
  /\ {DailyLimit, GlobalLimit, MaxSends, MaxActivations} \subseteq Nat \ {0} /\ MaxDays \in Nat

VARIABLES
  owners,      \* active owners of the circle
  invitation,  \* circle_invitations
  spent,       \* invitations of the current quota window
  bulk,        \* addresses an owner's bulk request has still to invite
  request,     \* invite_requests
  stored,      \* requests stored in the last day
  activation,  \* auth_email_activations, one row for an invitation
  letters,     \* verification links that reached their mailbox
  meant,       \* for each invitation, the password each verification link was sent for
  account,     \* None, the password, or "google"
  member,      \* the membership of each address
  days

vars == <<owners, invitation, spent, bulk, request, stored, activation, letters, meant,
          account, member, days>>
registration == <<activation, letters, meant>>
waiting == <<request, stored>>
people  == <<account, member>>

Unborn == [email |-> None, state |-> "none", token |-> 0, sends |-> 0, by |-> None]
NoActivation == [state |-> "none", password |-> None, token |-> 0]
NoRequest == [email |-> None, status |-> "none", invitation |-> 0]

Fresh(S, free(_)) == {i \in S : free(i) /\ \A j \in S : free(j) => i <= j}

(* invitationStatus; a row is expired only by the clock.                     *)
IsLive(i) == invitation[i].state = "live"
Invited(e) == \E i \in Ids : IsLive(i) /\ invitation[i].email = e

(* prepareInvitationClaim: the claims that may be about.                     *)
Claims == {c \in Ids \X (1..MaxSends) : c[2] <= invitation[c[1]].token}

(* What every acceptance asks of the claim: its token must be the row's.     *)
Claimed(c) == invitation[c[1]].token = c[2]

-----------------------------------------------------------------------------
(* Owners.                                                                   *)

(* insertOwnerInvitation: with its letter, where mail is configured.         *)
Inserted(i, e) == \E sends \in {0, 1} :
  invitation' = [invitation EXCEPT ![i] =
    [email |-> e, state |-> "live", token |-> 1, sends |-> sends, by |-> None]]

(* reserveInvitationQuota *)
Reserve == spent < DailyLimit /\ spent' = spent + 1

Create(o, e) == \E i \in Fresh(Ids, LAMBDA j : invitation[j].state = "none") :
  /\ o \in owners /\ Reserve /\ Inserted(i, e)
  /\ UNCHANGED <<owners, bulk, waiting, registration, people, days>>

(* classifyBulkEmails and the quota that is looked at before the first one.  *)
StartBulk(o, S) ==
  /\ o \in owners /\ bulk[o] = {} /\ S # {}
  /\ \A e \in S : member[e] = "none" /\ ~Invited(e)
  /\ Cardinality(S) <= DailyLimit - spent
  /\ bulk' = [bulk EXCEPT ![o] = S]
  /\ UNCHANGED <<owners, invitation, spent, waiting, registration, people, days>>

CreateNext(o, e) == \E i \in Fresh(Ids, LAMBDA j : invitation[j].state = "none") :
  /\ o \in owners /\ e \in bulk[o] /\ Reserve /\ Inserted(i, e)
  /\ bulk' = [bulk EXCEPT ![o] = @ \ {e}]
  /\ UNCHANGED <<owners, waiting, registration, people, days>>

(* The quota is spent, the owner or the context has changed: the rest fail;  *)
(* one that throws does not stop the others.                                 *)
StopBulk(o) ==
  /\ bulk[o] # {}
  /\ \/ bulk' = [bulk EXCEPT ![o] = {}]
     \/ \E e \in bulk[o] : bulk' = [bulk EXCEPT ![o] = @ \ {e}]
  /\ UNCHANGED <<owners, invitation, spent, waiting, registration, people, days>>

(* handleResend: a new token, and the letter that carries it.                *)
Resend(o, i) ==
  /\ o \in owners /\ IsLive(i) /\ invitation[i].sends \in 1..(MaxSends - 1)
  /\ invitation' = [invitation EXCEPT ![i].token = @ + 1, ![i].sends = @ + 1]
  /\ UNCHANGED <<owners, spent, bulk, waiting, registration, people, days>>

(* handleRevoke: expired ones too.                                           *)
Revoke(o, i) ==
  /\ o \in owners /\ invitation[i].state \in {"live", "expired"}
  /\ invitation' = [invitation EXCEPT ![i].state = "revoked"]
  /\ UNCHANGED <<owners, spent, bulk, waiting, registration, people, days>>

-----------------------------------------------------------------------------
(* The waiting list.                                                         *)

(* submitInviteRequest: an overdue row of the address is closed first.       *)
Closed(e) == [r \in Requests |-> IF request[r].email = e /\ request[r].status = "overdue"
                                 THEN [request[r] EXCEPT !.status = "expired"] ELSE request[r]]

(* A member, an invited, a declined or a waiting address is not stored.      *)
Eligible(e) ==
  /\ member[e] # "active" /\ ~Invited(e)
  /\ \A r \in Requests : Closed(e)[r].email = e =>
       Closed(e)[r].status \notin {"declined", "pending", "overdue"}

Submit(e) ==
  /\ stored < GlobalLimit
  /\ IF Eligible(e)
     THEN \E r \in Fresh(Requests, LAMBDA j : request[j].status = "none") :
            /\ request' = [Closed(e) EXCEPT ![r] = [NoRequest EXCEPT !.email = e, !.status = "pending"]]
            /\ stored' = stored + 1
     ELSE request' = Closed(e) /\ UNCHANGED stored
  /\ UNCHANGED <<owners, invitation, spent, bulk, registration, people, days>>

(* decideInviteRequest *)
Approve(o, r) == \E i \in Fresh(Ids, LAMBDA j : invitation[j].state = "none") :
  LET e == request[r].email IN
  /\ o \in owners /\ request[r].status = "pending"
  /\ member[e] # "active" /\ ~Invited(e)
  /\ Inserted(i, e)
  /\ request' = [request EXCEPT ![r].status = "approved", ![r].invitation = i]
  /\ UNCHANGED <<owners, spent, bulk, stored, registration, people, days>>

Decline(o, r) ==
  /\ o \in owners /\ request[r].status = "pending"
  /\ request' = [request EXCEPT ![r].status = "declined"]
  /\ UNCHANGED <<owners, invitation, spent, bulk, stored, registration, people, days>>

(* expireOverdueInviteRequests, the sweep, and a decision that comes late.   *)
CloseOverdue(r) ==
  /\ request[r].status = "overdue"
  /\ request' = [request EXCEPT ![r].status = "expired"]
  /\ UNCHANGED <<owners, invitation, spent, bulk, stored, registration, people, days>>

-----------------------------------------------------------------------------
(* Registration with a password, verified by a letter.                       *)

(* The letter of send n carries token n.                                     *)
MayRegister(i) ==
  /\ activation[i].state # "used" /\ activation[i].token < MaxActivations
  /\ IsLive(i) /\ account[invitation[i].email] = None

(* requestEmailActivation, the upsert.                                       *)
Registered(i, p) ==
  [state |-> "open", password |-> p, token |-> activation[i].token + 1]

Register(c, p) ==
  /\ Claimed(c) /\ MayRegister(c[1])
  /\ activation' = [activation EXCEPT ![c[1]] = Registered(c[1], p)]
  /\ meant' = [meant EXCEPT ![c[1]] = Append(@, p)]
  /\ UNCHANGED <<owners, invitation, spent, bulk, waiting, letters, people, days>>

(* resendEmailActivation *)
ResendActivation(c) ==
  LET i == c[1] IN
  /\ activation[i].state # "none" /\ Claimed(c) /\ MayRegister(i)
  /\ activation' = [activation EXCEPT ![i].state = "open", ![i].token = @ + 1]
  /\ meant' = [meant EXCEPT ![i] = Append(@, @[Len(@)])]
  /\ UNCHANGED <<owners, invitation, spent, bulk, waiting, letters, people, days>>

(* createEmailActivationHandler: only the letter of the last send goes out.  *)
DeliverActivation(i) ==
  /\ activation[i].state = "open" /\ IsLive(i) /\ <<i, activation[i].token>> \notin letters
  /\ letters' = letters \cup {<<i, activation[i].token>>}
  /\ UNCHANGED <<owners, invitation, spent, bulk, waiting, activation, meant, people, days>>

(* The invitation is used, the account made and made a member, all in one.   *)
Admit(i, e, credential) ==
  /\ invitation' = [invitation EXCEPT ![i].state = "used", ![i].by = e]
  /\ account' = [account EXCEPT ![e] = credential] /\ member' = [member EXCEPT ![e] = "active"]

(* verifyEmailActivation: with the invitation's present token.               *)
Verify(i, n) ==
  LET e == invitation[i].email IN
  /\ <<i, n>> \in letters /\ activation[i].token = n /\ activation[i].state = "open"
  /\ IsLive(i) /\ account[e] = None
  /\ Admit(i, e, activation[i].password)
  /\ activation' = [activation EXCEPT ![i].state = "used"]
  /\ UNCHANGED <<owners, spent, bulk, waiting, letters, meant, days>>

-----------------------------------------------------------------------------
(* A Google sign-in, whose address is verified.                              *)

(* createGoogleAccountFromPreparedInvitation *)
CreateGoogle(c) ==
  LET e == invitation[c[1]].email IN
  /\ Claimed(c) /\ IsLive(c[1]) /\ account[e] = None /\ Admit(c[1], e, "google")
  /\ UNCHANGED <<owners, spent, bulk, waiting, registration, days>>

MayAccept(i, e) ==
  /\ IsLive(i) \/ (invitation[i].state = "used" /\ invitation[i].by = e)
  /\ member[e] # "inactive"

(* acceptPreparedInvitation: again and again by the same account.            *)
Accept(c) ==
  LET e == invitation[c[1]].email IN
  /\ Claimed(c) /\ account[e] # None /\ MayAccept(c[1], e)
  /\ Admit(c[1], e, account[e])
  /\ UNCHANGED <<owners, spent, bulk, waiting, registration, days>>

-----------------------------------------------------------------------------
(* Time, and the owners and members of the circle (module Circles).          *)

Lapse ==
  /\ \/ /\ \E i \in Ids : IsLive(i) /\ invitation' = [invitation EXCEPT ![i].state = "expired"]
        /\ UNCHANGED <<activation, request>>
     \/ /\ \E i \in Ids :
             activation[i].state = "open" /\ activation' = [activation EXCEPT ![i].state = "lapsed"]
        /\ UNCHANGED <<invitation, request>>
     \/ /\ \E r \in Requests :
             \/ request[r].status = "pending" /\ request' = [request EXCEPT ![r].status = "overdue"]
             \/ request[r].status \in {"approved", "declined", "expired"}
                /\ request' = [request EXCEPT ![r].status = "forgotten"]
        /\ UNCHANGED <<invitation, activation>>
  /\ UNCHANGED <<owners, spent, bulk, stored, letters, meant, people, days>>

(* The two daily windows end.                                                *)
NextDay ==
  /\ days < MaxDays /\ days' = days + 1 /\ spent' = 0 /\ stored' = 0
  /\ UNCHANGED <<owners, invitation, bulk, request, registration, people>>

(* purgeInviteRequests *)
Purge(r) ==
  /\ request[r].status = "forgotten" /\ request' = [request EXCEPT ![r] = [NoRequest EXCEPT !.status = "purged"]]
  /\ UNCHANGED <<owners, invitation, spent, bulk, stored, registration, people, days>>

StepDown(o) ==
  /\ Cardinality(owners) > 1 /\ o \in owners /\ owners' = owners \ {o}
  /\ UNCHANGED <<invitation, spent, bulk, waiting, registration, people, days>>

ChangeMember(e) ==
  /\ member[e] # "none"
  /\ member' = [member EXCEPT ![e] = IF @ = "active" THEN "inactive" ELSE "active"]
  /\ UNCHANGED <<owners, invitation, spent, bulk, waiting, registration, account, days>>

Init ==
  /\ owners = Owners /\ invitation = [i \in Ids |-> Unborn] /\ spent = 0
  /\ bulk = [o \in Owners |-> {}] /\ request = [r \in Requests |-> NoRequest] /\ stored = 0
  /\ activation = [i \in Ids |-> NoActivation] /\ letters = {} /\ meant = [i \in Ids |-> <<>>]
  /\ account = [e \in Emails |-> IF e \in Known THEN "google" ELSE None]
  /\ member = [e \in Emails |-> "none"] /\ days = 0

Next ==
  \/ \E o \in Owners :
       \/ \E e \in Emails : Create(o, e) \/ CreateNext(o, e)
       \/ (\E S \in SUBSET Emails : StartBulk(o, S)) \/ StopBulk(o) \/ StepDown(o)
       \/ \E i \in Ids : Resend(o, i) \/ Revoke(o, i)
       \/ \E r \in Requests : Approve(o, r) \/ Decline(o, r)
  \/ \E e \in Emails : Submit(e) \/ ChangeMember(e)
  \/ \E r \in Requests : CloseOverdue(r) \/ Purge(r)
  \/ \E c \in Claims :
       \/ (\E p \in Passwords : Register(c, p)) \/ ResendActivation(c)
       \/ CreateGoogle(c) \/ Accept(c)
  \/ \E i \in Ids : DeliverActivation(i) \/ \E n \in 1..MaxActivations : Verify(i, n)
  \/ Lapse \/ NextDay

Spec == Init /\ [][Next]_vars

-----------------------------------------------------------------------------
TypeOK ==
  /\ owners \subseteq Owners /\ spent \in 0..DailyLimit /\ stored \in 0..GlobalLimit
  /\ bulk \in [Owners -> SUBSET Emails] /\ days \in 0..MaxDays
  /\ invitation \in [Ids -> [email : Emails \cup {None}, token : 0..MaxSends, sends : 0..MaxSends,
       state : {"none", "live", "expired", "used", "revoked"}, by : Emails \cup {None}]]
  /\ request \in [Requests -> [email : Emails \cup {None}, invitation : Ids \cup {0},
       status : {"none", "pending", "overdue", "approved", "declined", "expired", "forgotten", "purged"}]]
  /\ activation \in [Ids -> [state : {"none", "open", "lapsed", "used"}, token : 0..MaxActivations,
       password : Passwords \cup {None}]]
  /\ letters \subseteq Ids \X (1..MaxActivations) /\ meant \in [Ids -> Seq(Passwords)]
  /\ account \in [Emails -> Passwords \cup {None, "google"}]
  /\ member \in [Emails -> {"none", "active", "inactive"}]

(* Account, membership and invitation come together or not at all; a used    *)
(* link is one of a used invitation; a request waits once and is approved    *)
(* with an invitation of its own.  api/_invite-requests.js:321.              *)
AdmissionsAreWhole ==
  /\ \A i \in Ids : invitation[i].state = "used" =>
       /\ invitation[i].by = invitation[i].email
       /\ account[invitation[i].by] # None /\ member[invitation[i].by] # "none"
  /\ \A e \in Emails :
       /\ member[e] # "none" => account[e] # None /\ \E i \in Ids : invitation[i].by = e
       /\ e \notin Known /\ account[e] # None => member[e] # "none"
  /\ \A i \in Ids : activation[i].state = "used" => invitation[i].state = "used"
  /\ \A r, q \in Requests :
       /\ r # q /\ request[r].email = request[q].email /\ request[r].status \in {"pending", "overdue"}
            => request[q].status \notin {"pending", "overdue"}
       /\ request[r].status = "approved" =>
            /\ request[r].invitation \in Ids
            /\ invitation[request[r].invitation].email = request[r].email
            /\ request[q].invitation = request[r].invitation => q = r

(* An account is made by an invitation that is still good, and with the      *)
(* password of the registration whose link was opened, the last one sent;    *)
(* what was used or revoked stays so and an old token stays dead; who was    *)
(* removed comes back by an owner and by no invitation.                      *)
(* docs/INVITE_GATED_SIGNUP.md, api/_circle-membership.js:365.               *)
LinksAreHonoured ==
  /\ \A e \in Emails : account'[e] # account[e] =>
       /\ account[e] = None
       /\ \E i \in Ids :
            /\ IsLive(i) /\ invitation[i].email = e /\ invitation'[i].by = e
            /\ account'[e] \in Passwords =>
                 <<i, Len(meant[i])>> \in letters /\ account'[e] = meant[i][Len(meant[i])]
  /\ \A i \in Ids :
       /\ invitation'[i].token >= invitation[i].token
       /\ invitation[i].state \in {"used", "revoked"} =>
            invitation'[i].state = invitation[i].state /\ invitation'[i].by = invitation[i].by
  /\ \A e \in Emails : member[e] = "inactive" /\ member'[e] = "active" => invitation' = invitation
=============================================================================
