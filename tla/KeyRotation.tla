----------------------------- MODULE KeyRotation -----------------------------
(* Rotation of the key that seals the credentials of one kind of letter: key *)
(* rings that instances of the application are deployed with one by one      *)
(* (api/_key-rotation.js), the row that says which key is accepted          *)
(* (api/_credential-key-control.js), the operator who moves it, asks for its *)
(* status and takes a key away (scripts/credential-key-control.mjs), and the *)
(* letters, of which an invitation is sealed anew when it is sent again.    *)
EXTENDS Naturals, FiniteSets

CONSTANTS
  Rings,       \* configurations: [active, write, keys: version -> material]
  Instances,   \* of the application
  Operators,   \* invocations of the protected workflow
  Letters,
  None,
  MaxOperations, \* bound: transitions and reports each operator asks for
  MaxDeploys   \* bound: deployments

Key(v, m) == [version |-> v, material |-> m]
ActiveKey(r) == Key(r.active, r.keys[r.active])
KeysOf(r) == {Key(v, r.keys[v]) : v \in DOMAIN r.keys}

(* parseKeyRing accepts a configuration.                                     *)
Parsed(ring) ==
  LET versions == DOMAIN ring.keys IN
  /\ versions \subseteq Nat /\ ring.active \in versions /\ \A v \in versions : v <= ring.active
  /\ \A v, w \in versions : ring.keys[v] = ring.keys[w] => v = w
  /\ Cardinality(versions) <= 4 /\ ring.write \in {1, 2}

(* Assumed of every instance. *)
KeyConstants ==
  /\ None \notin Instances /\ None \notin Rings
  /\ \A r \in Rings : Parsed(r) /\ None \notin KeysOf(r)

VARIABLES
  control,   \* the row of this purpose in credential_key_controls
  ring,      \* what each instance runs with
  approval,  \* ring with which an instance has begun to approve a request
  letter,    \* outbox events with their envelopes
  work,      \* what each operator is doing
  accepted,  \* keys the control has had
  retired,   \* keys an operator took away on the strength of a report
  deploys

keyVars == <<control, ring, approval, letter, work, accepted, retired, deploys>>

NoLetter == [status |-> "none", form |-> 0, key |-> None, approved |-> FALSE]
NoWork == [step |-> "idle", operation |-> None, ring |-> None, version |-> 0, generation |-> 0, asked |-> 0]

(* Envelopes: form 1 names no key, form 2 names one by version and           *)
(* fingerprint.                                                             *)
Sealed(r, approved) ==
  [status |-> "actionable", form |-> r.write, key |-> ActiveKey(r), approved |-> approved]

(* The row is new; letters of form 1 are older.                              *)
Init ==
  /\ control = [key |-> None, generation |-> 0]
  /\ ring \in [Instances -> {r \in Rings : r.active = 1}]
  /\ approval = [i \in Instances |-> None]
  /\ letter \in [Letters -> {NoLetter} \cup {Sealed(r, FALSE) : r \in {r \in Rings : r.active = 1 /\ r.write = 1}}]
  /\ work = [o \in Operators |-> NoWork]
  /\ accepted = {} /\ retired = {} /\ deploys = 0

-----------------------------------------------------------------------------
Opens(r, l) ==
  IF l.form = 1 THEN \E k \in KeysOf(r) : k.material = l.key.material ELSE l.key \in KeysOf(r)

(* assertCredentialKeyControl                                                *)
Accepts(r) == control.key = ActiveKey(r)

(* credentialRotationMetricsFromEnvelopes; the rows are the actionable ones  *)
(* and the delivered invitations that can still be sent again.              *)
Held == {l \in Letters : letter[l].status \in {"actionable", "retained"}}
Legacy == {l \in Held : letter[l].form = 1}
Named(v) == {l \in Held \ Legacy : letter[l].key.version = v}
Contradiction(r) == \E l \in Held \ Legacy : letter[l].key \notin KeysOf(r)
MaterialReady(r) == Legacy = {} /\ ~Contradiction(r)

-----------------------------------------------------------------------------
Deploy(i) ==
  /\ deploys < MaxDeploys /\ deploys' = deploys + 1
  /\ \E r \in Rings : ring' = [ring EXCEPT ![i] = r]
  /\ UNCHANGED <<control, approval, letter, work, accepted, retired>>

(* requestPasswordReset, the registration and its resend, the creation of    *)
(* invitations: the control is looked at in the transaction.                *)
Issue(i, l) ==
  /\ letter[l].status = "none" /\ Accepts(ring[i])
  /\ letter' = [letter EXCEPT ![l] = Sealed(ring[i], FALSE)]
  /\ UNCHANGED <<control, ring, approval, work, accepted, retired, deploys>>

(* handleResend: the last envelope is opened for the address it holds.       *)
Resend(i, l) ==
  /\ letter[l].status \in {"retained", "actionable"} /\ Accepts(ring[i]) /\ Opens(ring[i], letter[l])
  /\ letter' = [letter EXCEPT ![l] = Sealed(ring[i], letter[l].approved)]
  /\ UNCHANGED <<control, ring, approval, work, accepted, retired, deploys>>

(* handleDecision: approvalEmailConfiguration looks at the control, and      *)
(* decideInviteRequest seals in a later transaction that does not.          *)
BeginApproval(i) ==
  /\ approval[i] = None /\ Accepts(ring[i])
  /\ approval' = [approval EXCEPT ![i] = ring[i]]
  /\ UNCHANGED <<control, ring, letter, work, accepted, retired, deploys>>

Approve(i, l) ==
  /\ approval[i] # None /\ approval' = [approval EXCEPT ![i] = None]
  /\ letter[l].status = "none" /\ letter' = [letter EXCEPT ![l] = Sealed(approval[i], TRUE)]
  /\ UNCHANGED <<control, ring, work, accepted, retired, deploys>>

(* The handlers of the outbox. What cannot be opened is retried, and then a  *)
(* dead letter that can be replayed: it stays actionable.                   *)
Deliver(i, l) ==
  /\ letter[l].status = "actionable" /\ Accepts(ring[i]) /\ Opens(ring[i], letter[l])
  /\ \E status \in {"retained", "gone"} : letter' = [letter EXCEPT ![l].status = status]
  /\ UNCHANGED <<control, ring, approval, work, accepted, retired, deploys>>

(* The credential is used, revoked, expires or is redacted.                  *)
End(l) ==
  /\ l \in Held /\ letter' = [letter EXCEPT ![l].status = "gone"]
  /\ UNCHANGED <<control, ring, approval, work, accepted, retired, deploys>>

-----------------------------------------------------------------------------
(* An operator: a transition is asked for with what a status has shown.      *)
At(o, step) == work[o].step = step
Works(o, new) == work' = [work EXCEPT ![o] = new]

Ask(o) ==
  /\ At(o, "idle") /\ work[o].asked < MaxOperations
  /\ \E r \in Rings, operation \in {"adopt", "advance", "status"} :
       Works(o, [step |-> "asked", operation |-> operation, ring |-> r,
                 version |-> IF control.key = None THEN 0 ELSE control.key.version,
                 generation |-> control.generation, asked |-> work[o].asked + 1])
  /\ UNCHANGED <<control, ring, approval, letter, accepted, retired, deploys>>

(* The checks of transitionAttempt, in a write transaction.                  *)
Continues(o) ==
  LET r == work[o].ring IN
  IF work[o].operation = "adopt" THEN control.key = None /\ ~Contradiction(r)
  ELSE /\ control.key # None
       /\ control.key.version = work[o].version /\ control.generation = work[o].generation
       /\ r.active > control.key.version /\ control.key \in KeysOf(r)
       /\ MaterialReady(r)

Done(o, step) == Works(o, [work[o] EXCEPT !.step = step])

Transition(o) ==
  /\ At(o, "asked") /\ work[o].operation # "status"
  /\ \/ /\ Accepts(work[o].ring) /\ Done(o, "ok") /\ UNCHANGED <<control, accepted>>
     \/ /\ ~Accepts(work[o].ring) /\ ~Continues(o) /\ Done(o, "failed") /\ UNCHANGED <<control, accepted>>
     \/ /\ ~Accepts(work[o].ring) /\ Continues(o)
        /\ control' = [key |-> ActiveKey(work[o].ring), generation |-> control.generation + 1]
        /\ accepted' = accepted \cup {ActiveKey(work[o].ring)}
        /\ \E step \in {"ok", "unanswered"} : Done(o, step)
  /\ UNCHANGED <<ring, approval, letter, retired, deploys>>

(* A commit whose answer is lost and that was not made.                      *)
NotCommitted(o) ==
  /\ At(o, "asked") /\ work[o].operation # "status" /\ ~Accepts(work[o].ring) /\ Continues(o)
  /\ Done(o, "unanswered")
  /\ UNCHANGED <<control, ring, approval, letter, accepted, retired, deploys>>

Reconciled(o) == Accepts(work[o].ring)

ReadBack(o) ==
  /\ At(o, "unanswered") /\ Done(o, IF Reconciled(o) THEN "ok" ELSE "failed")
  /\ UNCHANGED <<control, ring, approval, letter, accepted, retired, deploys>>

(* runCredentialKeyControl status: the control first, and then the material. *)
ReadControl(o) ==
  /\ At(o, "asked") /\ work[o].operation = "status"
  /\ Done(o, IF Accepts(work[o].ring) THEN "accepted" ELSE "failed")
  /\ UNCHANGED <<control, ring, approval, letter, accepted, retired, deploys>>

(* The report is ready and names no letter of a prior key: that key is       *)
(* taken from the configuration (docs/KEY_ROTATION.md, step 8).             *)
Unused(r) == {k \in KeysOf(r) : k.version < r.active /\ MaterialReady(r) /\ Named(k.version) = {}}

Retire(o) ==
  /\ At(o, "accepted") /\ Done(o, "reported")
  /\ retired' = retired \cup Unused(work[o].ring)
  /\ UNCHANGED <<control, ring, approval, letter, accepted, deploys>>

Rest(o) ==
  /\ work[o].step \in {"ok", "failed", "reported"}
  /\ Works(o, [NoWork EXCEPT !.asked = work[o].asked])
  /\ UNCHANGED <<control, ring, approval, letter, accepted, retired, deploys>>

Next ==
  \/ \E i \in Instances : Deploy(i) \/ BeginApproval(i)
  \/ \E i \in Instances, l \in Letters : Issue(i, l) \/ Resend(i, l) \/ Approve(i, l) \/ Deliver(i, l)
  \/ \E l \in Letters : End(l)
  \/ \E o \in Operators :
       Ask(o) \/ Transition(o) \/ NotCommitted(o) \/ ReadBack(o) \/ ReadControl(o) \/ Retire(o) \/ Rest(o)

Spec == Init /\ [][Next]_keyVars

-----------------------------------------------------------------------------
TypeOK ==
  /\ control.generation = Cardinality(accepted)
  /\ control.key = None <=> accepted = {}
  /\ \A l \in Letters : letter[l].status \in {"none", "actionable", "retained", "gone"}
  /\ retired \subseteq UNION {KeysOf(r) : r \in Rings}

(* A key that was taken away is needed by no letter that has to be sent, or  *)
(* may be sent again, whichever instances still run with older rings.       *)
KeysInUseAreKept ==
  \A l \in Held, k \in retired : letter[l].key # k

(* The same of the letters whose producers look at the control in their      *)
(* transaction.                                                             *)
IssuedStayOpenable == \A l \in Held, k \in retired : letter[l].key = k => letter[l].approved

(* Letters that name their key were sealed with an accepted one, of which    *)
(* there is one of a version, whatever was deployed or asked for.           *)
OneKeyOfAVersion ==
  /\ \A l \in Letters : letter[l].form = 2 => letter[l].key \in accepted
  /\ \A j, k \in accepted : j.version = k.version => j = k
  /\ \A k \in accepted : k.version <= control.key.version

(* An operator who is told that a key is accepted has it accepted.           *)
AnswersAreTrue == \A o \in Operators : At(o, "ok") => ActiveKey(work[o].ring) \in accepted
=============================================================================
