---------------------------- MODULE MailPromise ----------------------------
(***************************************************************************)
(* What the outbox promises its producers, without leases, attempts or     *)
(* clocks: a message that was recorded is owed until it is settled, it is  *)
(* settled as delivered only if the provider has it, and a settlement is   *)
(* taken back only by reopening a dead letter.                             *)
(***************************************************************************)
CONSTANT Messages

VARIABLES
  standing,  \* how far each message has come
  mail       \* the messages the provider accepted

promiseVars == <<standing, mail>>

Settlements == {"delivered", "suppressed", "dead_letter"}

Init == standing = [m \in Messages |-> "unknown"] /\ mail = {}

(* A dead letter of the legacy outbox is recorded as one.                  *)
Record(m) ==
  /\ standing[m] = "unknown"
  /\ \E s \in {"owed", "dead_letter"} : standing' = [standing EXCEPT ![m] = s]
  /\ UNCHANGED mail

Carry(m) ==
  /\ standing[m] # "unknown"
  /\ mail' = mail \cup {m} /\ UNCHANGED standing

Settle(m) ==
  /\ standing[m] = "owed"
  /\ \E s \in Settlements :
       /\ s = "delivered" => m \in mail
       /\ standing' = [standing EXCEPT ![m] = s]
  /\ UNCHANGED mail

Reopen(m) ==
  /\ standing[m] = "dead_letter"
  /\ standing' = [standing EXCEPT ![m] = "owed"] /\ UNCHANGED mail

Withdraw(S) ==
  /\ \A m \in S : standing[m] \in {"owed", "dead_letter"}
  /\ standing' = [m \in Messages |-> IF m \in S THEN "suppressed" ELSE standing[m]]
  /\ UNCHANGED mail

Next ==
  \/ \E m \in Messages : Record(m) \/ Carry(m) \/ Settle(m) \/ Reopen(m)
  \/ \E S \in SUBSET Messages : Withdraw(S)

Safety == Init /\ [][Next]_promiseVars

Spec == Safety /\ \A m \in Messages : WF_promiseVars(Settle(m))
=============================================================================
