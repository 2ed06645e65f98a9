---------------------------- MODULE SecondaryRoom ----------------------------
(* The rooms of a secondary circle.  A request resolves the circle that its  *)
(* session has selected and then works in one transaction, every statement   *)
(* of which demands that the session still has it selected and the member is *)
(* still active; a commit whose outcome is unknown is never repeated.        *)
(* Receipts, controls and the link of the agreed time follow the rules of    *)
(* SessionRoom; documents, snapshots, messages and signals have rules of     *)
(* their own.  Texts are sets of edits, as in CodeDocument.                  *)
EXTENDS Integers, Sequences, FiniteSets

CONSTANTS
  Users, First, Controls, Losing, Duration, Urls, Instants, MaxNow, MaxRevision, \* as in SessionRoom
  Kinds,         \* the kinds of requests of this instance
  Leaving,       \* members who may leave, or select another circle meanwhile
  PerMinute, PerRoom, Minute, Hour, SignalsKept,
  MaxEdits, MaxContext  \* bounds of the model

VARIABLES
  now, receipt, controls, agreed, scheduled, link, view, overtaken, ran,
  member,     \* who has an active membership
  context,    \* auth_session_circle_contexts of each: [here, version]
  held,       \* the context version of the request of each, or NoRequest
  document,   \* circle_pair_code_documents: [revision, edits], revision 0 for none
  aged,       \* its last update is ninety days old
  snapshot,   \* circle_pair_room_snapshots: [revision, code]
  seen,       \* the revision of the snapshot that each page shows
  edits,      \* number of edits made
  messages,   \* circle_pair_messages: [by, at]
  registered, \* circle_chat_retention_scopes has the room
  signals     \* circle_video_signals: when each was sent

Room == INSTANCE SessionRoom

roomVars == <<now, receipt, controls, agreed, scheduled, link, view, overtaken, ran>>
codeVars == <<document, aged, snapshot, seen, edits>>
chatVars == <<messages, registered, signals>>
vars == <<roomVars, member, context, held, codeVars, chatVars>>

(* Assumed of every instance. *)
SecondaryRoomConstants ==
  /\ Room!RoomConstants
  /\ Kinds \subseteq {"completion", "controls", "link", "code", "chat"} /\ Leaving \subseteq Users
  /\ {PerMinute, PerRoom, Minute, Hour, SignalsKept} \subseteq Nat \ {0}
  /\ MaxEdits \in Nat /\ MaxContext \in Nat \ {0}

NoRequest == -1
NoDoc  == [revision |-> 0, edits |-> {}]
NoCode == [revision |-> 0, code |-> {}]
Paired == Cardinality(Users) = 2
Exists == document.revision > 0
Made   == 1..edits

(* -------------------------------- Access --------------------------------- *)

(* workspaceSessionPredicate: the session has this circle selected, in the   *)
(* version that the request resolved.                                        *)
SessionHolds(u) == context[u].here /\ held[u] = context[u].version

(* secondaryPairAccessSql.                                                   *)
Access(u) == held[u] # NoRequest /\ member[u] /\ SessionHolds(u)

(* prepareWorkspaceRequest.                                                  *)
Prepare(u) ==
  /\ held[u] = NoRequest /\ member[u] /\ context[u].here
  /\ held' = [held EXCEPT ![u] = context[u].version]
  /\ UNCHANGED <<roomVars, member, context, codeVars, chatVars>>

(* scopedWorkspaceClient: the transaction is rolled back.                    *)
Refuse(u) ==
  /\ held[u] # NoRequest /\ ~Access(u)
  /\ held' = [held EXCEPT ![u] = NoRequest]
  /\ UNCHANGED <<roomVars, member, context, codeVars, chatVars>>

(* The end of a request that was let in.                                     *)
Serve(u, kind) ==
  /\ kind \in Kinds /\ Access(u)
  /\ held' = [held EXCEPT ![u] = NoRequest]
  /\ UNCHANGED <<member, context>>

(* Another page of u selects another circle, or this one again.              *)
Switch(u) ==
  /\ u \in Leaving /\ context[u].version < MaxContext
  /\ context' = [context EXCEPT ![u] = [here |-> ~context[u].here, version |-> context[u].version + 1]]
  /\ UNCHANGED <<roomVars, member, held, codeVars, chatVars>>

LeaveCircle(u) ==
  /\ u \in Leaving /\ member[u]
  /\ member' = [member EXCEPT ![u] = FALSE]
  /\ UNCHANGED <<roomVars, context, held, codeVars, chatVars>>

(* ------------------------ Receipts, controls, link ----------------------- *)

(* mutateSecondaryCompletion.                                                *)
MutateCompletion(u) ==
  /\ Serve(u, "completion") /\ (Room!Confirm(u) \/ Room!Withdraw(u)) /\ UNCHANGED <<codeVars, chatVars>>

MutateControls(u) ==
  /\ Serve(u, "controls") /\ Room!Control(u) /\ UNCHANGED <<codeVars, chatVars>>

MutateMeetingLink(u) ==
  /\ Serve(u, "link") /\ Room!SetLink(u) /\ UNCHANGED <<codeVars, chatVars>>

(* readSecondaryCompletion, readSecondaryControls, readSecondaryMeetingLink. *)
ReadPart(u, part) ==
  /\ Serve(u, part) /\ Room!Look(u, part) /\ UNCHANGED <<codeVars, chatVars>>

Reschedule ==
  /\ "link" \in Kinds /\ Room!Reschedule
  /\ UNCHANGED <<member, context, held, codeVars, chatVars>>

(* ------------------------------- Documents ------------------------------- *)

Expired == Exists /\ aged

(* readSecondaryDocument with create, up to the creation: what is expired is *)
(* deleted and its text blanked in the snapshot.                             *)
Scrubbed == IF Expired /\ snapshot.revision > 0
            THEN [revision |-> snapshot.revision + 1, code |-> {}] ELSE snapshot
Present == IF Exists /\ ~aged THEN document ELSE [revision |-> 1, edits |-> Scrubbed.code]

(* The same for GET; after completion nothing is created, and what has been  *)
(* deleted on the way is rolled back.                                        *)
ReadDocument(u) ==
  /\ Paired /\ Serve(u, "code")
  /\ IF Room!Completed THEN UNCHANGED codeVars
     ELSE /\ document' = Present /\ snapshot' = Scrubbed /\ aged' = FALSE
          /\ UNCHANGED <<seen, edits>>
  /\ UNCHANGED <<roomVars, chatVars>>

(* Mutant of Projected: the snapshot keeps its code.                         *)
ProjectedNot(s, code) == s

(* mutateSecondaryDocument, the canonical code projected.                    *)
Projected(s, code) == IF s.revision = 0 THEN s ELSE [revision |-> s.revision + 1, code |-> code]

(* Documents and snapshots are written until the session is completed.       *)
Open == ~Room!Completed

(* mutateSecondaryDocument: an update with an edit, new or sent before.      *)
MutateDocument(u) == \E e \in 1..(edits + 1) :
  LET merged == Present.edits \cup {e}
  IN /\ Paired /\ Open /\ e <= MaxEdits /\ Serve(u, "code")
     /\ edits' = IF e > edits THEN e ELSE edits
     /\ IF merged = Present.edits
        THEN document' = Present /\ snapshot' = Scrubbed
        ELSE /\ document' = [revision |-> Present.revision + 1, edits |-> merged]
             /\ snapshot' = Projected(Scrubbed, merged)
     /\ aged' = FALSE
     /\ UNCHANGED <<roomVars, chatVars, seen>>

Age ==
  /\ "code" \in Kinds /\ Exists /\ ~aged /\ snapshot.revision < MaxRevision /\ aged' = TRUE
  /\ UNCHANGED <<roomVars, member, context, held, document, snapshot, seen, edits, chatVars>>

(* ------------------------------- Snapshots ------------------------------- *)

(* readSecondarySnapshot, the code of the document in place of its own.      *)
ReadSnapshot(u) ==
  /\ Serve(u, "code") /\ seen[u] # snapshot.revision
  /\ seen' = [seen EXCEPT ![u] = snapshot.revision]
  /\ UNCHANGED <<roomVars, chatVars, document, aged, snapshot, edits>>

(* The code that is stored: of the document where there is one, or else what *)
(* the page sent, which extends what it shows.                               *)
SentCodes == {snapshot.code} \cup {snapshot.code \cup {e} : e \in (edits + 1)..MaxEdits \cap {edits + 1}}
StoredCodes == IF Paired /\ Exists /\ ~aged THEN {document.edits} ELSE SentCodes

(* mutateSecondarySnapshot: only over the revision that the page shows.      *)
WriteSnapshot(u) == \E code \in StoredCodes :
  /\ Open /\ Serve(u, "code") /\ seen[u] = snapshot.revision /\ snapshot.revision < MaxRevision
  /\ snapshot' = [revision |-> snapshot.revision + 1, code |-> code]
  /\ seen' = [seen EXCEPT ![u] = snapshot.revision + 1]
  /\ edits' = IF edits + 1 \in code THEN edits + 1 ELSE edits
  /\ UNCHANGED <<roomVars, chatVars, document, aged>>

(* -------------------------- Messages and signals ------------------------- *)

RecentBy(u) == {i \in 1..Len(messages) : messages[i].by = u /\ messages[i].at >= now - Minute}

(* sendSecondaryMessage: twenty a minute of one sender, and so many a room.  *)
WithinLimits(u) == Cardinality(RecentBy(u)) < PerMinute /\ Len(messages) < PerRoom

(* The same, with the registration of the room for chat retention.           *)
SendMessage(u) ==
  /\ WithinLimits(u) /\ Serve(u, "chat")
  /\ messages' = Append(messages, [by |-> u, at |-> now])
  /\ registered' = TRUE
  /\ UNCHANGED <<roomVars, codeVars, signals>>

(* The signals that go: the old ones, and all but the last.                  *)
Swept(s) == {i \in 1..Len(s) : s[i] < now - Hour \/ i <= Len(s) - SignalsKept}

(* As they are in the order of their times, those that go come first.        *)
Trim(s) == SubSeq(s, Cardinality(Swept(s)) + 1, Len(s))

(* mutateSecondarySignals: each signal sweeps out old ones, or all go.       *)
SendSignal(u) ==
  /\ Serve(u, "chat")
  /\ signals' = Trim(Append(signals, now))
  /\ UNCHANGED <<roomVars, codeVars, messages, registered>>

PurgeSignals(u) ==
  /\ Serve(u, "chat") /\ signals # <<>> /\ signals' = <<>>
  /\ UNCHANGED <<roomVars, codeVars, messages, registered>>

Tick ==
  /\ Room!Tick /\ UNCHANGED <<member, context, held, codeVars, chatVars>>

(* ------------------------------------------------------------------------- *)

Init ==
  /\ Room!Init
  /\ member = [u \in Users |-> TRUE] /\ context = [u \in Users |-> [here |-> TRUE, version |-> 1]]
  /\ held = [u \in Users |-> NoRequest]
  /\ document = NoDoc /\ aged = FALSE /\ snapshot = NoCode /\ seen = [u \in Users |-> 0] /\ edits = 0
  /\ messages = <<>> /\ registered = FALSE /\ signals = <<>>

Next ==
  \/ \E u \in Users :
       \/ Prepare(u) \/ Refuse(u) \/ Switch(u) \/ LeaveCircle(u)
       \/ MutateCompletion(u) \/ MutateControls(u) \/ MutateMeetingLink(u)
       \/ ReadDocument(u) \/ MutateDocument(u) \/ ReadSnapshot(u) \/ WriteSnapshot(u)
       \/ SendMessage(u) \/ SendSignal(u) \/ PurgeSignals(u)
  \/ \E u \in Users, part \in {"completion", "controls", "link"} : ReadPart(u, part)
  \/ Reschedule \/ Age \/ Tick

Spec == Init /\ [][Next]_vars

(* ------------------------------ Properties ------------------------------- *)

TypeOK ==
  /\ Room!TypeOK
  /\ member \in [Users -> BOOLEAN] /\ context \in [Users -> [here : BOOLEAN, version : 1..MaxContext]]
  /\ held \in [Users -> {NoRequest} \cup 1..MaxContext]
  /\ document \in [revision : Nat, edits : SUBSET Made] /\ snapshot \in [revision : Nat, code : SUBSET Made]
  /\ {aged, registered} \subseteq BOOLEAN /\ seen \in [Users -> Nat] /\ edits \in 0..MaxEdits
  /\ messages \in Seq([by : Users, at : 0..MaxNow]) /\ Len(messages) <= PerRoom
  /\ signals \in Seq(0..MaxNow) /\ Len(signals) <= SignalsKept
  /\ messages # <<>> => registered

(* The snapshot of a pair with a document shows what the document says, or   *)
(* nothing once retention blanked it.  api/_secondary-workspace.js:248.      *)
SnapshotFollows ==
  Exists /\ ~aged /\ snapshot.revision > 0 => snapshot.code = document.edits

(* In no window of a minute has anybody sent more than the limit.            *)
RateHolds == \A u \in Users, t \in 0..now :
  Cardinality({i \in 1..Len(messages) : messages[i].by = u /\ messages[i].at \in t..(t + Minute)}) <= PerMinute

(* Once all have confirmed, neither the room nor the code in it changes.     *)
CompletionIsFinal ==
  Room!Completed => /\ UNCHANGED <<receipt, controls, document, snapshot>>
                    /\ Room!CompletionIsFinal

(* Whoever is not in the circle, or has gone on to another one, writes       *)
(* nothing, and neither does a request from before a return to it.           *)
NothingFromOutside ==
  (\A u \in Users : ~member[u] \/ ~SessionHolds(u)) =>
    UNCHANGED <<receipt, controls, document, snapshot, messages, signals, registered>>
=============================================================================
