---------------------------- MODULE CodeDocument ----------------------------
(* The code two members edit at once: a document the server merges their     *)
(* updates into, the copies and queues of the pages, the workspace snapshot  *)
(* that repeats its text, and the retention that deletes it.  An edit is a   *)
(* number; it depends on the text it was typed into and is shown where all   *)
(* of that is present, so a document is a set of edits and a merge a union.  *)
(* One question and language of one pair; every snapshot is of schema 3.     *)
EXTENDS Integers, Sequences

CONSTANTS
  Tabs, OwnerOf,       \* pages, and whose they are
  Restless,            \* pages that are hidden, reloaded, reset or signed out
  MaxEdits, MaxPurges, \* bounds of the model: edits made, deletions,
  MaxWrites            \* and the revision up to which the workspace is posted

(* Assumed of every instance. *)
DocumentConstants ==
  /\ Restless \subseteq Tabs /\ {MaxEdits, MaxPurges, MaxWrites} \subseteq Nat

VARIABLES
  document,   \* pair_code_documents: [revision, edits], revision 0 for no row
  aged,       \* its last update is past the retention
  purges,
  snapshot,   \* pair_room_snapshots: [revision, code], revision 0 for no row
  completed,  \* every member has confirmed the session (SessionRoom)
  deps,       \* of each edit made: the edits shown when it was typed
  page,       \* of each tab: closed, hydrating, open or done
  copy,       \* the edits of its document
  known,      \* revision and version it got last
  queue,      \* memoryQueues: what it has not sent
  saved,      \* of each user: the queue in localStorage
  call,       \* the request of the tab in progress
  late,       \* updates of requests given up that the server may still get
  writing,    \* of each tab: its workspace write, posted or read, not yet written
  gone,       \* edits that completion, sign-out, a reset or retention dropped
  frail,      \* edits not in a document yet that the code does not keep
  outlived    \* tabs whose document was deleted under them

vars == <<document, aged, purges, snapshot, completed, deps, page, copy, known,
          queue, saved, call, late, writing, gone, frail, outlived>>

serverVars == <<document, aged, purges, snapshot, gone, frail, outlived>>
pageVars   == <<page, copy, known, queue, saved>>

Users   == {OwnerOf[t] : t \in Tabs}
Made    == DOMAIN deps
NoDoc   == [revision |-> 0, edits |-> {}]
NoCode  == [revision |-> 0, code |-> {}]
NoCall  == [kind |-> "none"]
NotWriting == [base |-> -1]
Unread     == -1

(* The only page of its account.  Pages of one account share what the        *)
(* storage holds, and write over it without a look.                          *)
Sole(t) == \A s \in Tabs : OwnerOf[s] = OwnerOf[t] => s = t

(* The text of a set of edits: those whose context is there.                 *)
Shown(edits) == {e \in edits : deps[e] \subseteq edits}

Exists == document.revision > 0

(* ------------------------------ The server ------------------------------- *)

(* createDocument: seeded with the code of the snapshot, or blank.           *)
Seeded == [revision |-> 1, edits |-> snapshot.code]

(* purgeExpiredCodeDocumentIdentity, which transactions begin with: the text *)
(* is blanked in the snapshot as well.                                       *)
Expired == Exists /\ aged
Kept     == IF Expired THEN NoDoc ELSE document
Scrubbed == IF Expired /\ snapshot.revision > 0
            THEN [revision |-> snapshot.revision + 1, code |-> {}] ELSE snapshot

(* What the purge of an expired document leaves behind.                      *)
Forget ==
  /\ purges' = IF Expired THEN purges + 1 ELSE purges
  /\ aged' = FALSE
  /\ gone' = IF Expired THEN gone \cup document.edits ELSE gone
  /\ outlived' = IF Expired THEN {t \in Tabs : page[t] \in {"open", "hydrating"}} ELSE outlived

(* The row after the purge and, where there is none, the creation.           *)
Present == IF Kept.revision = 0 THEN [revision |-> 1, edits |-> Scrubbed.code] ELSE Kept

(* Mutant of Projected: the snapshot keeps its code.                         *)
ProjectedNot(s, code) == s

(* projectWorkspaceCode: the snapshot repeats the merged text.               *)
Projected(s, code) ==
  IF s.revision = 0 THEN s ELSE [revision |-> s.revision + 1, code |-> code]

Merge(edits, update) == edits \cup update

(* mergeAuthorizedCodeDocument, when the session is not completed.           *)
Merged(update) ==
  LET edits == Merge(Present.edits, update)
  IN /\ IF edits = Present.edits
        THEN document' = Present /\ snapshot' = Scrubbed
        ELSE /\ document' = [revision |-> Present.revision + 1, edits |-> edits]
             /\ snapshot' = Projected(Scrubbed, Shown(edits))
     /\ frail' = frail \ edits
     /\ Forget

(* The same after completion: rolled back, the purge included.               *)
Terminal == UNCHANGED serverVars

(* getAuthorizedCodeDocument, which does not ask whether it is completed.    *)
Got ==
  /\ document' = Present /\ snapshot' = Scrubbed
  /\ frail' = frail \ Present.edits
  /\ Forget

(* purgeExpiredCodeDocuments, by the daily job.                              *)
Purge ==
  /\ Expired
  /\ document' = NoDoc /\ snapshot' = Scrubbed
  /\ Forget
  /\ UNCHANGED <<completed, deps, pageVars, call, late, writing, frail>>

(* Ninety days pass without an update.                                       *)
Age ==
  /\ Exists /\ ~aged /\ purges < MaxPurges
  /\ aged' = TRUE
  /\ UNCHANGED <<document, purges, snapshot, completed, deps, pageVars, call, late, writing, gone, frail, outlived>>

Complete ==
  /\ ~completed /\ completed' = TRUE
  /\ UNCHANGED <<serverVars, deps, pageVars, call, late, writing>>

(* codeDocumentResponse: with the state, or without when the revision is the *)
(* one the page asked about.                                                 *)
Answer(after) ==
  [kind |-> "answer", changed |-> document'.revision # after,
   revision |-> document'.revision, edits |-> document'.edits]

(* The handler of the request of t; the answer may be lost.                  *)
Handle(t) ==
  /\ \/ /\ call[t].kind = "get"
        /\ IF call[t].after > 0 /\ Exists /\ ~aged THEN UNCHANGED serverVars ELSE Got
        /\ \/ call' = [call EXCEPT ![t] = Answer(call[t].after)]
           \/ t \in Restless /\ call' = [call EXCEPT ![t] = NoCall]
     \/ /\ call[t].kind = "post"
        /\ IF completed THEN Terminal ELSE Merged(call[t].update)
        /\ \/ call' = [call EXCEPT ![t] = [kind |-> "posted", update |-> call[t].update,
                         answer |-> IF completed THEN [kind |-> "completed"] ELSE Answer(0)]]
           \/ t \in Restless /\ call' = [call EXCEPT ![t] = NoCall]
  /\ UNCHANGED <<completed, deps, pageVars, late, writing>>

(* A request its page has given up reaches the server after all.             *)
HandleLate == \E update \in late :
  /\ late' = late \ {update}
  /\ IF completed THEN Terminal ELSE Merged(update)
  /\ UNCHANGED <<completed, deps, pageVars, call, writing>>

(* ------------------------------- The page -------------------------------- *)

(* readQueue: what is in memory, or else what the storage holds.             *)
ReadQueue(t) == IF queue[t] # {} THEN queue[t] ELSE saved[OwnerOf[t]]

(* writeQueue.                                                               *)
WriteQueue(t, q) ==
  /\ queue' = [queue EXCEPT ![t] = q]
  /\ saved' = [saved EXCEPT ![OwnerOf[t]] = q]

(* isAcknowledged, up to the status, which says no more: nothing waits.      *)
Acknowledged(t) ==
  /\ page[t] = "open" /\ ReadQueue(t) = {}
  /\ call[t].kind \notin {"post", "posted"} /\ known[t].revision > 0

(* An unfinished request of t is aborted; the server may have it already.    *)
Abandoned(t) == IF call[t].kind = "post" THEN late \cup {call[t].update} ELSE late

(* disposeDocument.                                                          *)
Disposed(t, next) ==
  /\ page' = [page EXCEPT ![t] = next]
  /\ copy' = [copy EXCEPT ![t] = {}]
  /\ known' = [known EXCEPT ![t] = NoDoc]

(* completeIdentity: the queue of the session is dropped.                    *)
CompleteIdentity(t) ==
  /\ Disposed(t, "done")
  /\ WriteQueue(t, {})
  /\ gone' = gone \cup ReadQueue(t) \cup saved[OwnerOf[t]]
  /\ late' = Abandoned(t)

(* activate; the editor is locked until the answer is there.                 *)
Open(t) ==
  /\ page[t] = "closed" /\ ~completed
  /\ page' = [page EXCEPT ![t] = "hydrating"]
  /\ outlived' = outlived \ {t}
  /\ UNCHANGED <<document, aged, purges, snapshot, completed, deps, copy, known, queue, saved, call, late, writing, gone, frail>>

(* fetchJson for hydrate and poll.                                           *)
Ask(t) ==
  /\ call[t] = NoCall
  /\ page[t] = "hydrating" \/ (page[t] = "open" /\ ReadQueue(t) = {} /\ known[t].revision # document.revision)
  /\ call' = [call EXCEPT ![t] = [kind |-> "get", after |-> known[t].revision]]
  /\ UNCHANGED <<serverVars, completed, deps, pageVars, late, writing>>

(* drain: the head of the queue is posted; a poll in progress is aborted.    *)
Drain(t) ==
  /\ page[t] = "open" /\ call[t].kind \notin {"post", "posted"} /\ ReadQueue(t) # {}
  /\ call' = [call EXCEPT ![t] = [kind |-> "post", update |-> ReadQueue(t)]]
  /\ queue' = [queue EXCEPT ![t] = ReadQueue(t)]
  /\ UNCHANGED <<serverVars, completed, deps, page, copy, known, saved, late, writing>>

(* Mutant of Remaining: the head is dropped though it has grown.             *)
RemainingNone(t, update) == {}

(* After the answer: the head leaves the queue unless edits joined it.       *)
Remaining(t, update) == IF ReadQueue(t) = update THEN {} ELSE ReadQueue(t)

(* acceptResponse: the state is merged into the copy.                        *)
Accept(t, answer) ==
  /\ copy' = [copy EXCEPT ![t] = IF answer.changed THEN @ \cup answer.edits ELSE @]
  /\ known' = [known EXCEPT ![t] = [revision |-> answer.revision, edits |-> answer.edits]]

(* The rest of hydrate and poll.                                             *)
Receive(t) ==
  /\ call[t].kind = "answer"
  /\ IF page[t] = "hydrating"
     THEN /\ copy' = [copy EXCEPT ![t] = call[t].edits \cup ReadQueue(t)]
          /\ known' = [known EXCEPT ![t] = [revision |-> call[t].revision, edits |-> call[t].edits]]
     ELSE Accept(t, call[t])
  /\ queue' = IF page[t] = "hydrating" THEN [queue EXCEPT ![t] = ReadQueue(t)] ELSE queue
  /\ page' = [page EXCEPT ![t] = "open"]
  /\ call' = [call EXCEPT ![t] = NoCall]
  /\ UNCHANGED <<serverVars, completed, deps, saved, late, writing>>

(* The rest of drain.                                                        *)
Drained(t) ==
  /\ call[t].kind = "posted" /\ call[t].answer.kind = "answer"
  /\ Accept(t, call[t].answer)
  /\ WriteQueue(t, Remaining(t, call[t].update))
  /\ call' = [call EXCEPT ![t] = NoCall]
  /\ UNCHANGED <<serverVars, completed, deps, page, late, writing>>

(* The session turns out to be completed: by the answer to a post, or by the *)
(* event of the completion card.                                             *)
Finish(t) ==
  /\ page[t] \in {"open", "hydrating"} /\ completed
  /\ CompleteIdentity(t)
  /\ call' = [call EXCEPT ![t] = NoCall]
  /\ UNCHANGED <<document, aged, purges, snapshot, completed, deps, writing, frail, outlived>>

(* updateHandler: an edit enters the copy, the queue and the storage.        *)
Type(t) ==
  /\ page[t] = "open" /\ Len(deps) < MaxEdits
  /\ deps' = Append(deps, Shown(copy[t]))
  /\ copy' = [copy EXCEPT ![t] = @ \cup {Len(deps) + 1}]
  /\ WriteQueue(t, ReadQueue(t) \cup {Len(deps) + 1})
  /\ frail' = IF Sole(t) THEN frail ELSE frail \cup {Len(deps) + 1}
  /\ UNCHANGED <<document, aged, purges, snapshot, gone, outlived, completed, page, known, call, late, writing>>

(* The tab is hidden, or (queue lost) closed or reloaded.                    *)
Leave(t) == \E q \in {queue[t], {}} :
  /\ t \in Restless /\ page[t] \in {"open", "hydrating"}
  /\ Disposed(t, "closed")
  /\ queue' = [queue EXCEPT ![t] = q]
  /\ late' = Abandoned(t)
  /\ call' = [call EXCEPT ![t] = NoCall]
  /\ UNCHANGED <<serverVars, completed, deps, saved, writing>>

(* clearActorQueue, on sign-out; or the scope of the workspace is reset, to  *)
(* another circle for one, which removes the queues from the storage.        *)
SignOut(t) ==
  /\ t \in Restless /\ page[t] # "done"
  /\ Disposed(t, "closed")
  /\ WriteQueue(t, {})
  /\ gone' = gone \cup ReadQueue(t) \cup saved[OwnerOf[t]]
  /\ late' = Abandoned(t)
  /\ call' = [call EXCEPT ![t] = NoCall]
  /\ UNCHANGED <<document, aged, purges, snapshot, completed, deps, writing, frail, outlived>>

(* purgeExpiredQueues: a page that starts drops what was stored ninety days  *)
(* ago.                                                                      *)
Lapse(t) ==
  /\ t \in Restless /\ page[t] = "closed" /\ queue[t] = {} /\ saved[OwnerOf[t]] # {}
  /\ saved' = [saved EXCEPT ![OwnerOf[t]] = {}]
  /\ gone' = gone \cup saved[OwnerOf[t]]
  /\ UNCHANGED <<document, aged, purges, snapshot, completed, deps, page, copy, known, queue,
                 call, late, writing, frail, outlived>>

(* --------------------------- Workspace writes ---------------------------- *)

(* drainSave: with the text of the snapshot shown, and something typed into  *)
(* it where the document is not open yet.                                    *)
PostWorkspace(t) ==
  /\ writing[t] = NotWriting /\ snapshot.revision < MaxWrites
  /\ \E code \in {snapshot.code, snapshot.code \cup {Len(deps) + 1}} :
       /\ IF code = snapshot.code THEN UNCHANGED <<deps, frail>>
          ELSE /\ page[t] = "closed" /\ Len(deps) < MaxEdits
               /\ deps' = Append(deps, snapshot.code) /\ frail' = frail \cup {Len(deps) + 1}
       /\ writing' = [writing EXCEPT ![t] = [base |-> snapshot.revision, code |-> code,
                        own |-> code # snapshot.code, revision |-> Unread, edits |-> {}, text |-> {}]]
  /\ UNCHANGED <<document, aged, purges, snapshot, gone, outlived, completed, pageVars, call, late>>

(* 409, with the current snapshot: the page keeps what was typed in it and   *)
(* posts that again over the current one, up to MAX_SAVE_RETRIES.            *)
Conflict(t) ==
  \/ writing' = [writing EXCEPT ![t] = NotWriting]
  \/ /\ writing[t].own
     /\ writing' = [writing EXCEPT ![t] = [@ EXCEPT !.base = snapshot.revision, !.revision = Unread,
                                                    !.edits = {}, !.text = {}]]

(* handleWorkspacePost reads the snapshot and the document; where there is   *)
(* one, its text is written and not the page's.                              *)
ReadWorkspace(t) ==
  /\ writing[t] # NotWriting /\ writing[t].revision = Unread
  /\ IF writing[t].base # snapshot.revision THEN Conflict(t)
     ELSE writing' = [writing EXCEPT ![t] = [@ EXCEPT
            !.revision = document.revision, !.edits = document.edits,
            !.text = IF ~Exists THEN writing[t].code ELSE IF aged THEN {} ELSE Shown(document.edits)]]
  /\ UNCHANGED <<serverVars, completed, deps, pageVars, call, late>>

(* documentGuard: the document is still the one projected, or still absent.  *)
DocumentGuard(w) == document = [revision |-> w.revision, edits |-> w.edits]

(* The write.  Where only the document has changed it is repeated from the   *)
(* beginning, and then answered as written: with the text of the document.   *)
WriteWorkspace(t) ==
  /\ writing[t] # NotWriting /\ writing[t].revision # Unread
  /\ \/ /\ writing[t].base = snapshot.revision /\ DocumentGuard(writing[t])
        /\ snapshot' = [revision |-> snapshot.revision + 1, code |-> writing[t].text]
        /\ writing' = [writing EXCEPT ![t] = NotWriting]
     \/ /\ writing[t].base # snapshot.revision
        /\ Conflict(t) /\ UNCHANGED snapshot
     \/ /\ writing[t].base = snapshot.revision /\ ~DocumentGuard(writing[t])
        /\ writing' = [writing EXCEPT ![t] = [@ EXCEPT !.revision = Unread, !.edits = {}, !.text = {}]]
        /\ UNCHANGED snapshot
  /\ UNCHANGED <<document, aged, purges, completed, deps, pageVars, call, late, gone, frail, outlived>>

(* ------------------------------------------------------------------------- *)

Init ==
  /\ document = NoDoc /\ aged = FALSE /\ purges = 0 /\ snapshot = NoCode /\ completed = FALSE
  /\ deps = <<>> /\ page = [t \in Tabs |-> "closed"] /\ copy = [t \in Tabs |-> {}]
  /\ known = [t \in Tabs |-> NoDoc] /\ queue = [t \in Tabs |-> {}]
  /\ saved = [u \in Users |-> {}] /\ call = [t \in Tabs |-> NoCall] /\ late = {}
  /\ writing = [t \in Tabs |-> NotWriting] /\ gone = {} /\ frail = {} /\ outlived = {}

Next ==
  \/ \E t \in Tabs : \/ Handle(t) \/ Open(t) \/ Ask(t) \/ Drain(t) \/ Receive(t) \/ Drained(t)
                     \/ Finish(t) \/ Type(t) \/ Leave(t) \/ SignOut(t) \/ Lapse(t)
                     \/ PostWorkspace(t) \/ ReadWorkspace(t) \/ WriteWorkspace(t)
  \/ HandleLate \/ Purge \/ Age \/ Complete

Spec == Init /\ [][Next]_vars

(* ------------------------------ Properties ------------------------------- *)

TypeOK ==
  /\ document \in [revision : Nat, edits : SUBSET Made] /\ snapshot \in [revision : Nat, code : SUBSET Made]
  /\ {aged, completed} \subseteq BOOLEAN /\ purges \in 0..MaxPurges
  /\ deps \in Seq(SUBSET Made) /\ Len(deps) <= MaxEdits
  /\ page \in [Tabs -> {"closed", "hydrating", "open", "done"}]
  /\ {copy, queue} \subseteq [Tabs -> SUBSET Made] /\ saved \in [Users -> SUBSET Made]
  /\ known \in [Tabs -> [revision : Nat, edits : SUBSET Made]]
  /\ late \subseteq SUBSET Made /\ {gone, frail} \subseteq SUBSET Made /\ outlived \subseteq Tabs

(* An edit typed into the open document, by the only page of its account, is *)
(* stored or waits in a queue that outlives the page, however requests are   *)
(* lost, repeated or overtaken, pages reloaded and edits typed while a       *)
(* request is on its way; and so is any edit from when the document has it.  *)
(* Only completion, sign-out, a reset and retention drop any.                *)
(* docs/CONFLICT_FREE_CODE_DOCUMENTS.md, assets/crdt-editor-source.js:437.   *)
EditsSurvive ==
  Made \ frail \subseteq document.edits \cup gone \cup UNION {saved[u] : u \in Users}

(* A page that offers a version to run shows exactly the text of that        *)
(* version, as long as retention has not deleted the document under it.      *)
(* assets/crdt-editor-source.js:228, api/_code-document.js:629.              *)
VersionIsShown == \A t \in Tabs :
  Acknowledged(t) /\ t \notin outlived => Shown(copy[t]) = Shown(known[t].edits)

(* Where there is no deletion, all that is stored is shown.                  *)
StoredIsShown == purges = 0 => Shown(document.edits) = document.edits

(* The snapshot repeats the text of the document, whichever of the two is    *)
(* written first; after a deletion it may have been blanked by a write that  *)
(* read the old document and met one equal to it.  api/video.js:493.         *)
SnapshotFollows ==
  Exists /\ ~aged /\ snapshot.revision > 0 =>
    snapshot.code \in {Shown(document.edits)} \cup IF purges > 0 THEN {{}} ELSE {}

(* After completion nothing is merged; reading can only delete what is too   *)
(* old and begin again.                                                      *)
NothingMergedAfter ==
  completed /\ document'.edits # document.edits =>
    document' = NoDoc \/ document'.revision = 1
=============================================================================
