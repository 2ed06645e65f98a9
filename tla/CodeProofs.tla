----------------------------- MODULE CodeProofs -----------------------------
(* What holds of the code that a pair edits and runs, whatever the pages,    *)
(* requests and bounds: of the document and the pages that edit it (the      *)
(* module extended), and of the running of submissions (Execute).            *)
EXTENDS CodeDocument, SequenceTheorems, FiniteSetTheorems, TLAPS

CONSTANTS
  Requests, UserOf, ModeOf, ServerOf, RunLease, RunMinute, RunsPerMinute,
  LastRun, MaxStored                                                    \* Execute

VARIABLES now, terminal, allowed, step, code, lease, since, programs, leases, attempts, active, executed

Execute  == INSTANCE Execution WITH
  Lease <- RunLease, Minute <- RunMinute, PerMinute <- RunsPerMinute, MaxNow <- LastRun,
  MaxVersion <- MaxStored, runs <- executed

(* ----------------------- The code that two members edit ------------------ *)

StoreTyped ==
  /\ document \in [revision : Nat, edits : SUBSET Made] /\ snapshot \in [revision : Nat, code : SUBSET Made]
  /\ aged \in BOOLEAN /\ completed \in BOOLEAN /\ purges \in 0..MaxPurges
  /\ deps \in Seq(SUBSET Made) /\ Len(deps) <= MaxEdits /\ gone \subseteq Made /\ frail \subseteq Made
  /\ document.revision = 0 => document.edits = {}
  /\ snapshot.revision = 0 => snapshot.code = {}
  /\ aged => Exists /\ purges < MaxPurges
PagesTyped ==
  /\ page \in [Tabs -> {"closed", "hydrating", "open", "done"}]
  /\ copy \in [Tabs -> SUBSET Made] /\ queue \in [Tabs -> SUBSET Made] /\ saved \in [Users -> SUBSET Made]
  /\ known \in [Tabs -> [revision : Nat, edits : SUBSET Made]]
  /\ late \subseteq SUBSET Made /\ outlived \subseteq Tabs

AnswerTyped(a) == a.kind = "answer" => a.changed \in BOOLEAN /\ a.revision \in Nat /\ a.edits \in SUBSET Made
CallTyped(c) ==
  /\ c.kind \in {"none", "get", "post", "answer", "posted"}
  /\ c.kind = "none" => c = NoCall
  /\ c.kind = "get" => c.after \in Nat
  /\ c.kind \in {"post", "posted"} => c.update \in SUBSET Made
  /\ AnswerTyped(c)
  /\ c.kind = "posted" => c.answer.kind \in {"answer", "completed"} /\ AnswerTyped(c.answer)
WriteTyped(w) ==
  w # NotWriting => w \in [base : Nat, code : SUBSET Made, own : BOOLEAN, revision : Nat \cup {Unread},
                           edits : SUBSET Made, text : SUBSET Made]
CallsTyped ==
  /\ call = [t \in Tabs |-> call[t]] /\ \A t \in Tabs : CallTyped(call[t])
  /\ writing = [t \in Tabs |-> writing[t]] /\ \A t \in Tabs : WriteTyped(writing[t])
AllTyped == StoreTyped /\ PagesTyped /\ CallsTyped

LEMMA MadeIs == ASSUME StoreTyped PROVE Made = 1..Len(deps) /\ Len(deps) \in Nat
BY DEF StoreTyped, Made

(* An edit is made.                                                          *)
LEMMA EditMade ==
  ASSUME StoreTyped, NEW seenBy \in SUBSET Made, deps' = Append(deps, seenBy)
  PROVE  /\ Made' = Made \cup {Len(deps) + 1} /\ Len(deps) + 1 \notin Made /\ Len(deps') = Len(deps) + 1
         /\ deps' \in Seq(SUBSET Made')
         /\ \A e \in Made : deps'[e] = deps[e]
         /\ deps'[Len(deps) + 1] = seenBy
<1>1. deps \in Seq(SUBSET Made) /\ Len(deps) \in Nat /\ Made = 1..Len(deps)
  BY MadeIs DEF StoreTyped
<1>2. /\ deps' \in Seq(SUBSET Made) /\ Len(deps') = Len(deps) + 1
      /\ \A e \in 1..Len(deps) : deps'[e] = deps[e]
      /\ deps'[Len(deps) + 1] = seenBy
  BY <1>1, AppendProperties
<1>3. Made' = 1..(Len(deps) + 1)
  BY <1>2 DEF Made
<1>4. Made' = Made \cup {Len(deps) + 1} /\ Len(deps) + 1 \notin Made
  BY <1>1, <1>3
<1>5. \A e \in 1..Len(deps') : deps'[e] \in SUBSET Made'
  BY <1>1, <1>2, <1>4
<1>6. deps' \in Seq(SUBSET Made')
  BY <1>2, <1>4
<1> QED BY <1>1, <1>2, <1>4, <1>6

LEMMA TypesGrow ==
  ASSUME AllTyped, Made \subseteq Made'
  PROVE  /\ document \in [revision : Nat, edits : SUBSET Made'] /\ snapshot \in [revision : Nat, code : SUBSET Made']
         /\ copy \in [Tabs -> SUBSET Made'] /\ queue \in [Tabs -> SUBSET Made'] /\ saved \in [Users -> SUBSET Made']
         /\ known \in [Tabs -> [revision : Nat, edits : SUBSET Made']]
         /\ late \subseteq SUBSET Made' /\ gone \subseteq Made' /\ frail \subseteq Made'
<1>1. \A S \in SUBSET Made : S \in SUBSET Made'
  OBVIOUS
<1>2. document \in [revision : Nat, edits : SUBSET Made'] /\ snapshot \in [revision : Nat, code : SUBSET Made']
  BY <1>1 DEF AllTyped, StoreTyped
<1>3. copy \in [Tabs -> SUBSET Made'] /\ queue \in [Tabs -> SUBSET Made'] /\ saved \in [Users -> SUBSET Made']
  BY <1>1 DEF AllTyped, PagesTyped
<1>4. \A t \in Tabs : known[t] \in [revision : Nat, edits : SUBSET Made']
  BY <1>1 DEF AllTyped, PagesTyped
<1>5. known \in [Tabs -> [revision : Nat, edits : SUBSET Made']]
  BY <1>4 DEF AllTyped, PagesTyped
<1> QED BY <1>1, <1>2, <1>3, <1>5 DEF AllTyped, PagesTyped, StoreTyped

(* ------------------------------ The server ------------------------------- *)

(* What a handler or the daily job makes of the document: it goes, it is     *)
(* there as it was or as it is created, or it has an update merged in.       *)
Recast(update) ==
  /\ snapshot' \in [revision : Nat, code : SUBSET Made] /\ document' \in [revision : Nat, edits : SUBSET Made]
  /\ \/ document' = NoDoc /\ Expired /\ snapshot' = Scrubbed /\ update = {}
     \/ document' = Present /\ snapshot' = Scrubbed /\ update = {}
     \/ /\ document' = [revision |-> Present.revision + 1, edits |-> Present.edits \cup update]
        /\ snapshot' = Projected(Scrubbed, Shown(document'.edits)) /\ Present.edits # document'.edits
     \/ document' = Present /\ snapshot' = Scrubbed /\ update \subseteq Present.edits
  /\ frail' = frail \ document'.edits
  /\ Forget

LEMMA PresentTyped ==
  ASSUME StoreTyped
  PROVE  /\ Present \in [revision : Nat \ {0}, edits : SUBSET Made]
         /\ Scrubbed \in [revision : Nat, code : SUBSET Made]
         /\ Scrubbed.revision >= snapshot.revision
         /\ Scrubbed.revision = snapshot.revision => Scrubbed = snapshot
         /\ Scrubbed.revision = 0 => Scrubbed.code = {}
         /\ ~Expired => Scrubbed = snapshot /\ Present = IF Exists THEN document ELSE [revision |-> 1, edits |-> snapshot.code]
         /\ Expired => Scrubbed.code = {} /\ Present = [revision |-> 1, edits |-> {}]
<1>1. /\ document \in [revision : Nat, edits : SUBSET Made] /\ snapshot \in [revision : Nat, code : SUBSET Made]
      /\ snapshot.revision = 0 => snapshot.code = {}
  BY DEF StoreTyped
<1>2. Scrubbed = IF Expired /\ snapshot.revision > 0
                 THEN [revision |-> snapshot.revision + 1, code |-> {}] ELSE snapshot
  BY DEF Scrubbed
<1>3. /\ Scrubbed \in [revision : Nat, code : SUBSET Made] /\ Scrubbed.revision >= snapshot.revision
      /\ Scrubbed.revision = snapshot.revision => Scrubbed = snapshot
      /\ Scrubbed.revision = 0 => Scrubbed.code = {}
      /\ ~Expired => Scrubbed = snapshot
      /\ Expired => Scrubbed.code = {}
  BY <1>1, <1>2
<1>4. ~Expired => Present = IF Exists THEN document ELSE [revision |-> 1, edits |-> snapshot.code]
  BY <1>1, <1>3 DEF Present, Kept, Exists
<1>5. Expired => Present = [revision |-> 1, edits |-> {}]
  BY <1>3 DEF Present, Kept, NoDoc
<1>6. Present \in [revision : Nat \ {0}, edits : SUBSET Made]
  BY <1>1, <1>4, <1>5 DEF Exists
<1> QED BY <1>3, <1>4, <1>5, <1>6

LEMMA ShownSome == ASSUME NEW S \in SUBSET Made PROVE Shown(S) \in SUBSET S
BY DEF Shown

LEMMA MergedRewrites ==
  ASSUME StoreTyped, NEW update \in SUBSET Made, Merged(update), deps' = deps PROVE Recast(update)
<1>1. Present \in [revision : Nat \ {0}, edits : SUBSET Made] /\ Scrubbed \in [revision : Nat, code : SUBSET Made]
  BY PresentTyped
<1> DEFINE merged == Present.edits \cup update
<1>2. merged \in SUBSET Made /\ Shown(merged) \in SUBSET Made
  BY <1>1, ShownSome
<1>3. CASE merged = Present.edits
  <2>1. document' = Present /\ snapshot' = Scrubbed /\ Forget /\ frail' = frail \ merged
    BY <1>3 DEF Merged, Merge
  <2> QED BY <1>1, <1>3, <2>1 DEF Recast
<1>4. CASE merged # Present.edits
  <2>1. /\ document' = [revision |-> Present.revision + 1, edits |-> merged]
        /\ snapshot' = Projected(Scrubbed, Shown(merged)) /\ Forget /\ frail' = frail \ merged
    BY <1>4 DEF Merged, Merge
  <2>2. document'.edits = merged
    BY <2>1
  <2>3. Projected(Scrubbed, Shown(merged)) \in [revision : Nat, code : SUBSET Made]
    <3> DEFINE shown == Shown(merged)
    <3>1. shown \in SUBSET Made
      BY <1>2
    <3> HIDE DEF shown
    <3>2. Projected(Scrubbed, shown) \in [revision : Nat, code : SUBSET Made]
      BY <1>1, <3>1 DEF Projected
    <3> QED BY <3>2 DEF shown
  <2>4. document' \in [revision : Nat, edits : SUBSET Made]
    BY <1>1, <1>2, <2>1
  <2> QED BY <1>4, <2>1, <2>2, <2>3, <2>4 DEF Recast
<1> QED BY <1>3, <1>4

LEMMA GotRewrites == ASSUME StoreTyped, Got PROVE Recast({})
BY PresentTyped DEF Got, Recast

LEMMA PurgeRewrites == ASSUME StoreTyped, Purge PROVE Recast({})
BY PresentTyped DEF Purge, Recast, NoDoc

(* What is left of the types.                                                *)
LEMMA RewriteTyped ==
  ASSUME DocumentConstants, StoreTyped, NEW update, Recast(update), UNCHANGED <<deps, completed>>
  PROVE  StoreTyped'
<1>1. MaxPurges \in Nat /\ purges \in 0..MaxPurges /\ (Expired => purges < MaxPurges) /\ Made' = Made
  BY DEF DocumentConstants, StoreTyped, Expired, Made
<1>2. aged' = FALSE /\ purges' \in 0..MaxPurges /\ gone' \subseteq Made /\ frail' \subseteq Made
  BY <1>1 DEF Recast, Forget, StoreTyped
<1>3. /\ Present.revision # 0 /\ Present.revision + 1 # 0
      /\ Scrubbed.revision = 0 => Scrubbed.code = {}
  BY PresentTyped
<1>4. /\ document'.revision = 0 => document'.edits = {}
      /\ snapshot'.revision = 0 => snapshot'.code = {}
  <2>1. document'.revision = 0 => document'.edits = {}
    BY <1>3 DEF Recast, NoDoc
  <2>2. ASSUME NEW S PROVE Projected(Scrubbed, S).revision = 0 => Projected(Scrubbed, S).code = {}
    BY <1>3, PresentTyped DEF Projected
  <2> QED BY <1>3, <2>1, <2>2 DEF Recast
<1>5. document' \in [revision : Nat, edits : SUBSET Made] /\ snapshot' \in [revision : Nat, code : SUBSET Made]
  BY DEF Recast
<1> QED BY <1>1, <1>2, <1>4, <1>5 DEF StoreTyped

(* The three kinds of steps that reach the server, and what they leave.      *)
LEMMA HandleEffect ==
  ASSUME AllTyped, NEW t \in Tabs, Handle(t)
  PROVE  /\ UNCHANGED <<completed, deps, pageVars, late, writing>>
         /\ \/ UNCHANGED serverVars
            \/ \E update \in SUBSET Made : Recast(update) /\ (update = {} \/ ~completed)
         /\ \E answer : /\ call' = [call EXCEPT ![t] = answer]
                        /\ CallTyped(answer)
<1>1. UNCHANGED <<completed, deps, pageVars, late, writing>>
  BY DEF Handle
<1>2. CallTyped(call[t])
  BY DEF AllTyped, CallsTyped
<1>3. CallTyped(NoCall)
  BY DEF CallTyped, NoCall, AnswerTyped
<1>4. {} \in SUBSET Made
  OBVIOUS
<1>5. document \in [revision : Nat, edits : SUBSET Made]
  BY DEF AllTyped, StoreTyped
<1>6. UNCHANGED serverVars => document' \in [revision : Nat, edits : SUBSET Made]
  BY <1>5 DEF serverVars
<1>7. ASSUME NEW update, Recast(update) PROVE document' \in [revision : Nat, edits : SUBSET Made]
  BY <1>7 DEF Recast
<1>8. ASSUME document' \in [revision : Nat, edits : SUBSET Made], NEW after
      PROVE  AnswerTyped(Answer(after)) /\ Answer(after).kind = "answer"
  BY <1>8 DEF AnswerTyped, Answer
<1>9. CASE call[t].kind = "get"
  <2>1. UNCHANGED serverVars \/ Recast({})
    BY <1>9, GotRewrites DEF Handle, AllTyped
  <2>2. \E answer \in {Answer(call[t].after), NoCall} : call' = [call EXCEPT ![t] = answer]
    BY <1>9 DEF Handle
  <2>3. AnswerTyped(Answer(call[t].after)) /\ Answer(call[t].after).kind = "answer"
    BY <1>6, <1>7, <1>8, <2>1
  <2>4. CallTyped(Answer(call[t].after))
    BY <2>3 DEF CallTyped
  <2> QED BY <1>1, <1>3, <1>4, <2>1, <2>2, <2>4
<1>10. CASE call[t].kind = "post"
  <2>1. call[t].update \in SUBSET Made
    BY <1>2, <1>10 DEF CallTyped
  <2>2. UNCHANGED serverVars \/ (Recast(call[t].update) /\ ~completed)
    <3>1. IF completed THEN Terminal ELSE Merged(call[t].update)
      BY <1>10 DEF Handle
    <3>2. Merged(call[t].update) => Recast(call[t].update)
      BY <1>1, <2>1, MergedRewrites DEF AllTyped
    <3>3. CASE completed
      <4>1. Terminal
        BY <3>1, <3>3
      <4> QED BY <4>1 DEF Terminal, serverVars
    <3>4. CASE ~completed
      BY <3>1, <3>2, <3>4
    <3> QED BY <3>3, <3>4
  <2> DEFINE posted == [kind |-> "posted", update |-> call[t].update,
                         answer |-> IF completed THEN [kind |-> "completed"] ELSE Answer(0)]
  <2>3. \E answer \in {posted, NoCall} : call' = [call EXCEPT ![t] = answer]
    BY <1>10 DEF Handle
  <2>4. AnswerTyped(Answer(0)) /\ Answer(0).kind = "answer"
    BY <1>6, <1>7, <1>8, <2>2
  <2>5. CallTyped(posted)
    BY <2>1, <2>4 DEF CallTyped, AnswerTyped
  <2> QED BY <1>1, <1>3, <2>1, <2>2, <2>3, <2>5
<1> QED BY <1>9, <1>10 DEF Handle

LEMMA LateEffect ==
  ASSUME AllTyped, HandleLate
  PROVE  /\ UNCHANGED <<completed, deps, pageVars, call, writing>> /\ late' \subseteq late
         /\ \/ UNCHANGED serverVars
            \/ \E update \in late : Recast(update) /\ ~completed
<1> PICK update \in late : /\ late' = late \ {update}
                           /\ IF completed THEN Terminal ELSE Merged(update)
                           /\ UNCHANGED <<completed, deps, pageVars, call, writing>>
  BY DEF HandleLate
<1>1. update \in SUBSET Made
  BY DEF AllTyped, PagesTyped
<1> QED BY <1>1, MergedRewrites DEF AllTyped, Terminal

(* One call replaced, or one write.                                          *)
LEMMA CallReplaced ==
  ASSUME CallsTyped, NEW t \in Tabs, NEW c, CallTyped(c), call' = [call EXCEPT ![t] = c]
  PROVE  call' = [x \in Tabs |-> call'[x]] /\ (\A x \in Tabs : CallTyped(call'[x]))
         /\ \A x \in Tabs : call'[x] = IF x = t THEN c ELSE call[x]
<1>1. call' = [x \in Tabs |-> IF x = t THEN c ELSE call[x]]
  BY DEF CallsTyped
<1> QED BY <1>1 DEF CallsTyped

LEMMA CallsSame ==
  ASSUME CallsTyped, Made' = Made, UNCHANGED writing, call' = [x \in Tabs |-> call'[x]],
         \A x \in Tabs : CallTyped(call'[x])
  PROVE  CallsTyped'
<1>1. ASSUME NEW x \in Tabs PROVE CallTyped(call[x])'
  <2>1. CallTyped(call'[x])
    OBVIOUS
  <2> QED BY <2>1 DEF CallTyped, AnswerTyped
<1>2. ASSUME NEW x \in Tabs PROVE WriteTyped(writing[x])'
  BY DEF CallsTyped, WriteTyped
<1> QED BY <1>1, <1>2 DEF CallsTyped

LEMMA CallsGrow ==
  ASSUME CallsTyped, Made \subseteq Made', UNCHANGED call
  PROVE  /\ call' = [x \in Tabs |-> call'[x]] /\ \A x \in Tabs : CallTyped(call[x])'
         /\ \A x \in Tabs : WriteTyped(writing[x]) /\ writing'[x] = writing[x] => WriteTyped(writing[x])'
<1>1. ASSUME NEW x \in Tabs PROVE CallTyped(call[x])'
  <2>1. CallTyped(call[x]) /\ call'[x] = call[x] /\ \A S \in SUBSET Made : S \in SUBSET Made'
    BY DEF CallsTyped
  <2> QED BY <2>1 DEF CallTyped, AnswerTyped
<1>2. ASSUME NEW x \in Tabs, WriteTyped(writing[x]), writing'[x] = writing[x] PROVE WriteTyped(writing[x])'
  BY <1>2 DEF WriteTyped
<1> QED BY <1>1, <1>2 DEF CallsTyped

(* What a page keeps of its queue, in memory and in the storage.             *)
LEMMA QueueWritten ==
  ASSUME PagesTyped, NEW t \in Tabs, NEW q \in SUBSET Made', Made \subseteq Made', WriteQueue(t, q),
         queue \in [Tabs -> SUBSET Made'], saved \in [Users -> SUBSET Made']
  PROVE  /\ queue' \in [Tabs -> SUBSET Made'] /\ saved' \in [Users -> SUBSET Made']
         /\ \A x \in Tabs : queue'[x] = IF x = t THEN q ELSE queue[x]
         /\ \A u \in Users : saved'[u] = IF u = OwnerOf[t] THEN q ELSE saved[u]
         /\ OwnerOf[t] \in Users
BY DEF WriteQueue, Users, PagesTyped

LEMMA NoCallTyped == CallTyped(NoCall)
BY DEF CallTyped, NoCall, AnswerTyped

LEMMA ReadQueueTyped == ASSUME PagesTyped, NEW t \in Tabs PROVE ReadQueue(t) \in SUBSET Made
BY DEF PagesTyped, ReadQueue, Users

(* The document of a page is let go.                                         *)
LEMMA DisposedTyped ==
  ASSUME PagesTyped, NEW t \in Tabs, NEW next \in {"closed", "done"}, Disposed(t, next)
  PROVE  /\ page' \in [Tabs -> {"closed", "hydrating", "open", "done"}]
         /\ copy' \in [Tabs -> SUBSET Made]
         /\ known' \in [Tabs -> [revision : Nat, edits : SUBSET Made]]
<1>1. NoDoc \in [revision : Nat, edits : SUBSET Made]
  BY DEF NoDoc
<1> QED BY <1>1 DEF PagesTyped, Disposed

(* Steps that leave the text of the edits: what each has to keep.            *)
LEMMA TypesFrom ==
  ASSUME AllTyped, UNCHANGED deps, StoreTyped', PagesTyped', UNCHANGED writing,
         call' = [x \in Tabs |-> call'[x]], \A x \in Tabs : CallTyped(call'[x])
  PROVE  AllTyped'
<1>1. Made' = Made
  BY DEF Made
<1> QED BY <1>1, CallsSame DEF AllTyped

LEMMA StoreSame ==
  ASSUME StoreTyped, UNCHANGED <<document, aged, purges, snapshot, deps>>, gone' \subseteq Made, frail' \subseteq Made,
         completed' \in BOOLEAN
  PROVE  StoreTyped' /\ Made' = Made
BY DEF StoreTyped, Made, Exists

LEMMA PagesSame ==
  ASSUME PagesTyped, Made' = Made, UNCHANGED pageVars, late' \subseteq late, outlived' \subseteq Tabs
  PROVE  PagesTyped'
BY DEF PagesTyped, pageVars, Users

LEMMA ServerTyped ==
  ASSUME DocumentConstants, AllTyped, UNCHANGED <<completed, deps>>,
         UNCHANGED serverVars \/ \E update : Recast(update)
  PROVE  StoreTyped' /\ outlived' \subseteq Tabs /\ Made' = Made
<1>1. Made' = Made
  BY DEF Made
<1>2. CASE UNCHANGED serverVars
  BY <1>1, <1>2, StoreSame DEF serverVars, AllTyped, StoreTyped, PagesTyped
<1>3. ASSUME NEW update, Recast(update) PROVE StoreTyped' /\ outlived' \subseteq Tabs
  <2>1. StoreTyped'
    BY <1>3, RewriteTyped DEF AllTyped
  <2> QED BY <1>3, <2>1 DEF Recast, Forget, AllTyped, PagesTyped
<1> QED BY <1>1, <1>2, <1>3

LEMMA HandleTyped ==
  ASSUME DocumentConstants, AllTyped, (\E t \in Tabs : Handle(t)) \/ HandleLate \/ Purge PROVE AllTyped'
<1>1. ASSUME NEW t \in Tabs, Handle(t) PROVE AllTyped'
  <2>1. /\ UNCHANGED <<completed, deps, pageVars, late, writing>>
        /\ UNCHANGED serverVars \/ \E update : Recast(update)
    BY <1>1, HandleEffect
  <2> PICK answer : call' = [call EXCEPT ![t] = answer] /\ CallTyped(answer)
    BY <1>1, HandleEffect
  <2>2. StoreTyped' /\ outlived' \subseteq Tabs /\ Made' = Made
    BY <2>1, ServerTyped
  <2>3. PagesTyped'
    BY <2>1, <2>2, PagesSame DEF AllTyped
  <2>4. call' = [x \in Tabs |-> call'[x]] /\ \A x \in Tabs : CallTyped(call'[x])
    BY CallReplaced DEF AllTyped
  <2> QED BY <2>1, <2>2, <2>3, <2>4, TypesFrom
<1>2. CASE HandleLate
  <2>1. /\ UNCHANGED <<completed, deps, pageVars, call, writing>> /\ late' \subseteq late
        /\ UNCHANGED serverVars \/ \E update : Recast(update)
    BY <1>2, LateEffect
  <2>2. StoreTyped' /\ outlived' \subseteq Tabs /\ Made' = Made
    BY <2>1, ServerTyped
  <2>3. PagesTyped'
    BY <2>1, <2>2, PagesSame DEF AllTyped
  <2>4. call' = [x \in Tabs |-> call'[x]] /\ \A x \in Tabs : CallTyped(call'[x])
    BY <2>1 DEF AllTyped, CallsTyped
  <2> QED BY <2>1, <2>2, <2>3, <2>4, TypesFrom
<1>3. CASE Purge
  <2>1. UNCHANGED <<completed, deps, pageVars, call, late, writing>> /\ Recast({})
    BY <1>3, PurgeRewrites DEF Purge, AllTyped
  <2>2. StoreTyped' /\ outlived' \subseteq Tabs /\ Made' = Made
    BY <2>1, ServerTyped
  <2>3. PagesTyped'
    BY <2>1, <2>2, PagesSame DEF AllTyped
  <2>4. call' = [x \in Tabs |-> call'[x]] /\ \A x \in Tabs : CallTyped(call'[x])
    BY <2>1 DEF AllTyped, CallsTyped
  <2> QED BY <2>1, <2>2, <2>3, <2>4, TypesFrom
<1> QED BY <1>1, <1>2, <1>3

(* Whose queue is read and who is kept waiting.                              *)
LEMMA PageSteps ==
  ASSUME DocumentConstants, AllTyped, NEW t \in Tabs,
         \/ Open(t) \/ Ask(t) \/ Drain(t) \/ Receive(t) \/ Drained(t) \/ Finish(t) \/ Leave(t)
         \/ SignOut(t) \/ Lapse(t)
  PROVE  AllTyped'
<1>1. ReadQueue(t) \in SUBSET Made /\ CallTyped(call[t]) /\ OwnerOf[t] \in Users /\ {} \in SUBSET Made
  BY ReadQueueTyped DEF AllTyped, CallsTyped, Users
<1>2. /\ page \in [Tabs -> {"closed", "hydrating", "open", "done"}]
      /\ copy \in [Tabs -> SUBSET Made] /\ queue \in [Tabs -> SUBSET Made] /\ saved \in [Users -> SUBSET Made]
      /\ known \in [Tabs -> [revision : Nat, edits : SUBSET Made]]
      /\ late \subseteq SUBSET Made /\ outlived \subseteq Tabs /\ gone \subseteq Made /\ frail \subseteq Made /\ completed \in BOOLEAN
  BY DEF AllTyped, PagesTyped, StoreTyped
<1>3. call = [x \in Tabs |-> call[x]] /\ \A x \in Tabs : CallTyped(call[x])
  BY DEF AllTyped, CallsTyped
<1>4. ASSUME UNCHANGED <<document, aged, purges, snapshot, deps, writing, frail>>, gone' \subseteq Made,
             completed' \in BOOLEAN, outlived' \subseteq Tabs,
             page' \in [Tabs -> {"closed", "hydrating", "open", "done"}],
             copy' \in [Tabs -> SUBSET Made], queue' \in [Tabs -> SUBSET Made], saved' \in [Users -> SUBSET Made],
             known' \in [Tabs -> [revision : Nat, edits : SUBSET Made]], late' \subseteq SUBSET Made,
             call' = [x \in Tabs |-> call'[x]], \A x \in Tabs : CallTyped(call'[x])
      PROVE  AllTyped'
  <2>1. StoreTyped' /\ Made' = Made
    <3>1. StoreTyped /\ frail' \subseteq Made
      BY <1>2, <1>4 DEF AllTyped
    <3> QED BY <1>4, <3>1, StoreSame
  <2>2. PagesTyped'
    BY <1>4, <2>1 DEF PagesTyped, Users
  <2> QED BY <1>4, <2>1, <2>2, TypesFrom
<1>5. ASSUME NEW c, CallTyped(c), call' = [call EXCEPT ![t] = c]
      PROVE  call' = [x \in Tabs |-> call'[x]] /\ \A x \in Tabs : CallTyped(call'[x])
  BY <1>5, CallReplaced DEF AllTyped
<1>6. call' = [call EXCEPT ![t] = NoCall] => call' = [x \in Tabs |-> call'[x]] /\ \A x \in Tabs : CallTyped(call'[x])
  BY <1>5, NoCallTyped
<1>7. call' = call => call' = [x \in Tabs |-> call'[x]] /\ \A x \in Tabs : CallTyped(call'[x])
  BY <1>3
<1>8. Abandoned(t) \subseteq SUBSET Made
  BY <1>1, <1>2 DEF Abandoned, CallTyped
<1>9. ASSUME NEW q \in SUBSET Made, WriteQueue(t, q)
      PROVE  queue' \in [Tabs -> SUBSET Made] /\ saved' \in [Users -> SUBSET Made]
  BY <1>1, <1>2, <1>9 DEF WriteQueue
<1>10. ASSUME NEW a, AnswerTyped(a), a.kind = "answer", Accept(t, a)
       PROVE  copy' \in [Tabs -> SUBSET Made] /\ known' \in [Tabs -> [revision : Nat, edits : SUBSET Made]]
  <2>1. a.changed \in BOOLEAN /\ a.revision \in Nat /\ a.edits \in SUBSET Made
    BY <1>10 DEF AnswerTyped
  <2>2. [revision |-> a.revision, edits |-> a.edits] \in [revision : Nat, edits : SUBSET Made]
    BY <2>1
  <2>3. (IF a.changed THEN copy[t] \cup a.edits ELSE copy[t]) \in SUBSET Made
    BY <1>2, <2>1
  <2> QED BY <1>2, <1>10, <2>2, <2>3 DEF Accept
<1>11. CASE Open(t)
  <2>1. /\ page' = [page EXCEPT ![t] = "hydrating"] /\ outlived' = outlived \ {t}
        /\ UNCHANGED <<document, aged, purges, snapshot, completed, deps, copy, known, queue, saved, call, late, writing, gone, frail>>
    BY <1>11 DEF Open
  <2>2. page' \in [Tabs -> {"closed", "hydrating", "open", "done"}] /\ outlived' \subseteq Tabs
    BY <2>1, <1>2
  <2> QED BY <1>2, <1>4, <1>7, <2>1, <2>2
<1>12. CASE Ask(t)
  <2>1. known[t].revision \in Nat
    BY <1>2
  <2>2. CallTyped([kind |-> "get", after |-> known[t].revision])
    BY <2>1 DEF CallTyped, AnswerTyped
  <2>3. UNCHANGED <<serverVars, completed, deps, pageVars, late, writing>>
    BY <1>12 DEF Ask
  <2>4. call' = [call EXCEPT ![t] = [kind |-> "get", after |-> known[t].revision]]
    BY <1>12 DEF Ask
  <2>5. call' = [x \in Tabs |-> call'[x]] /\ \A x \in Tabs : CallTyped(call'[x])
    BY <1>5, <2>2, <2>4
  <2> QED BY <1>2, <1>4, <2>3, <2>5 DEF serverVars, pageVars
<1>13. CASE Drain(t)
  <2>1. CallTyped([kind |-> "post", update |-> ReadQueue(t)])
    BY <1>1 DEF CallTyped, AnswerTyped
  <2>2. call' = [call EXCEPT ![t] = [kind |-> "post", update |-> ReadQueue(t)]]
    BY <1>13 DEF Drain
  <2>3. call' = [x \in Tabs |-> call'[x]] /\ \A x \in Tabs : CallTyped(call'[x])
    BY <1>5, <2>1, <2>2
  <2>4. /\ queue' = [queue EXCEPT ![t] = ReadQueue(t)]
        /\ UNCHANGED <<serverVars, completed, deps, page, copy, known, saved, late, writing>>
    BY <1>13 DEF Drain
  <2>5. queue' \in [Tabs -> SUBSET Made]
    BY <1>1, <1>2, <2>4
  <2> QED BY <1>2, <1>4, <2>3, <2>4, <2>5 DEF serverVars
<1>14. CASE Receive(t)
  <2>1. call[t].kind = "answer" /\ AnswerTyped(call[t])
    BY <1>1, <1>14 DEF Receive, CallTyped
  <2>2. /\ call' = [call EXCEPT ![t] = NoCall] /\ page' = [page EXCEPT ![t] = "open"]
        /\ UNCHANGED <<serverVars, completed, deps, saved, late, writing>>
    BY <1>14 DEF Receive
  <2>3. copy' \in [Tabs -> SUBSET Made] /\ known' \in [Tabs -> [revision : Nat, edits : SUBSET Made]]
    <3>1. CASE page[t] = "hydrating"
      <4>1. /\ copy' = [copy EXCEPT ![t] = call[t].edits \cup ReadQueue(t)]
            /\ known' = [known EXCEPT ![t] = [revision |-> call[t].revision, edits |-> call[t].edits]]
        BY <3>1, <1>14 DEF Receive
      <4>2. call[t].edits \in SUBSET Made /\ call[t].revision \in Nat
        BY <2>1 DEF AnswerTyped
      <4>3. [revision |-> call[t].revision, edits |-> call[t].edits] \in [revision : Nat, edits : SUBSET Made]
        BY <4>2
      <4>4. call[t].edits \cup ReadQueue(t) \in SUBSET Made
        BY <1>1, <4>2
      <4> QED BY <1>2, <4>1, <4>3, <4>4
    <3>2. CASE page[t] # "hydrating"
      BY <1>10, <2>1, <3>2, <1>14 DEF Receive
    <3> QED BY <3>1, <3>2
  <2>4. page' \in [Tabs -> {"closed", "hydrating", "open", "done"}]
    BY <1>2, <2>2
  <2>5. queue' \in [Tabs -> SUBSET Made]
    <3>1. queue' = queue \/ queue' = [queue EXCEPT ![t] = ReadQueue(t)]
      BY <1>14 DEF Receive
    <3> QED BY <1>1, <1>2, <3>1
  <2> QED BY <1>2, <1>4, <1>6, <2>2, <2>3, <2>4, <2>5 DEF serverVars
<1>15. CASE Drained(t)
  <2>1. call[t].answer.kind = "answer" /\ AnswerTyped(call[t].answer) /\ call[t].update \in SUBSET Made
    BY <1>1, <1>15 DEF Drained, CallTyped
  <2>2. /\ Accept(t, call[t].answer) /\ WriteQueue(t, Remaining(t, call[t].update))
        /\ call' = [call EXCEPT ![t] = NoCall]
        /\ UNCHANGED <<serverVars, completed, deps, page, late, writing>>
    BY <1>15 DEF Drained
  <2>3. Remaining(t, call[t].update) \in SUBSET Made
    BY <1>1 DEF Remaining
  <2>4. queue' \in [Tabs -> SUBSET Made] /\ saved' \in [Users -> SUBSET Made]
    BY <1>9, <2>2, <2>3
  <2>5. copy' \in [Tabs -> SUBSET Made] /\ known' \in [Tabs -> [revision : Nat, edits : SUBSET Made]]
    BY <1>10, <2>1, <2>2
  <2> QED BY <1>2, <1>4, <1>6, <2>2, <2>4, <2>5 DEF serverVars
<1>16. CASE Finish(t)
  <2>1. /\ Disposed(t, "done") /\ WriteQueue(t, {}) /\ late' = Abandoned(t)
        /\ gone' = gone \cup ReadQueue(t) \cup saved[OwnerOf[t]] /\ call' = [call EXCEPT ![t] = NoCall]
        /\ UNCHANGED <<document, aged, purges, snapshot, completed, deps, writing, frail, outlived>>
    BY <1>16 DEF Finish, CompleteIdentity
  <2>2. gone' \subseteq Made
    BY <1>1, <1>2, <2>1
  <2>3. queue' \in [Tabs -> SUBSET Made] /\ saved' \in [Users -> SUBSET Made]
    BY <1>1, <1>9, <2>1
  <2>4. /\ page' \in [Tabs -> {"closed", "hydrating", "open", "done"}]
        /\ copy' \in [Tabs -> SUBSET Made] /\ known' \in [Tabs -> [revision : Nat, edits : SUBSET Made]]
    BY <2>1, DisposedTyped DEF AllTyped
  <2> QED BY <1>2, <1>4, <1>6, <1>8, <2>1, <2>2, <2>3, <2>4
<1>17. CASE Leave(t)
  <2> PICK q \in {queue[t], {}} :
        /\ Disposed(t, "closed") /\ queue' = [queue EXCEPT ![t] = q] /\ late' = Abandoned(t)
        /\ call' = [call EXCEPT ![t] = NoCall]
        /\ UNCHANGED <<serverVars, completed, deps, saved, writing>>
    BY <1>17 DEF Leave
  <2>1. queue' \in [Tabs -> SUBSET Made]
    BY <1>1, <1>2
  <2>2. /\ page' \in [Tabs -> {"closed", "hydrating", "open", "done"}]
        /\ copy' \in [Tabs -> SUBSET Made] /\ known' \in [Tabs -> [revision : Nat, edits : SUBSET Made]]
    BY DisposedTyped DEF AllTyped
  <2> QED BY <1>2, <1>4, <1>6, <1>8, <2>1, <2>2 DEF serverVars
<1>18. CASE SignOut(t)
  <2>1. /\ Disposed(t, "closed") /\ WriteQueue(t, {}) /\ late' = Abandoned(t)
        /\ gone' = gone \cup ReadQueue(t) \cup saved[OwnerOf[t]] /\ call' = [call EXCEPT ![t] = NoCall]
        /\ UNCHANGED <<document, aged, purges, snapshot, completed, deps, writing, frail, outlived>>
    BY <1>18 DEF SignOut
  <2>2. gone' \subseteq Made
    BY <1>1, <1>2, <2>1
  <2>3. queue' \in [Tabs -> SUBSET Made] /\ saved' \in [Users -> SUBSET Made]
    BY <1>1, <1>9, <2>1
  <2>4. /\ page' \in [Tabs -> {"closed", "hydrating", "open", "done"}]
        /\ copy' \in [Tabs -> SUBSET Made] /\ known' \in [Tabs -> [revision : Nat, edits : SUBSET Made]]
    BY <2>1, DisposedTyped DEF AllTyped
  <2> QED BY <1>2, <1>4, <1>6, <1>8, <2>1, <2>2, <2>3, <2>4
<1>19. CASE Lapse(t)
  <2>1. /\ saved' = [saved EXCEPT ![OwnerOf[t]] = {}] /\ gone' = gone \cup saved[OwnerOf[t]]
        /\ UNCHANGED <<document, aged, purges, snapshot, completed, deps, page, copy, known, queue, call, late,
                       writing, frail, outlived>>
    BY <1>19 DEF Lapse
  <2>2. gone' \subseteq Made /\ saved' \in [Users -> SUBSET Made]
    BY <1>1, <1>2, <2>1
  <2> QED BY <1>2, <1>4, <1>7, <2>1, <2>2
<1> QED BY <1>11, <1>12, <1>13, <1>14, <1>15, <1>16, <1>17, <1>18, <1>19

(* What is typed.                                                            *)
LEMMA TypeTyped ==
  ASSUME DocumentConstants, AllTyped, NEW t \in Tabs, Type(t) PROVE AllTyped'
<1> DEFINE e == Len(deps) + 1
<1>1. /\ Len(deps) < MaxEdits /\ deps' = Append(deps, Shown(copy[t])) /\ copy' = [copy EXCEPT ![t] = copy[t] \cup {e}]
      /\ WriteQueue(t, ReadQueue(t) \cup {e})
      /\ frail' \subseteq frail \cup {e}
      /\ UNCHANGED <<document, aged, purges, snapshot, gone, outlived, completed, page, known, call, late, writing>>
  BY DEF Type
<1>2. copy[t] \in SUBSET Made /\ Shown(copy[t]) \in SUBSET Made /\ ReadQueue(t) \in SUBSET Made
  BY ShownSome, ReadQueueTyped DEF AllTyped, PagesTyped
<1>3. /\ Made' = Made \cup {e} /\ Len(deps') = e /\ deps' \in Seq(SUBSET Made')
  BY <1>1, <1>2, EditMade DEF AllTyped
<1>4. e \in Nat /\ e <= MaxEdits
  BY <1>1, MadeIs DEF AllTyped, DocumentConstants
<1> HIDE DEF e
<1>5. Made \subseteq Made' /\ copy[t] \cup {e} \in SUBSET Made' /\ ReadQueue(t) \cup {e} \in SUBSET Made'
  BY <1>2, <1>3
<1>6. /\ document \in [revision : Nat, edits : SUBSET Made'] /\ snapshot \in [revision : Nat, code : SUBSET Made']
      /\ copy \in [Tabs -> SUBSET Made'] /\ queue \in [Tabs -> SUBSET Made'] /\ saved \in [Users -> SUBSET Made']
      /\ known \in [Tabs -> [revision : Nat, edits : SUBSET Made']]
      /\ late \subseteq SUBSET Made' /\ gone \subseteq Made' /\ frail \subseteq Made'
  BY <1>5, TypesGrow
<1>7. queue' \in [Tabs -> SUBSET Made'] /\ saved' \in [Users -> SUBSET Made']
  BY <1>1, <1>5, <1>6, QueueWritten DEF AllTyped
<1>8. copy' \in [Tabs -> SUBSET Made']
  BY <1>1, <1>5, <1>6
<1>9. StoreTyped'
  BY <1>1, <1>3, <1>4, <1>6 DEF AllTyped, StoreTyped, Exists
<1>10. Users' = Users
  BY DEF Users
<1>11. PagesTyped'
  BY <1>1, <1>6, <1>7, <1>8, <1>10 DEF AllTyped, PagesTyped
<1>12. CallsTyped'
  BY <1>1, <1>5, CallsGrow DEF AllTyped, CallsTyped
<1> QED BY <1>9, <1>11, <1>12 DEF AllTyped

(* A write of the workspace is posted, with or without an edit of its own.   *)
Posted(t) ==
  /\ UNCHANGED <<document, aged, purges, snapshot, gone, outlived, completed, pageVars, call, late>>
  /\ \E w : /\ writing' = [writing EXCEPT ![t] = w] /\ w # NotWriting /\ w.revision = Unread /\ w.text = {}
            /\ w \in [base : Nat, code : SUBSET Made', own : BOOLEAN, revision : {Unread}, edits : {{}}, text : {{}}]
            /\ \/ w.code = snapshot.code /\ UNCHANGED <<deps, frail>>
               \/ /\ w.code = snapshot.code \cup {Len(deps) + 1} /\ Len(deps) < MaxEdits
                  /\ deps' = Append(deps, snapshot.code) /\ frail' = frail \cup {Len(deps) + 1}

LEMMA PostsOne ==
  ASSUME AllTyped, NEW t \in Tabs, PostWorkspace(t) PROVE Posted(t)
<1> PICK typed \in {snapshot.code, snapshot.code \cup {Len(deps) + 1}} :
      /\ IF typed = snapshot.code THEN UNCHANGED <<deps, frail>>
         ELSE /\ page[t] = "closed" /\ Len(deps) < MaxEdits
              /\ deps' = Append(deps, snapshot.code) /\ frail' = frail \cup {Len(deps) + 1}
      /\ writing' = [writing EXCEPT ![t] = [base |-> snapshot.revision, code |-> typed,
                       own |-> typed # snapshot.code, revision |-> Unread, edits |-> {}, text |-> {}]]
  BY DEF PostWorkspace
<1> DEFINE w == [base |-> snapshot.revision, code |-> typed, own |-> typed # snapshot.code,
                 revision |-> Unread, edits |-> {}, text |-> {}]
<1>1. snapshot.revision \in Nat /\ snapshot.code \in SUBSET Made
  BY DEF AllTyped, StoreTyped
<1>2. \/ typed = snapshot.code /\ UNCHANGED <<deps, frail>>
      \/ /\ typed = snapshot.code \cup {Len(deps) + 1} /\ Len(deps) < MaxEdits
         /\ deps' = Append(deps, snapshot.code) /\ frail' = frail \cup {Len(deps) + 1}
  OBVIOUS
<1>3. typed \in SUBSET Made'
  <2>1. CASE typed = snapshot.code /\ UNCHANGED <<deps, frail>>
    BY <1>1, <2>1 DEF Made
  <2>2. CASE typed = snapshot.code \cup {Len(deps) + 1} /\ deps' = Append(deps, snapshot.code)
    BY <1>1, <2>2, EditMade DEF AllTyped
  <2> QED BY <1>2, <2>1, <2>2
<1>4. w \in [base : Nat, code : SUBSET Made', own : BOOLEAN, revision : {Unread}, edits : {{}}, text : {{}}]
  BY <1>1, <1>3
<1>5. w.base = snapshot.revision /\ w.code = typed /\ w.revision = Unread /\ w.text = {}
  OBVIOUS
<1>6. w # NotWriting
  <2>1. NotWriting.base = -1
    BY DEF NotWriting
  <2> QED BY <1>1, <1>5, <2>1
<1>7. UNCHANGED <<document, aged, purges, snapshot, gone, outlived, completed, pageVars, call, late>>
  BY DEF PostWorkspace
<1> HIDE DEF w
<1>8. writing' = [writing EXCEPT ![t] = w]
  BY DEF w
<1> QED BY <1>2, <1>4, <1>5, <1>6, <1>7, <1>8 DEF Posted

LEMMA PostedTyped ==
  ASSUME DocumentConstants, AllTyped, NEW t \in Tabs, Posted(t) PROVE AllTyped'
<1> PICK w :
      /\ writing' = [writing EXCEPT ![t] = w] /\ w # NotWriting
      /\ w \in [base : Nat, code : SUBSET Made', own : BOOLEAN, revision : {Unread}, edits : {{}}, text : {{}}]
      /\ \/ UNCHANGED <<deps, frail>>
         \/ /\ Len(deps) < MaxEdits
            /\ deps' = Append(deps, snapshot.code) /\ frail' = frail \cup {Len(deps) + 1}
  BY DEF Posted
<1>1. /\ UNCHANGED <<document, aged, purges, snapshot, gone, outlived, completed, pageVars, call, late>>
      /\ snapshot.code \in SUBSET Made
  BY DEF Posted, AllTyped, StoreTyped
<1>2. Made \subseteq Made' /\ deps' \in Seq(SUBSET Made') /\ Len(deps') <= MaxEdits /\ frail' \subseteq Made'
  <2>1. CASE UNCHANGED <<deps, frail>>
    <3>1. Made' = Made
      BY <2>1 DEF Made
    <3> QED BY <2>1, <3>1 DEF AllTyped, StoreTyped
  <2>2. CASE /\ Len(deps) < MaxEdits
             /\ deps' = Append(deps, snapshot.code) /\ frail' = frail \cup {Len(deps) + 1}
    <3>1. /\ Made' = Made \cup {Len(deps) + 1} /\ Len(deps') = Len(deps) + 1 /\ deps' \in Seq(SUBSET Made')
      BY <1>1, <2>2, EditMade DEF AllTyped
    <3>2. Len(deps) \in Nat /\ MaxEdits \in Nat /\ frail \subseteq Made
      BY MadeIs DEF AllTyped, DocumentConstants, StoreTyped
    <3> QED BY <2>2, <3>1, <3>2
  <2> QED BY <2>1, <2>2
<1>3. /\ document \in [revision : Nat, edits : SUBSET Made'] /\ snapshot \in [revision : Nat, code : SUBSET Made']
      /\ copy \in [Tabs -> SUBSET Made'] /\ queue \in [Tabs -> SUBSET Made'] /\ saved \in [Users -> SUBSET Made']
      /\ known \in [Tabs -> [revision : Nat, edits : SUBSET Made']]
      /\ late \subseteq SUBSET Made' /\ gone \subseteq Made'
  BY <1>2, TypesGrow
<1>4. StoreTyped'
  BY <1>1, <1>2, <1>3 DEF AllTyped, StoreTyped, Exists
<1>5. Users' = Users
  BY DEF Users
<1>6. PagesTyped'
  BY <1>1, <1>3, <1>5 DEF AllTyped, PagesTyped, pageVars
<1>7. writing' = [x \in Tabs |-> IF x = t THEN w ELSE writing[x]]
  BY DEF AllTyped, CallsTyped
<1>8. ASSUME NEW x \in Tabs PROVE WriteTyped(writing[x])'
  <2>1. CASE x = t
    <3>1. writing'[x] = w
      BY <1>7, <2>1
    <3>2. w \in [base : Nat, code : SUBSET Made', own : BOOLEAN, revision : Nat \cup {Unread},
                 edits : SUBSET Made', text : SUBSET Made']
      OBVIOUS
    <3> QED BY <3>1, <3>2 DEF WriteTyped, Unread
  <2>2. CASE x # t
    BY <1>1, <1>2, <1>7, <2>2, CallsGrow DEF AllTyped, CallsTyped
  <2> QED BY <2>1, <2>2
<1>9. call' = [x \in Tabs |-> call'[x]] /\ \A x \in Tabs : CallTyped(call[x])'
  BY <1>1, <1>2, CallsGrow DEF AllTyped
<1>10. CallsTyped'
  BY <1>7, <1>8, <1>9 DEF CallsTyped
<1> QED BY <1>4, <1>6, <1>10 DEF AllTyped

(* A posted write is answered or posted again, reads, or writes what it read *)
(* while the document is still that.                                         *)
WriteStep(t) ==
  /\ UNCHANGED <<document, aged, purges, completed, deps, pageVars, call, late, gone, frail, outlived>>
  /\ writing[t] # NotWriting
  /\ \E w : /\ writing' = [writing EXCEPT ![t] = w] /\ WriteTyped(w)
            /\ \/ w = NotWriting
               \/ w.code = writing[t].code /\ w.revision = Unread /\ w.text = {}
               \/ /\ w.code = writing[t].code /\ w.revision = document.revision /\ w.edits = document.edits
                  /\ w.text = IF ~Exists THEN writing[t].code ELSE IF aged THEN {} ELSE Shown(document.edits)
  /\ \/ snapshot' = snapshot
     \/ /\ writing[t].revision # Unread
        /\ document.revision = writing[t].revision /\ document.edits = writing[t].edits
        /\ snapshot' = [revision |-> snapshot.revision + 1, code |-> writing[t].text]

LEMMA StepsOfWrites ==
  ASSUME AllTyped, NEW t \in Tabs, ReadWorkspace(t) \/ WriteWorkspace(t) PROVE WriteStep(t)
<1> DEFINE w == writing[t]
<1>1. w # NotWriting /\ WriteTyped(w) /\ snapshot.revision \in Nat
  BY DEF ReadWorkspace, WriteWorkspace, AllTyped, CallsTyped, StoreTyped
<1>2. w \in [base : Nat, code : SUBSET Made, own : BOOLEAN, revision : Nat \cup {Unread},
             edits : SUBSET Made, text : SUBSET Made]
  BY <1>1 DEF WriteTyped
<1>3. WriteTyped(NotWriting)
  BY DEF WriteTyped
<1> HIDE DEF w
<1>4. ASSUME NEW b \in Nat
      PROVE  LET v == [w EXCEPT !.base = b, !.revision = Unread, !.edits = {}, !.text = {}]
             IN WriteTyped(v) /\ v.code = w.code /\ v.revision = Unread /\ v.text = {}
  BY <1>2 DEF WriteTyped
<1>5. LET v == [w EXCEPT !.revision = Unread, !.edits = {}, !.text = {}]
      IN WriteTyped(v) /\ v.code = w.code /\ v.revision = Unread /\ v.text = {}
  BY <1>2 DEF WriteTyped
<1>6. ASSUME Conflict(t)
      PROVE  \E v : /\ writing' = [writing EXCEPT ![t] = v] /\ WriteTyped(v)
                    /\ v = NotWriting \/ (v.code = w.code /\ v.revision = Unread /\ v.text = {})
  <2>1. \/ writing' = [writing EXCEPT ![t] = NotWriting]
        \/ writing' = [writing EXCEPT ![t] = [w EXCEPT !.base = snapshot.revision, !.revision = Unread,
                                                      !.edits = {}, !.text = {}]]
    BY <1>6 DEF Conflict, w
  <2> QED BY <1>1, <1>3, <1>4, <2>1
<1>7. CASE ReadWorkspace(t)
  <2>1. UNCHANGED <<serverVars, completed, deps, pageVars, call, late>>
    BY <1>7 DEF ReadWorkspace
  <2>2. CASE w.base # snapshot.revision
    <3>1. Conflict(t)
      BY <1>7, <2>2 DEF ReadWorkspace, w
    <3> QED BY <1>1, <1>6, <2>1, <3>1 DEF WriteStep, serverVars, w
  <2>3. CASE w.base = snapshot.revision
    <3> DEFINE text == IF ~Exists THEN w.code ELSE IF aged THEN {} ELSE Shown(document.edits)
    <3> DEFINE v == [w EXCEPT !.revision = document.revision, !.edits = document.edits, !.text = text]
    <3>1. writing' = [writing EXCEPT ![t] = v]
      BY <1>7, <2>3 DEF ReadWorkspace, w
    <3>2. document.revision \in Nat /\ document.edits \in SUBSET Made
      BY DEF AllTyped, StoreTyped
    <3>3. text \in SUBSET Made
      BY <1>2, <3>2, ShownSome
    <3> HIDE DEF text
    <3>4. /\ v \in [base : Nat, code : SUBSET Made, own : BOOLEAN, revision : Nat \cup {Unread},
                     edits : SUBSET Made, text : SUBSET Made]
          /\ v.code = w.code /\ v.revision = document.revision /\ v.edits = document.edits /\ v.text = text
      BY <1>2, <3>2, <3>3
    <3> HIDE DEF v
    <3>5. WriteTyped(v)
      BY <3>4 DEF WriteTyped
    <3>6. /\ v.code = w.code /\ v.revision = document.revision /\ v.edits = document.edits
          /\ v.text = IF ~Exists THEN w.code ELSE IF aged THEN {} ELSE Shown(document.edits)
      BY <3>4 DEF text
    <3> QED BY <1>1, <2>1, <3>1, <3>5, <3>6 DEF WriteStep, serverVars, w
  <2> QED BY <2>2, <2>3
<1>8. CASE WriteWorkspace(t)
  <2>1. UNCHANGED <<document, aged, purges, completed, deps, pageVars, call, late, gone, frail, outlived>>
    BY <1>8 DEF WriteWorkspace
  <2>2. CASE /\ DocumentGuard(w) /\ snapshot' = [revision |-> snapshot.revision + 1, code |-> w.text]
             /\ writing' = [writing EXCEPT ![t] = NotWriting]
    <3>1. document.revision = w.revision /\ document.edits = w.edits /\ w.revision # Unread
      BY <1>8, <2>2 DEF DocumentGuard, WriteWorkspace, w
    <3> QED BY <1>1, <1>3, <2>1, <2>2, <3>1 DEF WriteStep, w
  <2>3. CASE Conflict(t) /\ UNCHANGED snapshot
    BY <1>1, <1>6, <2>1, <2>3 DEF WriteStep, w
  <2>4. CASE /\ writing' = [writing EXCEPT ![t] = [w EXCEPT !.revision = Unread, !.edits = {}, !.text = {}]]
             /\ UNCHANGED snapshot
    BY <1>1, <1>5, <2>1, <2>4 DEF WriteStep, w
  <2> QED BY <1>8, <2>2, <2>3, <2>4 DEF WriteWorkspace, w
<1> QED BY <1>7, <1>8

LEMMA WriteStepTyped ==
  ASSUME AllTyped, NEW t \in Tabs, WriteStep(t) PROVE AllTyped'
<1> PICK w : writing' = [writing EXCEPT ![t] = w] /\ WriteTyped(w)
  BY DEF WriteStep
<1>1. /\ UNCHANGED <<document, aged, purges, completed, deps, pageVars, call, late, gone, frail, outlived>>
      /\ writing[t] # NotWriting
  BY DEF WriteStep
<1>2. writing' = [x \in Tabs |-> IF x = t THEN w ELSE writing[x]] /\ Made' = Made
  BY <1>1 DEF AllTyped, CallsTyped, Made
<1>3. /\ snapshot' \in [revision : Nat, code : SUBSET Made]
      /\ snapshot'.revision = 0 => snapshot'.code = {}
  <2>1. /\ snapshot \in [revision : Nat, code : SUBSET Made] /\ WriteTyped(writing[t])
        /\ snapshot.revision = 0 => snapshot.code = {}
    BY DEF AllTyped, StoreTyped, CallsTyped
  <2>2. writing[t].text \in SUBSET Made
    BY <1>1, <2>1 DEF WriteTyped
  <2>3. CASE snapshot' = snapshot
    BY <2>1, <2>3
  <2>4. CASE snapshot' = [revision |-> snapshot.revision + 1, code |-> writing[t].text]
    BY <2>1, <2>2, <2>4
  <2> QED BY <2>3, <2>4 DEF WriteStep
<1>4. StoreTyped'
  BY <1>1, <1>2, <1>3 DEF AllTyped, StoreTyped, Exists
<1>5. PagesTyped'
  BY <1>1, <1>2 DEF AllTyped, PagesTyped, pageVars, Users
<1>6. ASSUME NEW x \in Tabs PROVE CallTyped(call[x])'
  BY <1>1, <1>2 DEF AllTyped, CallsTyped, CallTyped, AnswerTyped
<1>7. ASSUME NEW x \in Tabs PROVE WriteTyped(writing[x])'
  BY <1>2 DEF AllTyped, CallsTyped, WriteTyped
<1>8. CallsTyped'
  BY <1>1, <1>2, <1>6, <1>7 DEF AllTyped, CallsTyped
<1> QED BY <1>4, <1>5, <1>8 DEF AllTyped

LEMMA OtherTyped ==
  ASSUME DocumentConstants, AllTyped, Age \/ Complete \/ UNCHANGED vars PROVE AllTyped'
<1>1. UNCHANGED <<document, purges, snapshot, deps, pageVars, call, late, writing, gone, frail, outlived>> /\ Made' = Made
  BY DEF Age, Complete, vars, serverVars, pageVars, Made
<1>2. \/ aged' = aged /\ completed' \in BOOLEAN
      \/ completed' = completed /\ aged' = TRUE /\ Exists /\ purges < MaxPurges
  BY DEF Age, Complete, vars, serverVars, AllTyped, StoreTyped
<1>3. StoreTyped'
  <2>1. UNCHANGED <<document, purges, snapshot, deps, gone, frail>> /\ (Exists' <=> Exists)
    BY <1>1 DEF Exists
  <2>2. StoreTyped
    BY DEF AllTyped
  <2>3. CASE aged' = aged /\ completed' \in BOOLEAN
    BY <1>1, <2>1, <2>2, <2>3 DEF StoreTyped
  <2>4. CASE completed' = completed /\ aged' = TRUE /\ Exists /\ purges < MaxPurges
    BY <1>1, <2>1, <2>2, <2>4 DEF StoreTyped
  <2> QED BY <1>2, <2>3, <2>4
<1>4. PagesTyped'
  BY <1>1 DEF AllTyped, PagesTyped, pageVars, Users
<1>5. CallsTyped'
  BY <1>1, CallsSame DEF AllTyped, CallsTyped
<1> QED BY <1>3, <1>4, <1>5 DEF AllTyped

LEMMA DocumentTypes == ASSUME DocumentConstants, AllTyped, [Next]_vars PROVE AllTyped'
BY HandleTyped, PageSteps, TypeTyped, PostsOne, PostedTyped, StepsOfWrites, WriteStepTyped, OtherTyped DEF Next

LEMMA DocumentStarts == ASSUME DocumentConstants, Init PROVE AllTyped
<1>1. Made = {} /\ deps = <<>> /\ deps \in Seq(SUBSET Made) /\ Len(deps) = 0
  BY EmptySeq DEF Init, Made
<1>2. MaxEdits \in Nat /\ MaxPurges \in Nat
  BY DEF DocumentConstants
<1>3. NoDoc \in [revision : Nat, edits : SUBSET Made] /\ NoCode \in [revision : Nat, code : SUBSET Made]
  BY DEF NoDoc, NoCode
<1>4. StoreTyped
  <2>1. NoDoc.edits = {} /\ NoCode.code = {}
    BY DEF NoDoc, NoCode
  <2>2. document = NoDoc /\ aged = FALSE /\ purges = 0 /\ snapshot = NoCode /\ completed = FALSE /\ gone = {} /\ frail = {}
    BY DEF Init
  <2>3. Len(deps) <= MaxEdits /\ purges \in 0..MaxPurges
    BY <1>1, <1>2, <2>2
  <2> QED BY <1>1, <1>3, <2>1, <2>2, <2>3 DEF StoreTyped
<1>5. PagesTyped
  BY <1>3 DEF Init, PagesTyped
<1>6. CallsTyped
  BY NoCallTyped DEF Init, CallsTyped, WriteTyped
<1> QED BY <1>4, <1>5, <1>6 DEF AllTyped

(* What becomes of the edits in a rewritten document.                        *)
LEMMA RewriteKeeps ==
  ASSUME StoreTyped, NEW update \in SUBSET Made, Recast(update)
  PROVE  /\ document.edits \cup gone \subseteq document'.edits \cup gone'
         /\ frail \subseteq frail' \cup document'.edits
         /\ update \subseteq document'.edits
<1>1. /\ document.edits \in SUBSET Made /\ document.revision \in Nat
      /\ document.revision = 0 => document.edits = {}
  BY DEF StoreTyped
<1>2. /\ ~Expired => Present = IF Exists THEN document ELSE [revision |-> 1, edits |-> snapshot.code]
      /\ Expired => Present = [revision |-> 1, edits |-> {}]
  BY PresentTyped
<1>3. gone' = (IF Expired THEN gone \cup document.edits ELSE gone) /\ frail' = frail \ document'.edits
  BY DEF Recast, Forget
<1>4. Expired => Exists
  BY DEF Expired
<1>5. document.edits \cup gone \subseteq Present.edits \cup gone'
  BY <1>1, <1>2, <1>3, <1>4 DEF Exists
<1>6. CASE document' = NoDoc /\ Expired /\ update = {}
  BY <1>3, <1>6
<1>7. CASE document' = Present /\ update \subseteq Present.edits
  BY <1>3, <1>5, <1>7
<1>8. CASE document' = [revision |-> Present.revision + 1, edits |-> Present.edits \cup update]
  <2>1. document'.edits = Present.edits \cup update
    BY <1>8
  <2> QED BY <1>3, <1>5, <2>1
<1> QED BY <1>6, <1>7, <1>8 DEF Recast

(* ------------------------- Edits are not lost ---------------------------- *)

(* Of an account with one page, what is in memory is what is stored.         *)
Queues == \A t \in Tabs : Sole(t) => queue[t] = {} \/ queue[t] = saved[OwnerOf[t]]

LEMMA WhatWaits ==
  ASSUME Queues, NEW t \in Tabs, Sole(t) PROVE ReadQueue(t) = saved[OwnerOf[t]]
BY DEF Queues, ReadQueue

LEMMA OthersQueues ==
  ASSUME NEW t \in Tabs, NEW x \in Tabs, x # t, Sole(x) PROVE OwnerOf[x] # OwnerOf[t]
BY DEF Sole

(* How a queue changes: to a new value in both places, by being taken into   *)
(* memory or out of it, by being dropped from the storage, or not.           *)
LEMMA QueueEffect ==
  ASSUME [Next]_vars
  PROVE  \/ \E t \in Tabs : \E q : WriteQueue(t, q)
         \/ \E t \in Tabs : \E q : /\ q \in {ReadQueue(t), queue[t], {}}
                               /\ queue' = [queue EXCEPT ![t] = q] /\ UNCHANGED saved
         \/ \E t \in Tabs : queue[t] = {} /\ UNCHANGED queue /\ saved' = [saved EXCEPT ![OwnerOf[t]] = {}]
         \/ UNCHANGED <<queue, saved>>
<1>1. ASSUME NEW t \in Tabs, Drained(t) \/ Finish(t) \/ Type(t) \/ SignOut(t) PROVE \E q : WriteQueue(t, q)
  BY <1>1 DEF Drained, Finish, CompleteIdentity, Type, SignOut
<1>2. ASSUME NEW t \in Tabs, Drain(t) \/ Receive(t)
      PROVE  \/ queue' = [queue EXCEPT ![t] = ReadQueue(t)] /\ UNCHANGED saved
             \/ UNCHANGED <<queue, saved>>
  BY <1>2 DEF Drain, Receive
<1>3. ASSUME NEW t \in Tabs, Leave(t)
      PROVE  \E q \in {queue[t], {}} : queue' = [queue EXCEPT ![t] = q] /\ UNCHANGED saved
  BY <1>3 DEF Leave
<1>4. ASSUME NEW t \in Tabs, Lapse(t)
      PROVE  queue[t] = {} /\ UNCHANGED queue /\ saved' = [saved EXCEPT ![OwnerOf[t]] = {}]
  BY <1>4 DEF Lapse
<1>5. ASSUME NEW t \in Tabs,
             Handle(t) \/ Open(t) \/ Ask(t) \/ PostWorkspace(t) \/ ReadWorkspace(t) \/ WriteWorkspace(t)
      PROVE  UNCHANGED <<queue, saved>>
  BY <1>5 DEF Handle, Open, Ask, PostWorkspace, ReadWorkspace, WriteWorkspace, pageVars
<1>6. HandleLate \/ Purge \/ Age \/ Complete \/ UNCHANGED vars => UNCHANGED <<queue, saved>>
  BY DEF HandleLate, Purge, Age, Complete, vars, pageVars
<1> QED BY <1>1, <1>2, <1>3, <1>4, <1>5, <1>6 DEF Next

LEMMA QueuesKept ==
  ASSUME AllTyped, Queues, [Next]_vars PROVE Queues'
<1>1. queue \in [Tabs -> SUBSET Made] /\ saved \in [Users -> SUBSET Made] /\ \A t \in Tabs : OwnerOf[t] \in Users
  BY DEF AllTyped, PagesTyped, Users
<1>2. ASSUME NEW t \in Tabs, NEW q, WriteQueue(t, q) PROVE Queues'
  <2>1. \A x \in Tabs : queue'[x] = IF x = t THEN q ELSE queue[x]
    BY <1>1, <1>2 DEF WriteQueue
  <2>2. \A u \in Users : saved'[u] = IF u = OwnerOf[t] THEN q ELSE saved[u]
    BY <1>1, <1>2 DEF WriteQueue
  <2> QED BY <1>1, <2>1, <2>2, OthersQueues DEF Queues, Sole
<1>3. ASSUME NEW t \in Tabs, NEW q, q \in {ReadQueue(t), queue[t], {}},
             queue' = [queue EXCEPT ![t] = q], UNCHANGED saved
      PROVE  Queues'
  <2>1. Sole(t) => q \in {saved[OwnerOf[t]], {}}
    BY <1>3, WhatWaits DEF Queues
  <2> QED BY <1>1, <1>3, <2>1 DEF Queues, Sole
<1>4. ASSUME NEW t \in Tabs, queue[t] = {}, UNCHANGED queue, saved' = [saved EXCEPT ![OwnerOf[t]] = {}]
      PROVE  Queues'
  <2>1. ASSUME NEW x \in Tabs, Sole(x) PROVE queue'[x] = {} \/ queue'[x] = saved'[OwnerOf[x]]
    <3>1. CASE x = t
      BY <1>4, <3>1
    <3>2. CASE x # t
      <4>1. OwnerOf[x] # OwnerOf[t]
        BY <2>1, <3>2, OthersQueues
      <4> QED BY <1>1, <1>4, <2>1, <4>1 DEF Queues
    <3> QED BY <3>1, <3>2
  <2> QED BY <2>1 DEF Queues, Sole
<1>5. UNCHANGED <<queue, saved>> => Queues'
  BY DEF Queues, Sole
<1> QED BY <1>2, <1>3, <1>4, <1>5, QueueEffect

Idled == \A t \in Tabs :
  /\ page[t] # "open" => known[t] = NoDoc /\ call[t].kind \notin {"post", "posted"}
  /\ page[t] \in {"closed", "done"} => call[t] = NoCall

(* How pages, what they know and their calls change.                         *)
LEMMA IdleKept == ASSUME AllTyped, Idled, [Next]_vars PROVE Idled'
<1>1. /\ page \in [Tabs -> {"closed", "hydrating", "open", "done"}]
      /\ known \in [Tabs -> [revision : Nat, edits : SUBSET Made]] /\ call = [x \in Tabs |-> call[x]]
  BY DEF AllTyped, PagesTyped, CallsTyped
<1>2. NoCall.kind = "none"
  BY DEF NoCall
<1>3. ASSUME NEW t \in Tabs, \A x \in Tabs \ {t} : UNCHANGED <<page[x], known[x], call[x]>>,
             /\ page'[t] # "open" => known'[t] = NoDoc /\ call'[t].kind \notin {"post", "posted"}
             /\ page'[t] \in {"closed", "done"} => call'[t] = NoCall
      PROVE  Idled'
  BY <1>3 DEF Idled
<1>4. ASSUME NEW t \in Tabs, Handle(t) PROVE Idled'
  <2>1. UNCHANGED <<page, known>> /\ call[t].kind \in {"get", "post"}
    BY <1>4 DEF Handle, pageVars
  <2>2. \/ call' = [call EXCEPT ![t] = NoCall]
        \/ call[t].kind = "get" /\ \E after : call' = [call EXCEPT ![t] = Answer(after)]
        \/ call[t].kind = "post" /\ \E c : c.kind = "posted" /\ call' = [call EXCEPT ![t] = c]
    BY <1>4 DEF Handle
  <2>3. \A after : Answer(after).kind = "answer"
    BY DEF Answer
  <2>4. page[t] \notin {"closed", "done"}
    BY <1>2, <2>1 DEF Idled
  <2>5. call[t].kind = "post" => page[t] = "open"
    BY DEF Idled
  <2> QED BY <1>1, <1>2, <1>3, <2>1, <2>2, <2>3, <2>4, <2>5 DEF Idled
<1>5. ASSUME NEW t \in Tabs, Open(t) PROVE Idled'
  <2>1. page[t] = "closed" /\ page' = [page EXCEPT ![t] = "hydrating"] /\ UNCHANGED <<known, call>>
    BY <1>5 DEF Open
  <2> QED BY <1>1, <1>3, <2>1 DEF Idled
<1>6. ASSUME NEW t \in Tabs, Ask(t) PROVE Idled'
  <2>1. /\ page[t] \in {"hydrating", "open"} /\ UNCHANGED <<page, known>>
        /\ \E c : c.kind = "get" /\ call' = [call EXCEPT ![t] = c]
    BY <1>6 DEF Ask, pageVars
  <2> QED BY <1>1, <1>3, <2>1 DEF Idled
<1>7. ASSUME NEW t \in Tabs, Drain(t) PROVE Idled'
  <2>1. page[t] = "open" /\ UNCHANGED <<page, known>> /\ \E c : call' = [call EXCEPT ![t] = c]
    BY <1>7 DEF Drain
  <2> QED BY <1>1, <1>3, <2>1 DEF Idled
<1>8. ASSUME NEW t \in Tabs, Receive(t) PROVE Idled'
  <2>1. /\ page' = [page EXCEPT ![t] = "open"] /\ call' = [call EXCEPT ![t] = NoCall]
        /\ \E k : known' = [known EXCEPT ![t] = k]
    BY <1>8 DEF Receive, Accept
  <2> QED BY <1>1, <1>3, <2>1
<1>9. ASSUME NEW t \in Tabs, Drained(t) PROVE Idled'
  <2>1. /\ call[t].kind = "posted" /\ UNCHANGED page /\ call' = [call EXCEPT ![t] = NoCall]
        /\ \E k : known' = [known EXCEPT ![t] = k]
    BY <1>9 DEF Drained, Accept
  <2>2. page[t] = "open"
    BY <2>1 DEF Idled
  <2> QED BY <1>1, <1>3, <2>1, <2>2
<1>10. ASSUME NEW t \in Tabs, Finish(t) \/ Leave(t) \/ SignOut(t) PROVE Idled'
  <2>1. /\ call' = [call EXCEPT ![t] = NoCall] /\ known' = [known EXCEPT ![t] = NoDoc]
        /\ \E next : page' = [page EXCEPT ![t] = next]
    BY <1>10 DEF Finish, CompleteIdentity, Leave, SignOut, Disposed
  <2> QED BY <1>1, <1>2, <1>3, <2>1
<1>11. UNCHANGED <<page, known, call>> => Idled'
  BY DEF Idled
<1>12. ASSUME NEW t \in Tabs, Type(t) \/ PostWorkspace(t) \/ ReadWorkspace(t) \/ WriteWorkspace(t) \/ Lapse(t)
       PROVE  Idled'
  BY <1>11, <1>12 DEF Type, PostWorkspace, ReadWorkspace, WriteWorkspace, Lapse, pageVars
<1>13. HandleLate \/ Purge \/ Age \/ Complete \/ UNCHANGED vars => Idled'
  BY <1>11 DEF HandleLate, Purge, Age, Complete, vars, pageVars
<1> QED BY <1>4, <1>5, <1>6, <1>7, <1>8, <1>9, <1>10, <1>12, <1>13 DEF Next

(* Where an edit is, unless nothing promises to keep it.                     *)
Stored(e) ==
  \/ e \in document.edits \cup gone \cup frail
  \/ \E t \in Tabs : Sole(t) /\ e \in saved[OwnerOf[t]]

EditsKept ==
  /\ \A e \in Made : Stored(e)
  /\ \A t \in Tabs : call[t].kind = "posted" /\ call[t].answer.kind = "answer" =>
       call[t].update \subseteq document.edits \cup gone

LEMMA Carried ==
  ASSUME EditsKept, Made' \subseteq Made \cup frail',
         document.edits \cup gone \subseteq document'.edits \cup gone',
         frail \subseteq frail' \cup document'.edits,
         \A t \in Tabs : Sole(t) => saved[OwnerOf[t]] \subseteq saved'[OwnerOf[t]] \cup document'.edits \cup gone',
         \A t \in Tabs : call'[t].kind = "posted" /\ call'[t].answer.kind = "answer" =>
           call'[t] = call[t] \/ call'[t].update \subseteq document'.edits
  PROVE  EditsKept'
<1>1. ASSUME NEW e \in Made' PROVE Stored(e)'
  <2>1. CASE e \in frail'
    BY <2>1 DEF Stored
  <2>2. CASE e \in Made
    <3>1. Stored(e)
      BY <2>2 DEF EditsKept
    <3>2. CASE e \in document.edits \cup gone \cup frail
      BY <3>2 DEF Stored
    <3>3. CASE \E t \in Tabs : Sole(t) /\ e \in saved[OwnerOf[t]]
      BY <3>3 DEF Stored, Sole
    <3> QED BY <3>1, <3>2, <3>3 DEF Stored
  <2> QED BY <2>1, <2>2
<1>2. ASSUME NEW t \in Tabs, call'[t].kind = "posted" /\ call'[t].answer.kind = "answer"
      PROVE  call'[t].update \subseteq document'.edits \cup gone'
  BY <1>2 DEF EditsKept
<1> QED BY <1>1, <1>2 DEF EditsKept

(* An answer to a call, and what it says.                                    *)
LEMMA HandleCalls ==
  ASSUME AllTyped, NEW t \in Tabs, Handle(t)
  PROVE  \E c : /\ call' = [call EXCEPT ![t] = c]
                /\ \/ c = NoCall
                   \/ /\ call[t].kind = "get" /\ c = Answer(call[t].after)
                   \/ /\ call[t].kind = "post" /\ c.kind = "posted" /\ c.update = call[t].update
                      /\ c.answer = IF completed THEN [kind |-> "completed"] ELSE Answer(0)
                /\ \/ call[t].kind = "get" /\ (Recast({}) \/ (call[t].after > 0 /\ UNCHANGED serverVars))
                   \/ call[t].kind = "post" /\ ~completed /\ Recast(call[t].update)
                   \/ call[t].kind = "post" /\ completed /\ UNCHANGED serverVars
<1>1. completed \in BOOLEAN /\ StoreTyped /\ CallTyped(call[t])
  BY DEF AllTyped, StoreTyped, CallsTyped
<1>2. deps' = deps
  BY DEF Handle
<1>3. CASE call[t].kind = "get"
  <2>1. Recast({}) \/ (call[t].after > 0 /\ UNCHANGED serverVars)
    BY <1>1, <1>3, GotRewrites DEF Handle
  <2>2. \E c \in {Answer(call[t].after), NoCall} : call' = [call EXCEPT ![t] = c]
    BY <1>3 DEF Handle
  <2> QED BY <1>3, <2>1, <2>2
<1>4. CASE call[t].kind = "post"
  <2>1. call[t].update \in SUBSET Made
    BY <1>1, <1>4 DEF CallTyped
  <2>2. IF completed THEN Terminal ELSE Merged(call[t].update)
    BY <1>4 DEF Handle
  <2>3. ~completed => Recast(call[t].update)
    BY <1>1, <1>2, <2>1, <2>2, MergedRewrites
  <2>4. completed => UNCHANGED serverVars
    BY <2>2 DEF Terminal, serverVars
  <2> DEFINE posted == [kind |-> "posted", update |-> call[t].update,
                         answer |-> IF completed THEN [kind |-> "completed"] ELSE Answer(0)]
  <2>5. \E c \in {posted, NoCall} : call' = [call EXCEPT ![t] = c]
    BY <1>4 DEF Handle
  <2>6. /\ posted.kind = "posted" /\ posted.update = call[t].update
        /\ posted.answer = IF completed THEN [kind |-> "completed"] ELSE Answer(0)
    OBVIOUS
  <2> HIDE DEF posted
  <2> QED BY <1>1, <1>4, <2>3, <2>4, <2>5, <2>6
<1> QED BY <1>3, <1>4 DEF Handle

LEMMA ServerKeeps ==
  ASSUME AllTyped, EditsKept, NEW update \in SUBSET Made, Recast(update), UNCHANGED <<deps, saved>>,
         \A t \in Tabs : call'[t].kind = "posted" /\ call'[t].answer.kind = "answer" =>
           call'[t] = call[t] \/ call'[t].update \subseteq document'.edits
  PROVE  EditsKept'
<1>1. /\ document.edits \cup gone \subseteq document'.edits \cup gone'
      /\ frail \subseteq frail' \cup document'.edits
  BY RewriteKeeps DEF AllTyped
<1>2. Made' = Made
  BY DEF Made
<1> QED BY <1>1, <1>2, Carried

(* Steps after which the server holds what it held.                          *)
LEMMA ServerStill ==
  ASSUME EditsKept, UNCHANGED document, gone \subseteq gone', frail \subseteq frail', Made' \subseteq Made \cup frail',
         \A t \in Tabs : Sole(t) => saved[OwnerOf[t]] \subseteq saved'[OwnerOf[t]] \cup document.edits \cup gone',
         \A t \in Tabs : call'[t].kind = "posted" => call'[t] = call[t]
  PROVE  EditsKept'
BY Carried

LEMMA HandledKept ==
  ASSUME AllTyped, EditsKept, (\E t \in Tabs : Handle(t)) \/ HandleLate \/ Purge PROVE EditsKept'
<1>1. ASSUME NEW t \in Tabs, Handle(t) PROVE EditsKept'
  <2>1. UNCHANGED <<deps, saved>> /\ Made' = Made
    BY <1>1 DEF Handle, pageVars, Made
  <2> PICK c : /\ call' = [call EXCEPT ![t] = c]
                /\ \/ c = NoCall
                   \/ /\ call[t].kind = "get" /\ c = Answer(call[t].after)
                   \/ /\ call[t].kind = "post" /\ c.kind = "posted" /\ c.update = call[t].update
                      /\ c.answer = IF completed THEN [kind |-> "completed"] ELSE Answer(0)
                /\ \/ call[t].kind = "get" /\ (Recast({}) \/ (call[t].after > 0 /\ UNCHANGED serverVars))
                   \/ call[t].kind = "post" /\ ~completed /\ Recast(call[t].update)
                   \/ call[t].kind = "post" /\ completed /\ UNCHANGED serverVars
    BY <1>1, HandleCalls
  <2>2. \A x \in Tabs : call'[x] = IF x = t THEN c ELSE call[x]
    BY DEF AllTyped, CallsTyped
  <2>3. NoCall.kind = "none" /\ \A after : Answer(after).kind = "answer"
    BY DEF NoCall, Answer
  <2>4. completed \in BOOLEAN /\ CallTyped(call[t])
    BY DEF AllTyped, StoreTyped, CallsTyped
  <2>5. CASE UNCHANGED serverVars /\ (completed \/ call[t].kind = "get")
    <3>1. UNCHANGED <<document, gone, frail>>
      BY <2>5 DEF serverVars
    <3>2. \A x \in Tabs : call'[x].kind = "posted" /\ call'[x].answer.kind = "answer" => call'[x] = call[x]
      BY <2>2, <2>3, <2>4, <2>5
    <3> QED BY <2>1, <3>1, <3>2, ServerStill, Carried
  <2>6. CASE call[t].kind = "get" /\ Recast({})
    <3>1. \A x \in Tabs : call'[x].kind = "posted" /\ call'[x].answer.kind = "answer" => call'[x] = call[x]
      BY <2>2, <2>3, <2>6
    <3>2. {} \in SUBSET Made
      OBVIOUS
    <3> QED BY <2>1, <2>6, <3>1, <3>2, ServerKeeps
  <2>7. CASE call[t].kind = "post" /\ ~completed /\ Recast(call[t].update)
    <3>1. call[t].update \in SUBSET Made
      BY <2>4, <2>7 DEF CallTyped
    <3>2. call[t].update \subseteq document'.edits
      BY <2>7, <3>1, RewriteKeeps DEF AllTyped
    <3>3. \A x \in Tabs : call'[x].kind = "posted" /\ call'[x].answer.kind = "answer" =>
            call'[x] = call[x] \/ call'[x].update \subseteq document'.edits
      BY <2>2, <2>3, <2>7, <3>2
    <3> QED BY <2>1, <2>7, <3>1, <3>3, ServerKeeps
  <2> QED BY <2>5, <2>6, <2>7
<1>2. CASE HandleLate
  <2>1. UNCHANGED <<deps, saved, call>> /\ Made' = Made
    BY <1>2, LateEffect DEF pageVars, Made
  <2>2. CASE UNCHANGED serverVars
    <3>1. UNCHANGED <<document, gone, frail>>
      BY <2>2 DEF serverVars
    <3> QED BY <2>1, <3>1, ServerStill
  <2>3. ASSUME NEW update \in late, Recast(update) PROVE EditsKept'
    <3>1. update \in SUBSET Made
      BY DEF AllTyped, PagesTyped
    <3> QED BY <2>1, <2>3, <3>1, ServerKeeps
  <2> QED BY <1>2, <2>2, <2>3, LateEffect
<1>3. CASE Purge
  <2>1. UNCHANGED <<deps, saved, call>> /\ Recast({}) /\ {} \in SUBSET Made
    BY <1>3, PurgeRewrites DEF Purge, pageVars, AllTyped
  <2> QED BY <2>1, ServerKeeps
<1> QED BY <1>1, <1>2, <1>3

LEMMA PagesKeep ==
  ASSUME AllTyped, Queues, EditsKept, NEW t \in Tabs,
         \/ Open(t) \/ Ask(t) \/ Drain(t) \/ Receive(t) \/ Drained(t) \/ Finish(t) \/ Leave(t)
         \/ SignOut(t) \/ Lapse(t)
  PROVE  EditsKept'
<1>1. /\ call = [x \in Tabs |-> call[x]] /\ CallTyped(call[t]) /\ saved \in [Users -> SUBSET Made]
      /\ \A x \in Tabs : OwnerOf[x] \in Users
  BY DEF AllTyped, CallsTyped, PagesTyped, Users
<1>2. NoCall.kind = "none" /\ (UNCHANGED deps => Made' \subseteq Made)
  BY DEF NoCall, Made
<1>3. CASE Open(t)
  <2>1. UNCHANGED <<document, deps, gone, frail, saved, call>>
    BY <1>3 DEF Open
  <2> QED BY <1>2, <2>1, ServerStill
<1>4. CASE Ask(t) \/ Drain(t) \/ Receive(t) \/ Leave(t)
  <2>1. /\ UNCHANGED <<document, deps, gone, frail, saved>>
        /\ \E c : c.kind # "posted" /\ call' = [call EXCEPT ![t] = c]
    BY <1>2, <1>4 DEF Ask, Drain, Receive, Leave, serverVars, pageVars
  <2>2. \A x \in Tabs : call'[x].kind = "posted" => call'[x] = call[x]
    BY <1>1, <2>1
  <2> QED BY <1>2, <2>1, <2>2, ServerStill
<1>5. CASE Drained(t)
  <2>1. /\ UNCHANGED <<document, deps, gone, frail>> /\ call' = [call EXCEPT ![t] = NoCall]
        /\ call[t].kind = "posted" /\ call[t].answer.kind = "answer"
        /\ saved' = [saved EXCEPT ![OwnerOf[t]] = Remaining(t, call[t].update)]
    BY <1>5 DEF Drained, WriteQueue, serverVars
  <2>2. \A x \in Tabs : call'[x].kind = "posted" => call'[x] = call[x]
    BY <1>1, <1>2, <2>1
  <2>3. call[t].update \subseteq document.edits \cup gone
    BY <2>1 DEF EditsKept
  <2>4. Sole(t) => saved[OwnerOf[t]] \subseteq Remaining(t, call[t].update) \cup document.edits \cup gone
    BY <2>3, WhatWaits DEF Remaining
  <2>5. ASSUME NEW x \in Tabs, Sole(x)
        PROVE  saved[OwnerOf[x]] \subseteq saved'[OwnerOf[x]] \cup document.edits \cup gone'
    BY <1>1, <2>1, <2>4, <2>5, OthersQueues
  <2> QED BY <1>2, <2>1, <2>2, <2>5, ServerStill
<1>6. CASE Finish(t) \/ SignOut(t) \/ Lapse(t)
  <2>1. /\ UNCHANGED <<document, deps, frail>> /\ (UNCHANGED call \/ call' = [call EXCEPT ![t] = NoCall])
        /\ gone \cup saved[OwnerOf[t]] \subseteq gone'
        /\ saved' = [saved EXCEPT ![OwnerOf[t]] = {}]
    BY <1>6 DEF Finish, CompleteIdentity, SignOut, Lapse, WriteQueue
  <2>2. \A x \in Tabs : call'[x].kind = "posted" => call'[x] = call[x]
    BY <1>1, <1>2, <2>1
  <2>3. \A u \in Users : saved[u] \subseteq saved'[u] \cup document.edits \cup gone'
    BY <1>1, <2>1
  <2> QED BY <1>1, <1>2, <2>1, <2>2, <2>3, ServerStill
<1> QED BY <1>3, <1>4, <1>5, <1>6

LEMMA TypedIsKept ==
  ASSUME AllTyped, Queues, EditsKept, NEW t \in Tabs, Type(t)
  PROVE  EditsKept'
<1> PICK n : n = Len(deps) + 1
  OBVIOUS
<1>1. /\ UNCHANGED <<document, gone, call>> /\ frail' = IF Sole(t) THEN frail ELSE frail \cup {n}
      /\ saved' = [saved EXCEPT ![OwnerOf[t]] = ReadQueue(t) \cup {n}]
      /\ deps' = Append(deps, Shown(copy[t]))
  BY DEF Type, WriteQueue
<1>2. Made' = Made \cup {n}
  <2>1. StoreTyped /\ copy[t] \in SUBSET Made
    BY DEF AllTyped, PagesTyped
  <2>2. Shown(copy[t]) \in SUBSET Made
    BY <2>1, ShownSome
  <2> QED BY <1>1, <2>1, <2>2, EditMade
<1>3. saved \in [Users -> SUBSET Made] /\ \A x \in Tabs : OwnerOf[x] \in Users
  BY DEF AllTyped, PagesTyped, Users
<1>4. ASSUME NEW x \in Tabs, Sole(x) PROVE saved[OwnerOf[x]] \subseteq saved'[OwnerOf[x]]
  <2>1. CASE x = t
    BY <1>1, <1>3, <1>4, <2>1, WhatWaits
  <2>2. CASE x # t
    BY <1>1, <1>3, <1>4, <2>2, OthersQueues
  <2> QED BY <2>1, <2>2
<1>5. Stored(n)'
  <2>1. n \in saved'[OwnerOf[t]]
    BY <1>1, <1>3
  <2>2. CASE Sole(t)
    BY <2>1, <2>2 DEF Stored, Sole
  <2>3. CASE ~Sole(t)
    BY <1>1, <2>3 DEF Stored
  <2> QED BY <2>2, <2>3
<1>6. ASSUME NEW e \in Made PROVE Stored(e)'
  <2>1. Stored(e)
    BY DEF EditsKept
  <2>2. CASE e \in document.edits \cup gone \cup frail
    BY <1>1, <2>2 DEF Stored
  <2>3. CASE \E x \in Tabs : Sole(x) /\ e \in saved[OwnerOf[x]]
    BY <1>4, <2>3 DEF Stored, Sole
  <2> QED BY <2>1, <2>2, <2>3 DEF Stored
<1> QED BY <1>1, <1>2, <1>5, <1>6 DEF EditsKept

LEMMA PostedIsKept ==
  ASSUME AllTyped, EditsKept, NEW t \in Tabs, PostWorkspace(t) PROVE EditsKept'
<1>1. /\ UNCHANGED <<document, gone, saved, call>> /\ frail \subseteq frail'
      /\ \/ UNCHANGED deps
         \/ deps' = Append(deps, snapshot.code) /\ frail' = frail \cup {Len(deps) + 1}
  BY DEF PostWorkspace, pageVars
<1>2. Made' \subseteq Made \cup frail'
  <2>1. CASE UNCHANGED deps
    BY <2>1 DEF Made
  <2>2. CASE deps' = Append(deps, snapshot.code) /\ frail' = frail \cup {Len(deps) + 1}
    BY <2>2, EditMade DEF AllTyped, StoreTyped
  <2> QED BY <1>1, <2>1, <2>2
<1> QED BY <1>1, <1>2, ServerStill

LEMMA EditsStay ==
  ASSUME AllTyped, Queues, EditsKept, [Next]_vars PROVE EditsKept'
<1>1. ASSUME Age \/ Complete \/ UNCHANGED vars \/ \E t \in Tabs : ReadWorkspace(t) \/ WriteWorkspace(t)
      PROVE  EditsKept'
  <2>1. UNCHANGED <<document, deps, gone, frail, saved, call>>
    BY <1>1 DEF Age, Complete, vars, ReadWorkspace, WriteWorkspace, serverVars, pageVars
  <2>2. Made' = Made
    BY <2>1 DEF Made
  <2> QED BY <2>1, <2>2, ServerStill
<1> QED BY <1>1, HandledKept, PagesKeep, TypedIsKept, PostedIsKept DEF Next

LEMMA KeptSurvive == ASSUME EditsKept PROVE EditsSurvive
BY DEF EditsKept, Stored, EditsSurvive, Users

(* ---------------------- A version is what it shows ----------------------- *)

(* Of two versions of one document the first is not the later one.           *)
Before(a, b) ==
  /\ a.revision <= b.revision /\ a.edits \subseteq b.edits
  /\ a.revision = b.revision => a.edits = b.edits

(* What a page knows, and what an answer on its way to it says, are versions *)
(* the document has had, in this order; its copy holds in addition no more   *)
(* than what its queue has in memory.                                        *)
PageAgrees(t) ==
  /\ Before(known[t], document)
  /\ call[t].kind = "get" => call[t].after = known[t].revision
  /\ call[t].kind = "answer" => /\ Before(known[t], call[t]) /\ Before(call[t], document)
                                /\ ~call[t].changed => call[t].revision = known[t].revision
  /\ call[t].kind = "posted" /\ call[t].answer.kind = "answer" =>
       /\ Before(known[t], call[t].answer) /\ Before(call[t].answer, document)
       /\ call[t].answer.changed /\ call[t].update \subseteq call[t].answer.edits
  /\ page[t] = "open" => /\ known[t].edits \subseteq copy[t]
                         /\ copy[t] \subseteq known[t].edits \cup queue[t]
Versions == \A t \in Tabs : page[t] \in {"open", "hydrating"} /\ t \notin outlived => PageAgrees(t)

LEMMA BeforeAfter ==
  ASSUME NEW a, NEW b, NEW c, a.revision \in Nat, b.revision \in Nat, c.revision \in Nat,
         Before(a, b), Before(b, c)
  PROVE  Before(a, c)
BY DEF Before

(* A document only grows, or goes and takes the open pages with it.          *)
LEMMA RewriteGrows ==
  ASSUME AllTyped, NEW update, Recast(update)
  PROVE  \A x \in Tabs : page[x] \in {"open", "hydrating"} =>
           x \in outlived' \/ (Before(document, document') /\ document'.revision > 0 /\ x \notin outlived)
<1>1. /\ document.revision \in Nat /\ (document.revision = 0 => document.edits = {})
      /\ outlived' = IF Expired THEN {t \in Tabs : page[t] \in {"open", "hydrating"}} ELSE outlived
  BY DEF AllTyped, StoreTyped, Recast, Forget
<1>2. CASE Expired
  BY <1>1, <1>2
<1>3. CASE ~Expired
  <2>1. /\ Present.revision \in Nat \ {0}
        /\ Present = IF Exists THEN document ELSE [revision |-> 1, edits |-> snapshot.code]
    BY <1>3, PresentTyped DEF AllTyped
  <2>2. Before(document, Present)
    BY <1>1, <2>1 DEF Before, Exists
  <2>3. document' = Present \/ document' = [revision |-> Present.revision + 1, edits |-> Present.edits \cup update]
    BY <1>3 DEF Recast
  <2>4. Before(document, document') /\ document'.revision > 0
    BY <1>1, <2>1, <2>2, <2>3 DEF Before
  <2> QED BY <1>1, <1>3, <2>4
<1> QED BY <1>2, <1>3

(* Pages that a step does not touch.                                         *)
LEMMA PageUntouched ==
  ASSUME AllTyped, AllTyped', Versions, NEW x \in Tabs, UNCHANGED <<page[x], copy[x], known[x], call[x], queue[x]>>,
         page[x] \in {"open", "hydrating"} => x \in outlived' \/ (Before(document, document') /\ x \notin outlived)
  PROVE  page'[x] \in {"open", "hydrating"} /\ x \notin outlived' => PageAgrees(x)'
<1> SUFFICES ASSUME page[x] \in {"open", "hydrating"}, x \notin outlived, Before(document, document')
             PROVE  PageAgrees(x)'
  OBVIOUS
<1>1. PageAgrees(x)
  BY DEF Versions
<1>2. document.revision \in Nat /\ document'.revision \in Nat /\ known[x].revision \in Nat /\ CallTyped(call[x])
  BY DEF AllTyped, StoreTyped, PagesTyped, CallsTyped
<1>3. Before(known[x], document')
  BY <1>1, <1>2, BeforeAfter DEF PageAgrees
<1>4. call[x].kind = "answer" => Before(call[x], document')
  BY <1>1, <1>2, BeforeAfter DEF PageAgrees, CallTyped, AnswerTyped
<1>5. call[x].kind = "posted" /\ call[x].answer.kind = "answer" => Before(call[x].answer, document')
  BY <1>1, <1>2, BeforeAfter DEF PageAgrees, CallTyped, AnswerTyped
<1>6. PageAgrees(x)' <=>
  /\ Before(known'[x], document')
  /\ call'[x].kind = "get" => call'[x].after = known'[x].revision
  /\ call'[x].kind = "answer" => /\ Before(known'[x], call'[x]) /\ Before(call'[x], document')
                                 /\ ~call'[x].changed => call'[x].revision = known'[x].revision
  /\ call'[x].kind = "posted" /\ call'[x].answer.kind = "answer" =>
       /\ Before(known'[x], call'[x].answer) /\ Before(call'[x].answer, document')
       /\ call'[x].answer.changed /\ call'[x].update \subseteq call'[x].answer.edits
  /\ page'[x] = "open" => /\ known'[x].edits \subseteq copy'[x]
                          /\ copy'[x] \subseteq known'[x].edits \cup queue'[x]
  BY DEF PageAgrees, Before
<1> QED BY <1>1, <1>3, <1>4, <1>5, <1>6 DEF PageAgrees

LEMMA HandleAgrees ==
  ASSUME AllTyped, AllTyped', Versions, NEW t \in Tabs, Handle(t) PROVE Versions'
<1>1. UNCHANGED <<page, copy, known, queue>> /\ call[t].kind \in {"get", "post"}
  BY DEF Handle, pageVars
<1> PICK c : /\ call' = [call EXCEPT ![t] = c]
             /\ \/ c = NoCall
                \/ /\ call[t].kind = "get" /\ c = Answer(call[t].after)
                \/ /\ call[t].kind = "post" /\ c.kind = "posted" /\ c.update = call[t].update
                   /\ c.answer = IF completed THEN [kind |-> "completed"] ELSE Answer(0)
             /\ \/ call[t].kind = "get" /\ (Recast({}) \/ (call[t].after > 0 /\ UNCHANGED serverVars))
                \/ call[t].kind = "post" /\ ~completed /\ Recast(call[t].update)
                \/ call[t].kind = "post" /\ completed /\ UNCHANGED serverVars
  BY HandleCalls
<1>2. \A x \in Tabs : call'[x] = IF x = t THEN c ELSE call[x]
  BY DEF AllTyped, CallsTyped
<1>3. CallTyped(call[t]) /\ document.revision \in Nat /\ document'.revision \in Nat /\ completed \in BOOLEAN
  BY DEF AllTyped, CallsTyped, StoreTyped
<1>4. ASSUME UNCHANGED serverVars
      PROVE  \A x \in Tabs : x \in outlived' \/ (Before(document, document') /\ x \notin outlived)
  BY <1>3, <1>4 DEF serverVars, Before
<1>5. \A x \in Tabs : page[x] \in {"open", "hydrating"} => x \in outlived' \/ (Before(document, document') /\ x \notin outlived)
  BY <1>4, RewriteGrows
<1>6. ASSUME NEW x \in Tabs, x # t
      PROVE  page'[x] \in {"open", "hydrating"} /\ x \notin outlived' => PageAgrees(x)'
  BY <1>1, <1>2, <1>5, <1>6, PageUntouched
<1>7. ASSUME page[t] \in {"open", "hydrating"}, t \notin outlived' PROVE PageAgrees(t)'
  <2>1. PageAgrees(t) /\ Before(document, document') /\ known[t].revision \in Nat
    BY <1>5, <1>7 DEF Versions, AllTyped, PagesTyped
  <2>2. Before(known[t], document') /\ Before(document', document')
    BY <1>3, <2>1, BeforeAfter DEF PageAgrees, Before
  <2>3. known'[t] = known[t] /\ copy'[t] = copy[t] /\ queue' = queue /\ page'[t] = page[t] /\ call'[t] = c
    BY <1>1, <1>2
  <2>4. PageAgrees(t)' <=>
          /\ Before(known[t], document')
          /\ c.kind = "get" => c.after = known[t].revision
          /\ c.kind = "answer" => /\ Before(known[t], c) /\ Before(c, document')
                                  /\ ~c.changed => c.revision = known[t].revision
          /\ c.kind = "posted" /\ c.answer.kind = "answer" =>
               /\ Before(known[t], c.answer) /\ Before(c.answer, document')
               /\ c.answer.changed /\ c.update \subseteq c.answer.edits
          /\ page[t] = "open" => /\ known[t].edits \subseteq copy[t]
                                 /\ copy[t] \subseteq known[t].edits \cup queue[t]
    BY <2>3 DEF PageAgrees, Before
  <2>5. page[t] = "open" => /\ known[t].edits \subseteq copy[t]
                            /\ copy[t] \subseteq known[t].edits \cup queue[t]
    BY <2>1 DEF PageAgrees
  <2>6. \A after : /\ Answer(after).kind = "answer" /\ Answer(after).revision = document'.revision
                   /\ Answer(after).edits = document'.edits
                   /\ Answer(after).changed <=> document'.revision # after
    BY DEF Answer
  <2>7. ASSUME NEW after PROVE Before(known[t], Answer(after)) /\ Before(Answer(after), document')
    BY <2>2, <2>6 DEF Before
  <2>8. CASE c = NoCall
    BY <2>2, <2>4, <2>5, <2>8 DEF NoCall
  <2>9. CASE call[t].kind = "get" /\ c = Answer(call[t].after)
    <3>1. call[t].after = known[t].revision
      BY <2>1, <2>9 DEF PageAgrees
    <3>2. c.kind = "answer" /\ Before(known[t], c) /\ Before(c, document')
      BY <2>6, <2>7, <2>9
    <3>3. ~c.changed => c.revision = known[t].revision
      BY <2>6, <2>9, <3>1
    <3> QED BY <2>2, <2>4, <2>5, <3>2, <3>3
  <2>10. CASE /\ call[t].kind = "post" /\ c.kind = "posted" /\ c.update = call[t].update
              /\ c.answer = IF completed THEN [kind |-> "completed"] ELSE Answer(0)
    <3>1. CASE completed
      BY <2>2, <2>4, <2>5, <2>10, <3>1
    <3>2. CASE ~completed
      <4>1. Recast(call[t].update) /\ c.answer = Answer(0) /\ call[t].update \in SUBSET Made
        BY <1>3, <2>10, <3>2 DEF CallTyped
      <4>2. document'.revision > 0
        BY <1>7, <4>1, RewriteGrows
      <4>3. call[t].update \subseteq document'.edits
        BY <4>1, RewriteKeeps DEF AllTyped
      <4>4. Before(known[t], c.answer) /\ Before(c.answer, document') /\ c.answer.changed
            /\ c.update \subseteq c.answer.edits
        BY <1>3, <2>6, <2>7, <2>10, <4>1, <4>2, <4>3
      <4> QED BY <2>2, <2>4, <2>5, <2>10, <4>4
    <3> QED BY <1>3, <3>1, <3>2
  <2> QED BY <2>8, <2>9, <2>10
<1> QED BY <1>1, <1>6, <1>7 DEF Versions

(* The steps that change the server alone, or nothing pages depend on.       *)
LEMMA AfarAgrees ==
  ASSUME AllTyped, AllTyped', Versions,
         \/ HandleLate \/ Purge \/ Age \/ Complete \/ UNCHANGED vars
         \/ \E t \in Tabs : Lapse(t) \/ PostWorkspace(t) \/ ReadWorkspace(t) \/ WriteWorkspace(t)
  PROVE  Versions'
<1>1. UNCHANGED <<page, copy, known, queue, call>>
  BY DEF HandleLate, Purge, Age, Complete, vars, Lapse, PostWorkspace, ReadWorkspace, WriteWorkspace, pageVars
<1>2. document.revision \in Nat
  BY DEF AllTyped, StoreTyped
<1>3. UNCHANGED serverVars \/ (UNCHANGED <<document, outlived>>) \/ \E update : Recast(update)
  <2>1. HandleLate => UNCHANGED serverVars \/ \E update : Recast(update)
    BY LateEffect
  <2>2. Purge => \E update : Recast(update)
    BY PurgeRewrites DEF AllTyped
  <2>3. \/ Age \/ Complete \/ UNCHANGED vars \/ \E t \in Tabs : Lapse(t) \/ PostWorkspace(t) \/ ReadWorkspace(t) \/ WriteWorkspace(t)
        => UNCHANGED <<document, outlived>>
    BY DEF Age, Complete, vars, Lapse, PostWorkspace, ReadWorkspace, WriteWorkspace, serverVars
  <2> QED BY <2>1, <2>2, <2>3
<1>4. UNCHANGED <<document, outlived>> => \A x \in Tabs : x \in outlived' \/ (Before(document, document') /\ x \notin outlived)
  BY <1>2 DEF Before
<1>5. \A x \in Tabs : page[x] \in {"open", "hydrating"} => x \in outlived' \/ (Before(document, document') /\ x \notin outlived)
  BY <1>3, <1>4, RewriteGrows DEF serverVars
<1>6. ASSUME NEW x \in Tabs
      PROVE  page'[x] \in {"open", "hydrating"} /\ x \notin outlived' => PageAgrees(x)'
  BY <1>1, <1>5, PageUntouched
<1> QED BY <1>6 DEF Versions

(* A step of one page leaves the others as they were.                        *)
LEMMA PageStepAgrees ==
  ASSUME AllTyped, AllTyped', Versions, NEW t \in Tabs, UNCHANGED document, outlived' \subseteq outlived,
         \A x \in Tabs : x # t => UNCHANGED <<page[x], copy[x], known[x], call[x], queue[x]>> /\ (x \in outlived' <=> x \in outlived),
         page'[t] \in {"open", "hydrating"} /\ t \notin outlived' => PageAgrees(t)'
  PROVE  Versions'
<1>1. document.revision \in Nat
  BY DEF AllTyped, StoreTyped
<1>2. Before(document, document')
  BY <1>1 DEF Before
<1>3. ASSUME NEW x \in Tabs, x # t
      PROVE  page'[x] \in {"open", "hydrating"} /\ x \notin outlived' => PageAgrees(x)'
  BY <1>2, <1>3, PageUntouched
<1> QED BY <1>3 DEF Versions

LEMMA QueueOf ==
  ASSUME AllTyped, NEW t \in Tabs, NEW q, queue' = [queue EXCEPT ![t] = q]
  PROVE  queue'[t] = q /\ \A x \in Tabs : x # t => queue'[x] = queue[x]
BY DEF AllTyped, PagesTyped

LEMMA PageAgreesAfter ==
  ASSUME AllTyped, AllTyped', Idled, Versions, NEW t \in Tabs,
         \/ Open(t) \/ Ask(t) \/ Drain(t) \/ Receive(t) \/ Drained(t) \/ Finish(t) \/ Type(t) \/ Leave(t) \/ SignOut(t)
  PROVE  Versions'
<1>1. /\ page \in [Tabs -> {"closed", "hydrating", "open", "done"}] /\ copy \in [Tabs -> SUBSET Made]
      /\ known \in [Tabs -> [revision : Nat, edits : SUBSET Made]] /\ call = [x \in Tabs |-> call[x]]
      /\ CallTyped(call[t]) /\ document.revision \in Nat /\ (document.revision = 0 => document.edits = {})
  BY DEF AllTyped, PagesTyped, CallsTyped, StoreTyped
<1>2. NoCall.kind = "none" /\ NoDoc.revision = 0 /\ NoDoc.edits = {}
  BY DEF NoCall, NoDoc
<1>3. ASSUME page'[t] \in {"open", "hydrating"}, t \notin outlived, page[t] \in {"open", "hydrating"}
      PROVE  PageAgrees(t)
  BY <1>3 DEF Versions
<1>4. CASE Open(t)
  <2>1. /\ page[t] = "closed" /\ page' = [page EXCEPT ![t] = "hydrating"] /\ outlived' = outlived \ {t}
        /\ UNCHANGED <<document, copy, known, queue, call>>
    BY <1>4 DEF Open
  <2>2. known'[t] = NoDoc /\ call'[t].kind = "none" /\ page'[t] = "hydrating"
    BY <1>1, <1>2, <2>1 DEF Idled
  <2>3. Before(NoDoc, document')
    BY <1>1, <1>2, <2>1 DEF Before
  <2>4. PageAgrees(t)'
    BY <2>2, <2>3 DEF PageAgrees, Before
  <2>5. \A x \in Tabs : x # t => UNCHANGED <<page[x], copy[x], known[x], call[x], queue[x]>> /\ (x \in outlived' <=> x \in outlived)
    BY <1>1, <2>1
  <2> QED BY <2>1, <2>4, <2>5, PageStepAgrees
<1>5. CASE Ask(t) \/ Drain(t)
  <2>1. /\ page[t] \in {"open", "hydrating"} /\ UNCHANGED <<document, outlived, page, copy, known>>
        /\ \E c : /\ call' = [call EXCEPT ![t] = c]
                  /\ c.kind = "post" \/ (c.kind = "get" /\ c.after = known[t].revision)
        /\ queue' = queue \/ queue' = [queue EXCEPT ![t] = ReadQueue(t)]
    <3>1. CASE Ask(t)
      <4> DEFINE c == [kind |-> "get", after |-> known[t].revision]
      <4>1. call' = [call EXCEPT ![t] = c]
        BY <3>1 DEF Ask
      <4>2. c.kind = "get" /\ c.after = known[t].revision
        OBVIOUS
      <4> HIDE DEF c
      <4>3. page[t] \in {"open", "hydrating"} /\ UNCHANGED <<document, outlived, page, copy, known, queue>>
        BY <3>1 DEF Ask, serverVars, pageVars
      <4> QED BY <4>1, <4>2, <4>3
    <3>2. CASE Drain(t)
      <4> DEFINE c == [kind |-> "post", update |-> ReadQueue(t)]
      <4>1. call' = [call EXCEPT ![t] = c]
        BY <3>2 DEF Drain
      <4>2. c.kind = "post"
        OBVIOUS
      <4> HIDE DEF c
      <4>3. /\ page[t] \in {"open", "hydrating"} /\ UNCHANGED <<document, outlived, page, copy, known>>
            /\ queue' = [queue EXCEPT ![t] = ReadQueue(t)]
        BY <3>2 DEF Drain, serverVars
      <4> QED BY <4>1, <4>2, <4>3
    <3> QED BY <1>5, <3>1, <3>2
  <2>2. queue[t] \subseteq queue'[t] /\ \A x \in Tabs : x # t => queue'[x] = queue[x]
    BY <2>1, QueueOf DEF ReadQueue
  <2>3. \A x \in Tabs : x # t => UNCHANGED <<page[x], copy[x], known[x], call[x], queue[x]>> /\ (x \in outlived' <=> x \in outlived)
    BY <1>1, <2>1, <2>2
  <2>4. call'[t].kind = "post" \/ (call'[t].kind = "get" /\ call'[t].after = known[t].revision)
    BY <1>1, <2>1
  <2>5. page'[t] \in {"open", "hydrating"} /\ t \notin outlived' => PageAgrees(t)'
    BY <1>3, <2>1, <2>2, <2>4 DEF PageAgrees, Before
  <2> QED BY <2>1, <2>3, <2>5, PageStepAgrees
<1>6. CASE Finish(t) \/ Leave(t) \/ SignOut(t)
  <2>1. /\ \E next \in {"closed", "done"} : Disposed(t, next)
        /\ UNCHANGED <<document, outlived>> /\ call' = [call EXCEPT ![t] = NoCall]
        /\ \E q : queue' = [queue EXCEPT ![t] = q]
    BY <1>6 DEF Finish, CompleteIdentity, Leave, SignOut, WriteQueue, serverVars
  <2>2. \A x \in Tabs : x # t => queue'[x] = queue[x]
    BY <2>1, QueueOf
  <2>3. \A x \in Tabs : x # t => UNCHANGED <<page[x], copy[x], known[x], call[x], queue[x]>> /\ (x \in outlived' <=> x \in outlived)
    BY <1>1, <2>1, <2>2 DEF Disposed
  <2>4. page'[t] \in {"closed", "done"}
    BY <1>1, <2>1 DEF Disposed
  <2> QED BY <2>1, <2>3, <2>4, PageStepAgrees
<1>7. CASE Type(t)
  <2> PICK n : n = Len(deps) + 1
    OBVIOUS
  <2>1. /\ page[t] = "open" /\ copy' = [copy EXCEPT ![t] = @ \cup {n}]
        /\ UNCHANGED <<document, outlived, page, known, call>>
        /\ queue' = [queue EXCEPT ![t] = ReadQueue(t) \cup {n}]
    BY <1>7 DEF Type, WriteQueue, serverVars
  <2>2. /\ queue[t] \cup {n} \subseteq queue'[t]
        /\ \A x \in Tabs : x # t => queue'[x] = queue[x]
    <3> DEFINE grown == ReadQueue(t) \cup {n}
    <3>1. queue' = [queue EXCEPT ![t] = grown]
      BY <2>1
    <3>2. queue[t] \cup {n} \subseteq grown
      BY DEF ReadQueue
    <3> HIDE DEF grown
    <3> QED BY <3>1, <3>2, QueueOf
  <2>3. \A x \in Tabs : x # t => UNCHANGED <<page[x], copy[x], known[x], call[x], queue[x]>> /\ (x \in outlived' <=> x \in outlived)
    BY <1>1, <2>1, <2>2
  <2>4. ASSUME t \notin outlived PROVE PageAgrees(t)'
    <3>1. PageAgrees(t)
      BY <1>3, <2>1, <2>4
    <3>2. copy'[t] = copy[t] \cup {n}
      BY <1>1, <2>1
    <3> QED BY <2>1, <2>2, <3>1, <3>2 DEF PageAgrees, Before
  <2> QED BY <2>1, <2>3, <2>4, PageStepAgrees
<1>8. CASE Receive(t)
  <2> DEFINE k == [revision |-> call[t].revision, edits |-> call[t].edits]
  <2>1. /\ call[t].kind = "answer" /\ page' = [page EXCEPT ![t] = "open"] /\ call' = [call EXCEPT ![t] = NoCall]
        /\ UNCHANGED <<document, outlived>> /\ known' = [known EXCEPT ![t] = k]
        /\ queue' = IF page[t] = "hydrating" THEN [queue EXCEPT ![t] = ReadQueue(t)] ELSE queue
    BY <1>8 DEF Receive, Accept, serverVars
  <2>2. copy' = [copy EXCEPT ![t] = IF page[t] = "hydrating" THEN call[t].edits \cup ReadQueue(t)
                                    ELSE IF call[t].changed THEN copy[t] \cup call[t].edits ELSE copy[t]]
    BY <1>8 DEF Receive, Accept
  <2>3. page[t] \in {"open", "hydrating"}
    BY <1>1, <1>2, <2>1 DEF Idled
  <2>4. k.revision = call[t].revision /\ k.edits = call[t].edits
    OBVIOUS
  <2> HIDE DEF k
  <2>8. /\ queue'[t] = IF page[t] = "hydrating" THEN ReadQueue(t) ELSE queue[t]
        /\ \A x \in Tabs : x # t => queue'[x] = queue[x]
    BY <2>1, QueueOf
  <2>5. \A x \in Tabs : x # t => UNCHANGED <<page[x], copy[x], known[x], call[x], queue[x]>> /\ (x \in outlived' <=> x \in outlived)
    BY <1>1, <2>1, <2>2, <2>8
  <2>6. known'[t] = k /\ call'[t] = NoCall /\ page'[t] = "open"
    BY <1>1, <2>1
  <2>7. ASSUME t \notin outlived PROVE PageAgrees(t)'
    <3>1. PageAgrees(t)
      BY <2>3, <2>7 DEF Versions
    <3>2. Before(known[t], call[t]) /\ Before(call[t], document) /\ (~call[t].changed => call[t].edits = known[t].edits)
      BY <2>1, <3>1 DEF PageAgrees, Before
    <3>3. Before(k, document')
      BY <2>1, <2>4, <3>2 DEF Before
    <3>4. k.edits \subseteq copy'[t] /\ copy'[t] \subseteq k.edits \cup queue'[t]
      <4>1. CASE page[t] = "hydrating"
        BY <1>1, <2>2, <2>4, <2>8, <4>1
      <4>2. CASE page[t] = "open"
        <5>1. known[t].edits \subseteq copy[t] /\ copy[t] \subseteq known[t].edits \cup queue[t]
          BY <3>1, <4>2 DEF PageAgrees
        <5>2. known[t].edits \subseteq call[t].edits
          BY <3>2 DEF Before
        <5>3. copy'[t] = IF call[t].changed THEN copy[t] \cup call[t].edits ELSE copy[t]
          BY <1>1, <2>2, <4>2
        <5>6. queue'[t] = queue[t]
          BY <2>8, <4>2
        <5>4. CASE call[t].changed
          BY <2>4, <5>6, <5>1, <5>2, <5>3, <5>4
        <5>5. CASE ~call[t].changed
          BY <2>4, <3>2, <5>1, <5>3, <5>5, <5>6
        <5> QED BY <5>4, <5>5
      <4> QED BY <2>3, <4>1, <4>2
    <3>5. PageAgrees(t)' <=>
            /\ Before(k, document')
            /\ k.edits \subseteq copy'[t] /\ copy'[t] \subseteq k.edits \cup queue'[t]
      BY <1>2, <2>6 DEF PageAgrees, Before
    <3> QED BY <2>1, <3>3, <3>4, <3>5
  <2> QED BY <2>1, <2>5, <2>7, PageStepAgrees
<1>9. CASE Drained(t)
  <2> DEFINE a == call[t].answer
  <2> DEFINE k == [revision |-> a.revision, edits |-> a.edits]
  <2>1. /\ call[t].kind = "posted" /\ a.kind = "answer" /\ call' = [call EXCEPT ![t] = NoCall]
        /\ UNCHANGED <<document, outlived, page>> /\ known' = [known EXCEPT ![t] = k]
        /\ copy' = [copy EXCEPT ![t] = IF a.changed THEN @ \cup a.edits ELSE @]
        /\ queue' = [queue EXCEPT ![t] = Remaining(t, call[t].update)]
    BY <1>9 DEF Drained, Accept, WriteQueue, serverVars
  <2>2. page[t] = "open"
    BY <2>1 DEF Idled
  <2>3. k.revision = a.revision /\ k.edits = a.edits
    OBVIOUS
  <2> HIDE DEF k, a
  <2>4. /\ queue'[t] = Remaining(t, call[t].update)
        /\ \A x \in Tabs : x # t => queue'[x] = queue[x]
    BY <2>1, QueueOf
  <2>5. \A x \in Tabs : x # t => UNCHANGED <<page[x], copy[x], known[x], call[x], queue[x]>> /\ (x \in outlived' <=> x \in outlived)
    BY <1>1, <2>1, <2>4
  <2>6. known'[t] = k /\ call'[t] = NoCall /\ page'[t] = "open"
    BY <1>1, <2>1, <2>2
  <2>7. ASSUME t \notin outlived PROVE PageAgrees(t)'
    <3>1. PageAgrees(t)
      BY <2>2, <2>7 DEF Versions
    <3>2. Before(known[t], a) /\ Before(a, document) /\ a.changed /\ call[t].update \subseteq a.edits
      BY <2>1, <3>1 DEF PageAgrees, a
    <3>3. Before(k, document')
      BY <2>1, <2>3, <3>2 DEF Before
    <3>4. copy'[t] = copy[t] \cup a.edits
      BY <1>1, <2>1, <3>2
    <3>5. known[t].edits \subseteq copy[t] /\ copy[t] \subseteq known[t].edits \cup queue[t]
      BY <2>2, <3>1 DEF PageAgrees
    <3>6. known[t].edits \subseteq a.edits
      BY <3>2 DEF Before
    <3>7. queue[t] \subseteq queue'[t] \cup a.edits
      BY <2>4, <3>2 DEF Remaining, ReadQueue
    <3>8. PageAgrees(t)' <=>
            /\ Before(k, document')
            /\ k.edits \subseteq copy'[t] /\ copy'[t] \subseteq k.edits \cup queue'[t]
      BY <1>2, <2>6 DEF PageAgrees, Before
    <3> QED BY <2>3, <3>3, <3>4, <3>5, <3>6, <3>7, <3>8
  <2> QED BY <2>1, <2>5, <2>7, PageStepAgrees
<1> QED BY <1>4, <1>5, <1>6, <1>7, <1>8, <1>9

LEMMA VersionsStay ==
  ASSUME AllTyped, AllTyped', Idled, Versions, [Next]_vars PROVE Versions'
BY HandleAgrees, AfarAgrees, PageAgreesAfter DEF Next

LEMMA VersionsShow == ASSUME Versions PROVE VersionIsShown
<1> SUFFICES ASSUME NEW t \in Tabs, Acknowledged(t), t \notin outlived PROVE copy[t] = known[t].edits
  BY DEF VersionIsShown
<1>1. page[t] = "open" /\ queue[t] = {}
  BY DEF Acknowledged, ReadQueue
<1> QED BY <1>1 DEF Versions, PageAgrees

(* ------------------- The snapshot follows the document ------------------- *)

(* A set of edits with all the contexts of its members, and those of a set   *)
(* whose context is in it.                                                   *)
Closed(d, S)  == \A e \in S : d[e] \subseteq S
ShownBy(d, S) == {e \in S : d[e] \subseteq S}

(* A context is a text that was shown, and so is every snapshot: what is     *)
(* seeded from it is shown as a whole.  A write that is under way carries    *)
(* the text of the document it read, if any, or none where that was too old. *)
WriteSays(d, w, old, gaps) ==
  /\ Closed(d, w.code) /\ Closed(d, w.text)
  /\ w.revision > 0 => w.text = ShownBy(d, w.edits) \/ (w.text = {} /\ (old \/ gaps > 0))
Texts ==
  /\ \A e \in Made : Closed(deps, deps[e])
  /\ Closed(deps, snapshot.code)
  /\ Exists /\ ~aged /\ snapshot.revision > 0 =>
       snapshot.code = ShownBy(deps, document.edits) \/ (purges > 0 /\ snapshot.code = {})
  /\ \A t \in Tabs : writing[t] # NotWriting => WriteSays(deps, writing[t], aged, purges)

LEMMA ShownClosed ==
  ASSUME NEW d, NEW S, \A e \in S : Closed(d, d[e]) PROVE Closed(d, ShownBy(d, S)) /\ ShownBy(d, S) \subseteq S
BY DEF Closed, ShownBy

LEMMA SameContexts ==
  ASSUME NEW d, NEW d2, NEW S, \A e \in S : d2[e] = d[e]
  PROVE  (Closed(d2, S) <=> Closed(d, S)) /\ ShownBy(d2, S) = ShownBy(d, S)
BY DEF Closed, ShownBy

LEMMA ClosedIsShown == ASSUME NEW d, NEW S, Closed(d, S) PROVE ShownBy(d, S) = S
BY DEF Closed, ShownBy

LEMMA NoneShown == ASSUME NEW d PROVE ShownBy(d, {}) = {} /\ Closed(d, {})
BY DEF ShownBy, Closed

LEMMA ShownIs == ASSUME NEW S PROVE Shown(S) = ShownBy(deps, S)
BY DEF Shown, ShownBy

(* The contexts of what is there stay closed when an edit is made.           *)
LEMMA TextsOfOld ==
  ASSUME AllTyped, Texts, NEW seenBy \in SUBSET Made, Closed(deps, seenBy),
         UNCHANGED deps \/ deps' = Append(deps, seenBy)
  PROVE  /\ \A e \in Made' : Closed(deps', deps'[e])
         /\ \A S \in SUBSET Made : (Closed(deps', S) <=> Closed(deps, S)) /\ ShownBy(deps', S) = ShownBy(deps, S)
         /\ deps' = Append(deps, seenBy) => Closed(deps', seenBy \cup {Len(deps) + 1})
<1>1. deps \in Seq(SUBSET Made) /\ Made = DOMAIN deps /\ Made = 1..Len(deps) /\ \A e \in Made : deps[e] \in SUBSET Made
  <2>1. deps \in Seq(SUBSET Made) /\ Made = 1..Len(deps)
    BY MadeIs DEF AllTyped, StoreTyped
  <2>2. \A e \in 1..Len(deps) : deps[e] \in SUBSET Made
    BY <2>1, ElementOfSeq
  <2> QED BY <2>1, <2>2 DEF Made
<1>2. CASE UNCHANGED deps
  <2>1. Made' = Made
    BY <1>2 DEF Made
  <2>2. deps' # Append(deps, seenBy)
    <3>1. Len(Append(deps, seenBy)) = Len(deps) + 1 /\ Len(deps) \in Nat
      BY <1>1, AppendProperties
    <3> QED BY <1>2, <3>1
  <2> QED BY <1>2, <2>1, <2>2 DEF Texts
<1>3. CASE deps' = Append(deps, seenBy)
  <2> PICK n : n = Len(deps) + 1
    OBVIOUS
  <2>1. Made' = Made \cup {n} /\ (\A e \in Made : deps'[e] = deps[e]) /\ deps'[n] = seenBy
    BY <1>3, EditMade DEF AllTyped
  <2>2. \A S \in SUBSET Made : (Closed(deps', S) <=> Closed(deps, S)) /\ ShownBy(deps', S) = ShownBy(deps, S)
    BY <2>1, SameContexts
  <2>3. \A e \in Made : Closed(deps', deps'[e])
    BY <1>1, <2>1, <2>2 DEF Texts
  <2>4. Closed(deps', seenBy)
    BY <2>2
  <2>5. Closed(deps', seenBy \cup {n})
    BY <2>1, <2>4 DEF Closed
  <2> QED BY <2>1, <2>2, <2>3, <2>4, <2>5
<1> QED BY <1>2, <1>3

(* What a write carries stays true of what it read.                          *)
LEMMA SaysStill ==
  ASSUME NEW d, NEW d2, NEW w, NEW old, NEW old2, NEW gaps \in Nat, NEW gaps2 \in Nat,
         WriteSays(d, w, old, gaps), old \/ gaps > 0 => old2 \/ gaps2 > 0,
         \A S \in {w.code, w.text, w.edits} : (Closed(d2, S) <=> Closed(d, S)) /\ ShownBy(d2, S) = ShownBy(d, S)
  PROVE  WriteSays(d2, w, old2, gaps2)
BY DEF WriteSays

LEMMA TextsAre ==
  Texts' <=>
    /\ \A e \in Made' : Closed(deps', deps'[e])
    /\ Closed(deps', snapshot'.code)
    /\ Exists' /\ ~aged' /\ snapshot'.revision > 0 =>
         snapshot'.code = ShownBy(deps', document'.edits) \/ (purges' > 0 /\ snapshot'.code = {})
    /\ \A t \in Tabs : writing'[t] # NotWriting => WriteSays(deps', writing'[t], aged', purges')
BY DEF Texts, Closed, ShownBy, WriteSays, NotWriting

(* A step that leaves the document, its snapshot and what was deleted as     *)
(* they are; where edits are made, their context is a text that was shown.   *)
LEMMA TextsStill ==
  ASSUME AllTyped, Texts, UNCHANGED <<document, snapshot, purges>>, aged' = aged \/ aged',
         NEW seenBy \in SUBSET Made, Closed(deps, seenBy), UNCHANGED deps \/ deps' = Append(deps, seenBy),
         \A t \in Tabs : writing'[t] # NotWriting =>
           writing'[t] = writing[t] \/ WriteSays(deps', writing'[t], aged', purges')
  PROVE  Texts'
<1>1. /\ \A e \in Made' : Closed(deps', deps'[e])
      /\ \A S \in SUBSET Made : (Closed(deps', S) <=> Closed(deps, S)) /\ ShownBy(deps', S) = ShownBy(deps, S)
  BY TextsOfOld
<1>2. document.edits \in SUBSET Made /\ snapshot.code \in SUBSET Made /\ purges \in Nat
  BY DEF AllTyped, StoreTyped
<1>3. Closed(deps', snapshot.code) /\ ShownBy(deps', document.edits) = ShownBy(deps, document.edits)
  BY <1>1, <1>2 DEF Texts
<1>4. ASSUME NEW t \in Tabs, writing'[t] # NotWriting PROVE WriteSays(deps', writing'[t], aged', purges')
  <2>1. CASE writing'[t] = writing[t]
    <3>1. WriteSays(deps, writing[t], aged, purges)
      BY <1>4, <2>1 DEF Texts
    <3>2. writing[t].code \in SUBSET Made /\ writing[t].text \in SUBSET Made /\ writing[t].edits \in SUBSET Made
      BY <1>4, <2>1 DEF AllTyped, CallsTyped, WriteTyped
    <3>3. \A S \in {writing[t].code, writing[t].text, writing[t].edits} :
            (Closed(deps', S) <=> Closed(deps, S)) /\ ShownBy(deps', S) = ShownBy(deps, S)
      BY <1>1, <3>2
    <3>4. WriteSays(deps', writing[t], aged', purges)
      BY <1>2, <3>1, <3>3, SaysStill
    <3> QED BY <2>1, <3>4
  <2> QED BY <1>4, <2>1
<1>5. (Exists' <=> Exists) /\ snapshot' = snapshot /\ document' = document /\ purges' = purges
  BY DEF Exists
<1>6. Exists /\ ~aged' /\ snapshot.revision > 0 =>
       snapshot.code = ShownBy(deps, document.edits) \/ (purges > 0 /\ snapshot.code = {})
  BY DEF Texts
<1> QED BY <1>1, <1>3, <1>4, <1>5, <1>6, TextsAre

LEMMA RewriteTexts ==
  ASSUME AllTyped, AllTyped', Texts, NEW update \in SUBSET Made, Recast(update), UNCHANGED <<deps, writing>>
  PROVE  Texts'
<1>1. /\ document' \in [revision : Nat, edits : SUBSET Made] /\ document.edits \in SUBSET Made
      /\ snapshot.code \in SUBSET Made /\ snapshot.revision \in Nat /\ document.revision \in Nat
      /\ (aged => Exists) /\ Made' = Made /\ aged \in BOOLEAN
      /\ purges \in Nat /\ aged' = FALSE /\ purges' = (IF Expired THEN purges + 1 ELSE purges)
  BY DEF AllTyped, StoreTyped, Recast, Forget, Made
<1>2. /\ Present.revision \in Nat \ {0} /\ Present.edits \in SUBSET Made /\ Scrubbed.revision \in Nat
      /\ ~Expired => Scrubbed = snapshot /\ Present = IF Exists THEN document ELSE [revision |-> 1, edits |-> snapshot.code]
      /\ Expired => Scrubbed.code = {} /\ Present = [revision |-> 1, edits |-> {}]
  BY PresentTyped DEF AllTyped
<1>3. Closed(deps, Scrubbed.code)
  BY <1>2, NoneShown DEF Texts
<1>4. \A e \in Made : Closed(deps, deps[e])
  BY DEF Texts
<1>5. Closed(deps, ShownBy(deps, document'.edits)) /\ ShownBy(deps, document'.edits) = Shown(document'.edits)
  BY <1>1, <1>4, ShownClosed, ShownIs
<1>6. Closed(deps, snapshot'.code)
  BY <1>3, <1>5 DEF Recast, Projected
<1>7. document'.revision > 0 /\ snapshot'.revision > 0 =>
        snapshot'.code = ShownBy(deps, document'.edits) \/ (purges' > 0 /\ snapshot'.code = {})
  <2>1. CASE document' = NoDoc
    BY <2>1 DEF NoDoc
  <2>2. CASE document' = Present /\ snapshot' = Scrubbed
    <3>1. CASE Expired
      <4>1. document'.edits = {} /\ snapshot'.code = {}
        BY <1>2, <2>2, <3>1
      <4>2. ShownBy(deps, {}) = {}
        BY NoneShown
      <4> QED BY <4>1, <4>2
    <3>2. CASE ~Expired /\ Exists
      <4>1. ~aged
        BY <1>1, <3>2 DEF Expired
      <4>2. document' = document /\ snapshot' = snapshot /\ purges' = purges
        BY <1>1, <1>2, <2>2, <3>2
      <4> QED BY <4>1, <4>2, <3>2 DEF Texts
    <3>3. CASE ~Exists
      <4>1. ~Expired
        BY <3>3 DEF Expired
      <4>2. document'.edits = snapshot.code /\ snapshot' = snapshot
        BY <1>2, <2>2, <3>3, <4>1
      <4> QED BY <4>2, ClosedIsShown DEF Texts
    <3> QED BY <3>1, <3>2, <3>3
  <2>3. CASE snapshot' = Projected(Scrubbed, Shown(document'.edits))
    BY <1>5, <2>3 DEF Projected
  <2> QED BY <2>1, <2>2, <2>3 DEF Recast
<1>8. ASSUME NEW t \in Tabs, writing[t] # NotWriting PROVE WriteSays(deps, writing[t], aged', purges')
  <2>1. (aged \/ purges > 0 => aged' \/ purges' > 0) /\ purges' \in Nat
    BY <1>1 DEF Expired
  <2>2. WriteSays(deps, writing[t], aged, purges)
    BY <1>8 DEF Texts
  <2> QED BY <1>1, <2>1, <2>2, SaysStill
<1>9. deps' = deps /\ writing' = writing /\ (Exists' <=> document'.revision > 0)
  BY DEF Exists
<1> QED BY <1>1, <1>4, <1>6, <1>7, <1>8, <1>9, TextsAre

LEMMA PostedTexts ==
  ASSUME AllTyped, Texts, NEW t \in Tabs, Posted(t) PROVE Texts'
<1> PICK w :
      /\ writing' = [writing EXCEPT ![t] = w] /\ w.revision = Unread /\ w.text = {}
      /\ \/ w.code = snapshot.code /\ UNCHANGED deps
         \/ w.code = snapshot.code \cup {Len(deps) + 1} /\ deps' = Append(deps, snapshot.code)
  BY DEF Posted
<1>1. UNCHANGED <<document, snapshot, aged, purges>>
  BY DEF Posted
<1>2. snapshot.code \in SUBSET Made /\ Closed(deps, snapshot.code)
  BY DEF AllTyped, StoreTyped, Texts
<1>3. Closed(deps', w.code)
  <2>1. CASE w.code = snapshot.code /\ UNCHANGED deps
    BY <1>2, <2>1
  <2>2. CASE w.code = snapshot.code \cup {Len(deps) + 1} /\ deps' = Append(deps, snapshot.code)
    BY <1>2, <2>2, TextsOfOld
  <2> QED BY <2>1, <2>2
<1>4. WriteSays(deps', w, aged', purges')
  BY <1>3, NoneShown DEF WriteSays, Unread
<1>5. \A x \in Tabs : writing'[x] = IF x = t THEN w ELSE writing[x]
  BY DEF AllTyped, CallsTyped
<1> QED BY <1>1, <1>2, <1>4, <1>5, TextsStill

LEMMA WriteStepTexts ==
  ASSUME AllTyped, Texts, NEW t \in Tabs, WriteStep(t) PROVE Texts'
<1> PICK w :
      /\ writing' = [writing EXCEPT ![t] = w]
      /\ \/ w = NotWriting
         \/ w.code = writing[t].code /\ w.revision = Unread /\ w.text = {}
         \/ /\ w.code = writing[t].code /\ w.revision = document.revision /\ w.edits = document.edits
            /\ w.text = IF ~Exists THEN writing[t].code ELSE IF aged THEN {} ELSE Shown(document.edits)
  BY DEF WriteStep
<1>1. UNCHANGED <<document, aged, purges, deps>> /\ writing[t] # NotWriting
  BY DEF WriteStep
<1>2. /\ document.edits \in SUBSET Made /\ document.revision \in Nat /\ WriteSays(deps, writing[t], aged, purges)
      /\ \A e \in Made : Closed(deps, deps[e])
  BY <1>1 DEF AllTyped, StoreTyped, Texts
<1>3. Closed(deps, ShownBy(deps, document.edits)) /\ ShownBy(deps, document.edits) = Shown(document.edits)
  BY <1>2, ShownClosed, ShownIs
<1>4. w # NotWriting => WriteSays(deps, w, aged, purges)
  <2>1. CASE w.code = writing[t].code /\ w.revision = Unread /\ w.text = {}
    BY <1>2, <2>1, NoneShown DEF WriteSays, Unread
  <2>2. CASE /\ w.code = writing[t].code /\ w.revision = document.revision /\ w.edits = document.edits
             /\ w.text = IF ~Exists THEN writing[t].code ELSE IF aged THEN {} ELSE Shown(document.edits)
    <3>1. CASE ~Exists
      BY <1>2, <2>2, <3>1 DEF WriteSays, Exists
    <3>2. CASE Exists
      BY <1>2, <1>3, <2>2, <3>2, NoneShown DEF WriteSays
    <3> QED BY <3>1, <3>2
  <2> QED BY <2>1, <2>2
<1>5. \A x \in Tabs : writing'[x] = IF x = t THEN w ELSE writing[x]
  BY DEF AllTyped, CallsTyped
<1>6. \A x \in Tabs : writing'[x] # NotWriting => WriteSays(deps', writing'[x], aged', purges')
  BY <1>1, <1>4, <1>5 DEF Texts
<1>7. /\ Closed(deps, snapshot'.code)
      /\ Exists /\ ~aged /\ snapshot'.revision > 0 =>
           snapshot'.code = ShownBy(deps, document.edits) \/ (purges > 0 /\ snapshot'.code = {})
  <2>1. CASE snapshot' = snapshot
    BY <2>1 DEF Texts
  <2>2. CASE /\ document.revision = writing[t].revision /\ document.edits = writing[t].edits
             /\ snapshot' = [revision |-> snapshot.revision + 1, code |-> writing[t].text]
    BY <1>2, <2>2 DEF WriteSays, Exists
  <2> QED BY <2>1, <2>2 DEF WriteStep
<1>8. (Exists' <=> Exists) /\ Made' = Made
  BY <1>1 DEF Exists, Made
<1> QED BY <1>1, <1>2, <1>6, <1>7, <1>8, TextsAre

LEMMA TextsStay ==
  ASSUME AllTyped, AllTyped', Texts, [Next]_vars PROVE Texts'
<1>1. {} \in SUBSET Made /\ Closed(deps, {})
  BY NoneShown
<1>2. ASSUME UNCHANGED <<document, snapshot, purges, writing, deps>>, aged' = aged \/ aged' PROVE Texts'
  BY <1>1, <1>2, TextsStill
<1>3. ASSUME NEW t \in Tabs, Handle(t) PROVE Texts'
  <2>1. UNCHANGED <<deps, writing>>
    BY <1>3 DEF Handle
  <2>2. UNCHANGED serverVars => Texts'
    BY <1>2, <2>1 DEF serverVars
  <2> QED BY <1>3, <2>1, <2>2, HandleEffect, RewriteTexts
<1>4. ASSUME HandleLate PROVE Texts'
  <2>1. UNCHANGED <<deps, writing>>
    BY <1>4, LateEffect
  <2>2. UNCHANGED serverVars => Texts'
    BY <1>2, <2>1 DEF serverVars
  <2>3. \A update \in late : update \in SUBSET Made
    BY DEF AllTyped, PagesTyped
  <2> QED BY <1>4, <2>1, <2>2, <2>3, LateEffect, RewriteTexts
<1>5. ASSUME Purge PROVE Texts'
  <2>1. UNCHANGED <<deps, writing>> /\ Recast({})
    BY <1>5, PurgeRewrites DEF Purge, AllTyped
  <2> QED BY <1>1, <2>1, RewriteTexts
<1>6. ASSUME Age \/ Complete \/ UNCHANGED vars PROVE Texts'
  <2>1. UNCHANGED <<document, snapshot, purges, writing, deps>> /\ (aged' = aged \/ aged')
    BY <1>6 DEF Age, Complete, vars, serverVars
  <2> QED BY <1>2, <2>1
<1>7. ASSUME NEW t \in Tabs, Type(t) PROVE Texts'
  <2>1. copy[t] \in SUBSET Made /\ \A e \in Made : Closed(deps, deps[e])
    BY DEF AllTyped, PagesTyped, Texts
  <2> PICK seenBy : seenBy = ShownBy(deps, copy[t])
    OBVIOUS
  <2>2. seenBy \in SUBSET Made /\ Closed(deps, seenBy) /\ seenBy = Shown(copy[t])
    BY <2>1, ShownClosed, ShownIs
  <2>3. UNCHANGED <<document, snapshot, purges, writing, aged>> /\ deps' = Append(deps, seenBy)
    BY <1>7, <2>2 DEF Type, serverVars
  <2> QED BY <2>2, <2>3, TextsStill
<1>8. ASSUME NEW t \in Tabs,
             \/ Open(t) \/ Ask(t) \/ Drain(t) \/ Receive(t) \/ Drained(t) \/ Finish(t) \/ Leave(t) \/ SignOut(t)
             \/ Lapse(t)
      PROVE Texts'
  <2>1. UNCHANGED <<document, snapshot, purges, writing, deps, aged>>
    BY <1>8 DEF Open, Ask, Drain, Receive, Drained, Finish, Leave, SignOut, Lapse, serverVars
  <2> QED BY <1>2, <2>1
<1>9. ASSUME NEW t \in Tabs, PostWorkspace(t) \/ ReadWorkspace(t) \/ WriteWorkspace(t) PROVE Texts'
  BY <1>9, PostsOne, PostedTexts, StepsOfWrites, WriteStepTexts
<1> QED BY <1>3, <1>4, <1>5, <1>6, <1>7, <1>8, <1>9 DEF Next

LEMMA TextsFollow == ASSUME AllTyped, Texts PROVE SnapshotFollows
<1>1. ASSUME Exists, ~aged, snapshot.revision > 0
      PROVE  snapshot.code \in {Shown(document.edits)} \cup IF purges > 0 THEN {{}} ELSE {}
  BY <1>1, ShownIs DEF Texts
<1> QED BY <1>1 DEF SnapshotFollows

(* ------------------------ All that is stored is shown -------------------- *)

(* A set of edits that a document can take in whole.                         *)
Backed(d, base, S) == \A e \in S : d[e] \subseteq base \cup S

(* What is to be sent.                                                       *)
Waiting == {saved[u] : u \in Users} \cup {queue[t] : t \in Tabs}

(* Until something is deleted, documents have all the contexts of their      *)
(* edits, and what waits, is sent or arrives late has them there or with it. *)
Whole == purges = 0 =>
  /\ outlived = {}
  /\ Closed(deps, document.edits)
  /\ \A S \in Waiting : Backed(deps, document.edits, S)
  /\ \A t \in Tabs : call[t].kind = "post" => Backed(deps, document.edits, call[t].update)
  /\ \A update \in late : Backed(deps, document.edits, update)

LEMMA BackedGrows ==
  ASSUME NEW d, NEW d2, NEW b, NEW b2, NEW S, Backed(d, b, S), b \subseteq b2, \A e \in S : d2[e] = d[e]
  PROVE  Backed(d2, b2, S)
BY DEF Backed

LEMMA NoneBacked == ASSUME NEW d, NEW b PROVE Backed(d, b, {})
BY DEF Backed

LEMMA WaitingTyped ==
  ASSUME AllTyped PROVE Waiting \subseteq SUBSET Made /\ \A t \in Tabs : ReadQueue(t) \in Waiting /\ queue[t] \subseteq ReadQueue(t)
<1>1. /\ saved \in [Users -> SUBSET Made] /\ queue \in [Tabs -> SUBSET Made] /\ \A t \in Tabs : OwnerOf[t] \in Users
  BY DEF AllTyped, PagesTyped, Users
<1> QED BY <1>1 DEF Waiting, ReadQueue

LEMMA WaitingAfter ==
  ASSUME NEW q, \A x \in Tabs : queue'[x] \in {queue[x], q}, \A u \in Users : saved'[u] \in {saved[u], q}
  PROVE  \A S \in Waiting' : S \in Waiting \/ S = q
<1>1. Waiting' = {saved'[u] : u \in Users} \cup {queue'[x] : x \in Tabs}
  BY DEF Waiting, Users
<1> QED BY <1>1 DEF Waiting

(* What waits and what is sent: as before, nothing, or what waited.          *)
LEMMA WholeStays ==
  ASSUME AllTyped, Whole, UNCHANGED deps, outlived' = {},
         purges' = 0 => purges = 0 /\ document.edits \subseteq document'.edits /\ Closed(deps, document'.edits),
         \A S \in Waiting' : S \in Waiting \/ S = {},
         \A t \in Tabs : call'[t].kind = "post" => call'[t] = call[t] \/ call'[t].update \in Waiting,
         \A update \in late' : update \in late \/ \E t \in Tabs : call[t].kind = "post" /\ update = call[t].update
  PROVE  Whole'
<1> SUFFICES ASSUME purges' = 0
             PROVE  /\ Closed(deps, document'.edits)
                    /\ \A S \in Waiting' : Backed(deps, document'.edits, S)
                    /\ \A t \in Tabs : call'[t].kind = "post" => Backed(deps, document'.edits, call'[t].update)
                    /\ \A update \in late' : Backed(deps, document'.edits, update)
  BY DEF Whole, Closed, Backed
<1>1. /\ \A S \in Waiting : Backed(deps, document.edits, S)
      /\ \A t \in Tabs : call[t].kind = "post" => Backed(deps, document.edits, call[t].update)
      /\ \A update \in late : Backed(deps, document.edits, update)
  BY DEF Whole
<1>2. \A S : Backed(deps, document.edits, S) => Backed(deps, document'.edits, S)
  BY BackedGrows
<1>3. \A S \in Waiting' : Backed(deps, document'.edits, S)
  BY <1>1, <1>2, NoneBacked
<1>4. ASSUME NEW t \in Tabs, call'[t].kind = "post" PROVE Backed(deps, document'.edits, call'[t].update)
  <2>1. CASE call'[t] = call[t]
    BY <1>1, <1>2, <1>4, <2>1
  <2>2. CASE call'[t].update \in Waiting
    BY <1>1, <1>2, <2>2
  <2> QED BY <1>4, <2>1, <2>2
<1>5. \A update \in late' : Backed(deps, document'.edits, update)
  BY <1>1, <1>2
<1> QED BY <1>3, <1>4, <1>5

(* An update that is backed leaves a document that is whole.                 *)
LEMMA RewriteWhole ==
  ASSUME AllTyped, Whole, Texts, NEW update \in SUBSET Made, Recast(update), UNCHANGED deps,
         purges = 0 => Backed(deps, document.edits, update), purges' = 0
  PROVE  purges = 0 /\ outlived' = {} /\ document.edits \subseteq document'.edits /\ Closed(deps, document'.edits)
<1>1. purges \in Nat /\ (document.revision = 0 => document.edits = {}) /\ document.revision \in Nat
  BY DEF AllTyped, StoreTyped
<1>2. /\ purges' = (IF Expired THEN purges + 1 ELSE purges)
      /\ outlived' = (IF Expired THEN {t \in Tabs : page[t] \in {"open", "hydrating"}} ELSE outlived)
  BY DEF Recast, Forget
<1>3. ~Expired /\ purges = 0 /\ outlived' = {}
  BY <1>1, <1>2 DEF Whole
<1>4. Present = IF Exists THEN document ELSE [revision |-> 1, edits |-> snapshot.code]
  BY <1>3, PresentTyped DEF AllTyped
<1>5. document.edits \subseteq Present.edits /\ Closed(deps, Present.edits)
  BY <1>1, <1>3, <1>4 DEF Exists, Whole, Texts
<1>6. document'.edits = Present.edits \/ document'.edits = Present.edits \cup update
  BY <1>3 DEF Recast
<1>7. Closed(deps, Present.edits \cup update)
  BY <1>3, <1>5 DEF Closed, Backed
<1> QED BY <1>3, <1>5, <1>6, <1>7

LEMMA SameWhole ==
  ASSUME AllTyped, Whole, UNCHANGED <<deps, document, purges, outlived, queue, saved, call, late>> PROVE Whole'
BY DEF Whole, Closed, Backed, Waiting, Users

LEMMA ServerWhole ==
  ASSUME AllTyped, Whole, Texts, NEW update \in SUBSET Made, Recast(update), UNCHANGED <<deps, queue, saved>>,
         purges = 0 => Backed(deps, document.edits, update), late' \subseteq late,
         \A t \in Tabs : call'[t].kind = "post" => call'[t] = call[t]
  PROVE  Whole'
<1>1. CASE purges' = 0
  <2>1. purges = 0 /\ outlived' = {} /\ document.edits \subseteq document'.edits /\ Closed(deps, document'.edits)
    BY <1>1, RewriteWhole
  <2>2. Waiting' = Waiting
    BY DEF Waiting, Users
  <2> QED BY <2>1, <2>2, WholeStays
<1>2. CASE purges' # 0
  BY <1>2 DEF Whole
<1> QED BY <1>1, <1>2

LEMMA HandledWhole ==
  ASSUME AllTyped, Whole, Texts, (\E t \in Tabs : Handle(t)) \/ HandleLate \/ Purge PROVE Whole'
<1>1. ASSUME NEW t \in Tabs, Handle(t) PROVE Whole'
  <2>1. UNCHANGED <<deps, queue, saved, late>> /\ Waiting' = Waiting
    BY <1>1 DEF Handle, pageVars, Waiting, Users
  <2> PICK c : /\ call' = [call EXCEPT ![t] = c]
                /\ \/ c = NoCall
                   \/ /\ call[t].kind = "get" /\ c = Answer(call[t].after)
                   \/ /\ call[t].kind = "post" /\ c.kind = "posted" /\ c.update = call[t].update
                      /\ c.answer = IF completed THEN [kind |-> "completed"] ELSE Answer(0)
                /\ \/ call[t].kind = "get" /\ (Recast({}) \/ (call[t].after > 0 /\ UNCHANGED serverVars))
                   \/ call[t].kind = "post" /\ ~completed /\ Recast(call[t].update)
                   \/ call[t].kind = "post" /\ completed /\ UNCHANGED serverVars
    BY <1>1, HandleCalls
  <2>2. \A x \in Tabs : call'[x] = IF x = t THEN c ELSE call[x]
    BY DEF AllTyped, CallsTyped
  <2>3. NoCall.kind = "none" /\ \A after : Answer(after).kind = "answer"
    BY DEF NoCall, Answer
  <2>4. \A x \in Tabs : call'[x].kind = "post" => call'[x] = call[x]
    BY <2>2, <2>3
  <2>5. CASE UNCHANGED serverVars
    <3>1. UNCHANGED <<document, purges, outlived>>
      BY <2>5 DEF serverVars
    <3>2. CASE purges' = 0
      <4>1. /\ outlived' = {} /\ purges = 0 /\ document.edits \subseteq document'.edits /\ Closed(deps, document'.edits)
        BY <3>1, <3>2 DEF Whole
      <4> QED BY <2>1, <2>4, <4>1, WholeStays
    <3>3. CASE purges' # 0
      BY <3>3 DEF Whole
    <3> QED BY <3>2, <3>3
  <2>6. CASE Recast({})
    <3>1. {} \in SUBSET Made /\ Backed(deps, document.edits, {})
      BY NoneBacked
    <3> QED BY <2>1, <2>4, <2>6, <3>1, ServerWhole
  <2>7. CASE call[t].kind = "post" /\ Recast(call[t].update)
    <3>1. call[t].update \in SUBSET Made
      BY <2>7 DEF AllTyped, CallsTyped, CallTyped
    <3>2. purges = 0 => Backed(deps, document.edits, call[t].update)
      BY <2>7 DEF Whole
    <3> QED BY <2>1, <2>4, <2>7, <3>1, <3>2, ServerWhole
  <2> QED BY <2>5, <2>6, <2>7
<1>2. CASE HandleLate
  <2>1. UNCHANGED <<deps, queue, saved, call>> /\ late' \subseteq late /\ Waiting' = Waiting
    BY <1>2, LateEffect DEF pageVars, Waiting, Users
  <2>2. CASE UNCHANGED serverVars
    <3>1. UNCHANGED <<document, purges, outlived>>
      BY <2>2 DEF serverVars
    <3>2. CASE purges' = 0
      <4>1. /\ outlived' = {} /\ purges = 0 /\ document.edits \subseteq document'.edits /\ Closed(deps, document'.edits)
        BY <3>1, <3>2 DEF Whole
      <4> QED BY <2>1, <4>1, WholeStays
    <3>3. CASE purges' # 0
      BY <3>3 DEF Whole
    <3> QED BY <3>2, <3>3
  <2>3. ASSUME NEW update \in late, Recast(update) PROVE Whole'
    <3>1. update \in SUBSET Made /\ (purges = 0 => Backed(deps, document.edits, update))
      BY DEF AllTyped, PagesTyped, Whole
    <3> QED BY <2>1, <2>3, <3>1, ServerWhole
  <2> QED BY <1>2, <2>2, <2>3, LateEffect
<1>3. CASE Purge
  <2>1. UNCHANGED <<deps, queue, saved, call, late>> /\ Recast({}) /\ {} \in SUBSET Made
    BY <1>3, PurgeRewrites DEF Purge, pageVars, AllTyped
  <2>2. Backed(deps, document.edits, {})
    BY NoneBacked
  <2> QED BY <2>1, <2>2, ServerWhole
<1> QED BY <1>1, <1>2, <1>3

LEMMA PagesWhole ==
  ASSUME AllTyped, Whole, NEW t \in Tabs,
         \/ Open(t) \/ Ask(t) \/ Drain(t) \/ Receive(t) \/ Drained(t) \/ Finish(t) \/ Leave(t) \/ SignOut(t) \/ Lapse(t)
  PROVE  Whole'
<1> SUFFICES ASSUME purges' = 0 PROVE Whole'
  BY DEF Whole
<1>1. /\ call = [x \in Tabs |-> call[x]] /\ NoCall.kind = "none"
      /\ ReadQueue(t) \in Waiting /\ queue[t] \in Waiting
  BY WaitingTyped DEF AllTyped, CallsTyped, NoCall, Waiting
<1>2. UNCHANGED <<deps, document, purges>> /\ outlived' \subseteq outlived
  BY DEF Open, Ask, Drain, Receive, Drained, Finish, Leave, SignOut, Lapse, serverVars
<1>3. outlived' = {} /\ purges = 0 /\ document.edits \subseteq document'.edits /\ Closed(deps, document'.edits)
  BY <1>2 DEF Whole
<1>4. \A S \in Waiting' : S \in Waiting \/ S = {}
  <2>1. \E q \in {ReadQueue(t), queue[t], {}} :
          queue' \in {queue, [queue EXCEPT ![t] = q]} /\ saved' \in {saved, [saved EXCEPT ![OwnerOf[t]] = q]}
    <3>1. Open(t) \/ Ask(t) => UNCHANGED <<queue, saved>>
      BY DEF Open, Ask, pageVars
    <3>2. Finish(t) \/ SignOut(t) => WriteQueue(t, {})
      BY DEF Finish, CompleteIdentity, SignOut
    <3>3. Drained(t) => WriteQueue(t, {}) \/ WriteQueue(t, ReadQueue(t))
      BY DEF Drained, Remaining
    <3>4. Drain(t) \/ Receive(t) => saved' = saved /\ queue' \in {queue, [queue EXCEPT ![t] = ReadQueue(t)]}
      BY DEF Drain, Receive
    <3>5. Leave(t) => \E q \in {queue[t], {}} : saved' = saved /\ queue' = [queue EXCEPT ![t] = q]
      BY DEF Leave
    <3>6. Lapse(t) => queue' = queue /\ saved' = [saved EXCEPT ![OwnerOf[t]] = {}]
      BY DEF Lapse
    <3> QED BY <3>1, <3>2, <3>3, <3>4, <3>5, <3>6 DEF WriteQueue
  <2> PICK q \in {ReadQueue(t), queue[t], {}} :
          queue' \in {queue, [queue EXCEPT ![t] = q]} /\ saved' \in {saved, [saved EXCEPT ![OwnerOf[t]] = q]}
    BY <2>1
  <2>2. (\A x \in Tabs : queue'[x] \in {queue[x], q}) /\ \A u \in Users : saved'[u] \in {saved[u], q}
    BY DEF AllTyped, PagesTyped, Users
  <2>3. \A S \in Waiting' : S \in Waiting \/ S = q
    BY <2>2, WaitingAfter
  <2> QED BY <1>1, <2>3
<1>5. \A x \in Tabs : call'[x].kind = "post" => call'[x] = call[x] \/ call'[x].update \in Waiting
  <2>1. CASE Open(t) \/ Lapse(t)
    BY <2>1 DEF Open, Lapse
  <2>2. CASE Ask(t)
    <3> DEFINE c == [kind |-> "get", after |-> known[t].revision]
    <3>1. c.kind = "get" /\ call' = [call EXCEPT ![t] = c]
      BY <2>2 DEF Ask
    <3> HIDE DEF c
    <3> QED BY <1>1, <3>1
  <2>3. CASE Receive(t) \/ Drained(t) \/ Finish(t) \/ Leave(t) \/ SignOut(t)
    <3>1. call' = [call EXCEPT ![t] = NoCall]
      BY <2>3 DEF Receive, Drained, Finish, Leave, SignOut
    <3> QED BY <1>1, <3>1
  <2>4. CASE Drain(t)
    <3> DEFINE c == [kind |-> "post", update |-> ReadQueue(t)]
    <3>1. c.update = ReadQueue(t) /\ call' = [call EXCEPT ![t] = c]
      BY <2>4 DEF Drain
    <3> HIDE DEF c
    <3> QED BY <1>1, <3>1
  <2> QED BY <2>1, <2>2, <2>3, <2>4
<1>6. \A update \in late' : update \in late \/ \E x \in Tabs : call[x].kind = "post" /\ update = call[x].update
  <2>1. late' = late \/ late' = Abandoned(t)
    BY DEF Open, Ask, Drain, Receive, Drained, Finish, CompleteIdentity, Leave, SignOut, Lapse
  <2> QED BY <2>1 DEF Abandoned
<1> QED BY <1>2, <1>3, <1>4, <1>5, <1>6, WholeStays

(* What is there has the contexts it had when an edit is made.               *)
LEMMA GrownWhole ==
  ASSUME AllTyped, Whole, NEW seenBy \in SUBSET Made, UNCHANGED deps \/ deps' = Append(deps, seenBy),
         UNCHANGED <<document, purges, outlived, call, late>>, purges = 0,
         \A S \in Waiting' : S \in Waiting \/ Backed(deps', document.edits, S)
  PROVE  Whole'
<1>1. document.edits \in SUBSET Made /\ \A S \in Waiting : S \in SUBSET Made
  BY WaitingTyped DEF AllTyped, StoreTyped
<1>2. \A e \in Made : deps'[e] = deps[e]
  BY EditMade DEF AllTyped
<1>3. \A S \in SUBSET Made : Backed(deps, document.edits, S) => Backed(deps', document.edits, S)
  BY <1>2, BackedGrows
<1>4. Closed(deps', document.edits)
  BY <1>1, <1>2, SameContexts DEF Whole
<1>5. \A S \in Waiting' : Backed(deps', document.edits, S)
  BY <1>1, <1>3 DEF Whole
<1>6. ASSUME NEW t \in Tabs, call[t].kind = "post" PROVE Backed(deps', document.edits, call[t].update)
  <2>1. call[t].update \in SUBSET Made
    BY <1>6 DEF AllTyped, CallsTyped, CallTyped
  <2> QED BY <1>3, <1>6, <2>1 DEF Whole
<1>7. ASSUME NEW update \in late PROVE Backed(deps', document.edits, update)
  <2>1. update \in SUBSET Made
    BY DEF AllTyped, PagesTyped
  <2> QED BY <1>3, <2>1 DEF Whole
<1>8. outlived = {}
  BY DEF Whole
<1>9. Whole' <=>
  (/\ outlived = {}
   /\ Closed(deps', document.edits)
   /\ \A S \in Waiting' : Backed(deps', document.edits, S)
   /\ \A t \in Tabs : call[t].kind = "post" => Backed(deps', document.edits, call[t].update)
   /\ \A update \in late : Backed(deps', document.edits, update))
  BY DEF Whole, Closed, Backed
<1> QED BY <1>4, <1>5, <1>6, <1>7, <1>8, <1>9

LEMMA TypedWhole ==
  ASSUME AllTyped, Versions, Whole, NEW t \in Tabs, Type(t) PROVE Whole'
<1> SUFFICES ASSUME purges' = 0 PROVE Whole'
  BY DEF Whole
<1> PICK n : n = Len(deps) + 1
  OBVIOUS
<1> PICK seenBy : seenBy = Shown(copy[t])
  OBVIOUS
<1>1. /\ page[t] = "open" /\ deps' = Append(deps, seenBy) /\ WriteQueue(t, ReadQueue(t) \cup {n})
      /\ UNCHANGED <<document, purges, outlived, call, late>>
  BY DEF Type, serverVars
<1>2. seenBy \in SUBSET Made /\ seenBy \subseteq copy[t]
  <2>1. copy[t] \in SUBSET Made
    BY DEF AllTyped, PagesTyped
  <2> QED BY <2>1, ShownSome
<1>3. /\ deps'[n] = seenBy /\ \A e \in Made : deps'[e] = deps[e]
  BY <1>1, <1>2, EditMade DEF AllTyped
<1>4. t \notin outlived
  BY <1>1 DEF Whole
<1>5. seenBy \subseteq document.edits \cup ReadQueue(t)
  <2>1. copy[t] \subseteq known[t].edits \cup queue[t] /\ known[t].edits \subseteq document.edits
    BY <1>1, <1>4 DEF Versions, PageAgrees, Before
  <2> QED BY <1>2, <2>1, WaitingTyped
<1>6. ReadQueue(t) \in Waiting /\ ReadQueue(t) \in SUBSET Made
  BY WaitingTyped
<1>7. Backed(deps, document.edits, ReadQueue(t))
  BY <1>1, <1>6 DEF Whole
<1>8. Backed(deps', document.edits, ReadQueue(t) \cup {n})
  BY <1>3, <1>5, <1>6, <1>7 DEF Backed
<1>9. \A S \in Waiting' : S \in Waiting \/ S = ReadQueue(t) \cup {n}
  <2> PICK q : q = ReadQueue(t) \cup {n}
    OBVIOUS
  <2>1. /\ queue' \in {queue, [queue EXCEPT ![t] = q]}
        /\ saved' \in {saved, [saved EXCEPT ![OwnerOf[t]] = q]}
    BY <1>1 DEF WriteQueue
  <2>2. (\A x \in Tabs : queue'[x] \in {queue[x], q}) /\ \A u \in Users : saved'[u] \in {saved[u], q}
    BY <2>1 DEF AllTyped, PagesTyped, Users
  <2> QED BY <2>2, WaitingAfter
<1>10. purges = 0
  BY <1>1
<1> QED BY <1>1, <1>2, <1>8, <1>9, <1>10, GrownWhole

LEMMA WholeKept ==
  ASSUME AllTyped, Versions, Texts, Whole, [Next]_vars PROVE Whole'
<1>1. ASSUME Age \/ Complete \/ UNCHANGED vars \/ \E t \in Tabs : ReadWorkspace(t) \/ WriteWorkspace(t) PROVE Whole'
  <2>1. UNCHANGED <<deps, document, purges, outlived, queue, saved, call, late>>
    BY <1>1 DEF Age, Complete, vars, ReadWorkspace, WriteWorkspace, serverVars, pageVars
  <2> QED BY <2>1, SameWhole
<1>2. ASSUME NEW t \in Tabs, PostWorkspace(t) PROVE Whole'
  <2>1. /\ UNCHANGED <<document, purges, outlived, queue, saved, call, late>>
        /\ UNCHANGED deps \/ deps' = Append(deps, snapshot.code)
    BY <1>2 DEF PostWorkspace, pageVars
  <2>2. snapshot.code \in SUBSET Made /\ Waiting' = Waiting
    BY <2>1 DEF AllTyped, StoreTyped, Waiting, Users
  <2>3. CASE purges = 0
    BY <2>1, <2>2, <2>3, GrownWhole
  <2>4. CASE purges # 0
    BY <2>1, <2>4 DEF Whole
  <2> QED BY <2>3, <2>4
<1> QED BY <1>1, <1>2, HandledWhole, PagesWhole, TypedWhole DEF Next

LEMMA WholeIsShown == ASSUME Whole PROVE StoredIsShown
BY ShownIs, ClosedIsShown DEF Whole, StoredIsShown

(* ------------------------------ Theorems --------------------------------- *)

DocumentInv == AllTyped /\ Queues /\ Idled /\ EditsKept /\ Versions /\ Texts /\ Whole

LEMMA DocumentBegins == ASSUME DocumentConstants, Init PROVE DocumentInv
<1>1. AllTyped
  BY DocumentStarts
<1>2. Made = {} /\ NoCall.kind = "none" /\ NoDoc.revision = 0 /\ NoDoc.edits = {} /\ NoCode.code = {} /\ NoCode.revision = 0
  BY DEF Init, Made, NoCall, NoDoc, NoCode
<1>3. Queues
  BY DEF Init, Queues, Users
<1>4. Idled
  BY <1>2 DEF Init, Idled
<1>5. EditsKept
  BY <1>2 DEF Init, EditsKept
<1>6. Versions
  BY DEF Init, Versions
<1>7. Texts
  BY <1>2, NoneShown DEF Init, Texts, Exists
<1>8. Whole
  <2>1. \A t \in Tabs : call[t].kind # "post"
    BY <1>2 DEF Init
  <2>2. \A S \in Waiting : S = {}
    BY DEF Init, Waiting, Users
  <2> QED BY <1>2, <2>1, <2>2, NoneShown, NoneBacked DEF Init, Whole
<1> QED BY <1>1, <1>3, <1>4, <1>5, <1>6, <1>7, <1>8 DEF DocumentInv

LEMMA DocumentKept == ASSUME DocumentConstants, DocumentInv, [Next]_vars PROVE DocumentInv'
<1>1. AllTyped'
  BY DocumentTypes DEF DocumentInv
<1> QED BY <1>1, QueuesKept, IdleKept, EditsStay, VersionsStay, TextsStay, WholeKept DEF DocumentInv

(* What the document, its snapshot and the pages promise together.           *)
DocumentSafe == TypeOK /\ EditsSurvive /\ VersionIsShown /\ StoredIsShown /\ SnapshotFollows

LEMMA DocumentFacts == ASSUME DocumentInv PROVE DocumentSafe
<1>1. TypeOK
  BY DEF DocumentInv, AllTyped, StoreTyped, PagesTyped, TypeOK
<1> QED BY <1>1, KeptSurvive, VersionsShow, WholeIsShown, TextsFollow DEF DocumentInv, DocumentSafe

LEMMA MergedNoMore == ASSUME AllTyped, [Next]_vars PROVE NothingMergedAfter
<1> SUFFICES ASSUME completed, document'.edits # document.edits PROVE document' = NoDoc \/ document'.revision = 1
  BY DEF NothingMergedAfter
<1>1. ASSUME NEW update, Recast(update), update = {} PROVE document' = NoDoc \/ document'.revision = 1
  <2>1. document' = NoDoc \/ document' = Present
    BY <1>1, PresentTyped DEF Recast, AllTyped
  <2> QED BY <2>1, PresentTyped DEF AllTyped
<1>2. UNCHANGED document => FALSE
  OBVIOUS
<1>3. ASSUME NEW t \in Tabs, Handle(t) PROVE document' = NoDoc \/ document'.revision = 1
  BY <1>1, <1>2, <1>3, HandleEffect DEF serverVars
<1>4. ASSUME HandleLate PROVE FALSE
  BY <1>2, <1>4, LateEffect DEF serverVars
<1>5. ASSUME Purge PROVE document' = NoDoc
  BY <1>5 DEF Purge
<1>6. ASSUME NEW t \in Tabs,
             \/ Open(t) \/ Ask(t) \/ Drain(t) \/ Receive(t) \/ Drained(t) \/ Finish(t) \/ Type(t) \/ Leave(t)
             \/ SignOut(t) \/ Lapse(t) \/ PostWorkspace(t) \/ ReadWorkspace(t) \/ WriteWorkspace(t)
      PROVE  FALSE
  BY <1>2, <1>6 DEF Open, Ask, Drain, Receive, Drained, Finish, Type, Leave, SignOut, Lapse, PostWorkspace,
             ReadWorkspace, WriteWorkspace, serverVars
<1>7. ASSUME Age \/ Complete \/ UNCHANGED vars PROVE FALSE
  BY <1>2, <1>7 DEF Age, Complete, vars, serverVars
<1> QED BY <1>3, <1>4, <1>5, <1>6, <1>7 DEF Next

(* Every edit that was typed into the open document by the only page of its  *)
(* account, or that the document ever had, is stored or waits in a queue     *)
(* that outlives the page; a page that offers a version to run shows its     *)
(* text, and the snapshot repeats the document.  It does so for any number   *)
(* of pages of each account, however requests are lost, repeated and         *)
(* overtaken, pages reloaded, workspaces posted and documents deleted        *)
(* (api/_code-document.js:629, assets/crdt-editor-source.js:437).            *)
THEOREM DocumentsAreSafe == ASSUME DocumentConstants PROVE Spec => []DocumentSafe
<1>1. Init => DocumentInv
  BY DocumentBegins
<1>2. DocumentInv /\ [Next]_vars => DocumentInv'
  BY DocumentKept
<1>3. DocumentInv => DocumentSafe
  BY DocumentFacts
<1> QED BY <1>1, <1>2, <1>3, PTL DEF Spec

(* After completion nothing is merged: a request that is late, repeated or   *)
(* sent from a stale page only reads, or deletes what is too old (api/_code- *)
(* document.js).                                                             *)
THEOREM NothingIsMergedAfter == ASSUME DocumentConstants PROVE Spec => [][NothingMergedAfter]_vars
<1>1. Init => DocumentInv
  BY DocumentBegins
<1>2. DocumentInv /\ [Next]_vars => DocumentInv'
  BY DocumentKept
<1>3. DocumentInv /\ [Next]_vars => [NothingMergedAfter]_vars
  BY MergedNoMore DEF DocumentInv
<1> QED BY <1>1, <1>2, <1>3, PTL DEF Spec

(* ------------------------- Running of submissions ------------------------ *)

Steps == {"new", "read", "leased", "admitted", "running", "ran", "answered", "refused", "failed"}

(* A request that holds its lease.                                           *)
Holding(r) == step[r] \in {"leased", "admitted", "running", "ran"}

(* Types of all but the sets that grow.                                      *)
RunTyped ==
  /\ now \in 0..LastRun /\ document \in 1..MaxStored /\ terminal \in BOOLEAN
  /\ allowed \in [Execute!Users -> BOOLEAN] /\ step \in [Requests -> Steps]
  /\ code \in [Requests -> 0..MaxStored] /\ lease \in [Requests -> Nat]
  /\ since \in [Requests -> 0..LastRun] /\ leases \in Seq([by : Execute!Users, at : 0..LastRun, ended : BOOLEAN])
  /\ attempts \in Seq([by : Execute!Users, at : 0..LastRun]) /\ executed \subseteq Requests \X (1..MaxStored)
  /\ programs \subseteq Requests

LEMMA RunInitTyped == ASSUME Execute!ExecutionConstants, Execute!Init PROVE RunTyped
<1>1. leases \in Seq([by : Execute!Users, at : 0..LastRun, ended : BOOLEAN]) /\ attempts \in Seq([by : Execute!Users, at : 0..LastRun])
  BY DEF Execute!Init
<1>2. now \in 0..LastRun /\ document \in 1..MaxStored
  BY DEF Execute!Init, Execute!ExecutionConstants
<1>3. since \in [Requests -> 0..LastRun] /\ code \in [Requests -> 0..MaxStored]
  BY DEF Execute!Init, Execute!ExecutionConstants
<1> QED BY <1>1, <1>2, <1>3 DEF Execute!Init, RunTyped, Steps

(* Who has read the code knows its version.                                  *)
ReadersKnow == \A r \in Requests : step[r] \in Execute!Served => code[r] # 0

LEMMA EndedTyped ==
  ASSUME RunTyped, NEW i \in Nat
  PROVE  [leases EXCEPT ![i].ended = TRUE] \in Seq([by : Execute!Users, at : 0..LastRun, ended : BOOLEAN])
<1> DEFINE ended == [leases EXCEPT ![i] = [leases[i] EXCEPT !.ended = TRUE]]
<1>1. ended \in Seq([by : Execute!Users, at : 0..LastRun, ended : BOOLEAN])
  <2>1. CASE i \in 1..Len(leases)
    <3>1. [leases[i] EXCEPT !.ended = TRUE] \in [by : Execute!Users, at : 0..LastRun, ended : BOOLEAN]
      <4>1. leases[i] \in [by : Execute!Users, at : 0..LastRun, ended : BOOLEAN]
        BY <2>1, ElementOfSeq DEF RunTyped
      <4> HIDE DEF RunTyped
      <4> QED BY <4>1
    <3> QED BY <2>1, <3>1, ExceptSeq DEF RunTyped
  <2>2. CASE i \notin 1..Len(leases)
    <3>1. DOMAIN leases = 1..Len(leases) /\ leases = [j \in DOMAIN leases |-> leases[j]]
      BY DEF RunTyped
    <3>2. ended = leases
      BY <2>2, <3>1
    <3> QED BY <3>2 DEF RunTyped
  <2> QED BY <2>1, <2>2
<1>2. ended = [leases EXCEPT ![i].ended = TRUE]
  OBVIOUS
<1> QED BY <1>1, <1>2

LEMMA LeasesBegan == ASSUME RunTyped, Execute!ExecutionConstants PROVE \A i \in 1..Len(leases) : leases[i].at \in Nat
<1> SUFFICES ASSUME NEW i \in 1..Len(leases) PROVE leases[i].at \in Nat
  OBVIOUS
<1>1. leases[i] \in [by : Execute!Users, at : 0..LastRun, ended : BOOLEAN]
  BY ElementOfSeq DEF RunTyped
<1>2. leases[i].at \in 0..LastRun
  BY <1>1
<1> QED BY <1>2 DEF Execute!ExecutionConstants

LEMMA RunTypedStays ==
  ASSUME Execute!ExecutionConstants, RunTyped, ReadersKnow, [Execute!Next]_(Execute!vars) PROVE RunTyped' /\ ReadersKnow'
<1> USE DEF Execute!ExecutionConstants, RunTyped, ReadersKnow, Steps, Execute!Served
<1>1. CASE UNCHANGED Execute!vars
  BY <1>1 DEF Execute!vars
<1>2. ASSUME NEW r \in Requests, Execute!ReadCode(r) PROVE RunTyped' /\ ReadersKnow'
  <2> HIDE DEF Execute!ExecutionConstants
  <2>1. \/ code' = [code EXCEPT ![r] = document] /\ step' = [step EXCEPT ![r] = "read"]
        \/ code' = code /\ step' = [step EXCEPT ![r] = "refused"]
    BY <1>2 DEF Execute!ReadCode, Execute!Goto
  <2>2. document # 0 /\ document \in 0..MaxStored
    BY DEF Execute!ExecutionConstants
  <2>3. code' \in [Requests -> 0..MaxStored] /\ step' \in [Requests -> Steps] /\ ReadersKnow'
    BY <2>1, <2>2
  <2> QED BY <1>2, <2>3 DEF Execute!ReadCode
<1>3. ASSUME NEW r \in Requests, Execute!Acquire(r) PROVE RunTyped' /\ ReadersKnow'
  <2>1. UserOf[r] \in Execute!Users
    BY DEF Execute!Users
  <2>2. [by |-> UserOf[r], at |-> now, ended |-> FALSE] \in [by : Execute!Users, at : 0..LastRun, ended : BOOLEAN]
    BY <2>1
  <2>3. leases' \in Seq([by : Execute!Users, at : 0..LastRun, ended : BOOLEAN])
    <3>1. CASE UNCHANGED leases
      BY <3>1
    <3>2. CASE leases' = Append(leases, [by |-> UserOf[r], at |-> now, ended |-> FALSE])
      BY <2>2, <3>2, AppendProperties
    <3> QED BY <1>3, <3>1, <3>2 DEF Execute!Acquire
  <2>4. Len(leases) + 1 \in Nat
    BY LenProperties
  <2>5. lease' \in [Requests -> Nat] /\ step' \in [Requests -> Steps]
    BY <1>3, <2>4 DEF Execute!Acquire, Execute!Goto
  <2> QED BY <1>3, <2>3, <2>5 DEF Execute!Acquire, Execute!Goto
<1>4. ASSUME NEW r \in Requests, Execute!Release(r)
      PROVE  lease' \in [Requests -> Nat] /\ leases' \in Seq([by : Execute!Users, at : 0..LastRun, ended : BOOLEAN])
  <2>1. [leases EXCEPT ![lease[r]].ended = TRUE] \in Seq([by : Execute!Users, at : 0..LastRun, ended : BOOLEAN])
    BY EndedTyped
  <2> QED BY <1>4, <2>1 DEF Execute!Release
<1>5. ASSUME NEW r \in Requests, Execute!Attempt(r) PROVE RunTyped' /\ ReadersKnow'
  <2>1. UserOf[r] \in Execute!Users
    BY DEF Execute!Users
  <2>2. attempts' \in Seq([by : Execute!Users, at : 0..LastRun])
    <3> DEFINE attempt == [by |-> UserOf[r], at |-> now]
    <3>1. attempt \in [by : Execute!Users, at : 0..LastRun]
      BY <2>1 DEF RunTyped
    <3>2. attempts' \in {attempts, Append(attempts, attempt)}
      BY <1>5 DEF Execute!Attempt
    <3> HIDE DEF attempt
    <3>3. Append(attempts, attempt) \in Seq([by : Execute!Users, at : 0..LastRun])
      BY <3>1, AppendProperties DEF RunTyped
    <3> QED BY <3>2, <3>3 DEF RunTyped
  <2>3. lease' \in [Requests -> Nat] /\ leases' \in Seq([by : Execute!Users, at : 0..LastRun, ended : BOOLEAN])
    BY <1>4, <1>5 DEF Execute!Attempt
  <2> QED BY <1>5, <2>2, <2>3 DEF Execute!Attempt, Execute!Goto
<1>6. ASSUME NEW r \in Requests, Execute!Start(r) \/ Execute!Return(r) \/ Execute!Gone(r)
      PROVE  RunTyped' /\ ReadersKnow'
  BY <1>6 DEF Execute!Start, Execute!Return, Execute!Gone, Execute!Goto
<1>7. ASSUME NEW r \in Requests, Execute!Fail(r) PROVE RunTyped' /\ ReadersKnow'
  BY <1>4, <1>7 DEF Execute!Fail, Execute!Goto
<1>8. ASSUME NEW r \in Requests, Execute!Persist(r) PROVE RunTyped' /\ ReadersKnow'
  <2>1. code[r] \in 1..MaxStored
    BY <1>8 DEF Execute!Persist
  <2>2. executed' \subseteq Requests \X (1..MaxStored)
    BY <1>8, <2>1 DEF Execute!Persist
  <2> QED BY <1>4, <1>8, <2>2 DEF Execute!Persist, Execute!Goto
<1>9. ASSUME NEW u \in Execute!Users, Execute!Exclude(u) PROVE RunTyped' /\ ReadersKnow'
  BY <1>9 DEF Execute!Exclude
<1>10. ASSUME NEW s \in {ServerOf[r] : r \in Requests}, Execute!Crash(s) PROVE RunTyped' /\ ReadersKnow'
  BY <1>10 DEF Execute!Crash
<1>11. CASE Execute!Edit \/ Execute!Complete \/ Execute!Tick
  <2>1. now' \in 0..LastRun
    BY <1>11 DEF Execute!Edit, Execute!Complete, Execute!Tick
  <2>3. document' \in 1..MaxStored
    BY <1>11 DEF Execute!Edit, Execute!Complete, Execute!Tick
  <2>4. terminal' \in BOOLEAN
    BY <1>11 DEF Execute!Edit, Execute!Complete, Execute!Tick
  <2>2. UNCHANGED <<allowed, step, code, lease, since, programs, leases, attempts, active, executed>>
    BY <1>11 DEF Execute!Edit, Execute!Complete, Execute!Tick
  <2> QED BY <2>1, <2>2, <2>3, <2>4
<1> QED BY <1>1, <1>2, <1>3, <1>5, <1>6, <1>7, <1>8, <1>9, <1>10, <1>11 DEF Execute!Next

(* What a lease is that its request did not give back: its own, of its user, *)
(* begun in the past and not ended.                                          *)
LeasesAreOwn ==
  /\ \A i \in 1..Len(leases) : leases[i].at <= now
  /\ \A r \in Requests : lease[r] \in 0..Len(leases)
  /\ \A r, s \in Requests : r # s /\ lease[r] # 0 => lease[r] # lease[s]
  /\ \A r \in Requests : lease[r] # 0 => (leases[lease[r]].by = UserOf[r] /\ ~leases[lease[r]].ended)

(* Of two leases of a user that were not given back, the one had lapsed when *)
(* the other was given.                                                      *)
LeasesFollow == \A r, s \in Requests :
  lease[r] # 0 /\ UserOf[r] = UserOf[s] /\ lease[r] < lease[s] =>
    leases[lease[r]].at + RunLease < leases[lease[s]].at

RunInv == RunTyped /\ ReadersKnow /\ LeasesAreOwn /\ LeasesFollow

(* Where leases stay.                                                        *)
LEMMA LeasesStay ==
  ASSUME Execute!ExecutionConstants, RunInv, UNCHANGED <<lease, leases>>, now' >= now, now' \in Nat
  PROVE  LeasesAreOwn' /\ LeasesFollow'
<1>1. (\A i \in 1..Len(leases) : leases[i].at <= now)'
  <2>1. \A i \in 1..Len(leases) : leases[i].at \in Nat
    BY LeasesBegan DEF RunInv
  <2> QED BY <2>1 DEF RunInv, RunTyped, LeasesAreOwn
<1> QED BY <1>1 DEF RunInv, LeasesAreOwn, LeasesFollow

(* A request takes a lease when no other of its user is in force.            *)
LEMMA LeaseTaken ==
  ASSUME Execute!ExecutionConstants, RunInv, NEW r \in Requests, ~Execute!Leased(UserOf[r]),
         leases' = Append(leases, [by |-> UserOf[r], at |-> now, ended |-> FALSE]), now' = now,
         lease' \in {lease, [lease EXCEPT ![r] = Len(leases) + 1]}
  PROVE  LeasesAreOwn' /\ LeasesFollow'
<1> DEFINE n == Len(leases)
<1>1. n \in Nat /\ Len(leases') = n + 1 /\ leases'[n + 1] = [by |-> UserOf[r], at |-> now, ended |-> FALSE]
      /\ \A i \in 1..n : leases'[i] = leases[i]
  BY AppendProperties, LenProperties DEF RunInv, RunTyped
<1>5. lease'[r] = n + 1 \/ lease'[r] = lease[r]
  BY DEF RunInv, RunTyped
<1> HIDE DEF n
<1>2. \A i \in 1..n : leases[i].at \in Nat
  BY LeasesBegan DEF RunInv, n
<1>3. \A s \in Requests : lease[s] \in 0..n
  BY DEF RunInv, LeasesAreOwn, n
<1>4. \A s \in Requests \ {r} : lease'[s] = lease[s]
  BY DEF RunInv, RunTyped
<1>6. \A s \in Requests : (lease'[s] = n + 1 /\ s = r) \/ lease'[s] = lease[s]
  BY <1>4, <1>5
<1>7. \A s \in Requests : lease[s] # 0 => lease[s] \in 1..n /\ leases'[lease[s]] = leases[lease[s]]
  BY <1>1, <1>3
<1>8. now \in Nat
  BY DEF RunInv, RunTyped
<1>9. LeasesAreOwn'
  <2>1. (\A i \in 1..Len(leases) : leases[i].at <= now)'
    <3>1. \A i \in 1..n : leases[i].at <= now
      BY DEF RunInv, LeasesAreOwn, n
    <3> QED BY <1>1, <1>8, <3>1
  <2>2. (\A s \in Requests : lease[s] \in 0..Len(leases))'
    BY <1>1, <1>3, <1>6
  <2>3. (\A s, t \in Requests : s # t /\ lease[s] # 0 => lease[s] # lease[t])'
    BY <1>1, <1>3, <1>6 DEF RunInv, LeasesAreOwn
  <2>4. (\A s \in Requests : lease[s] # 0 => leases[lease[s]].by = UserOf[s] /\ ~leases[lease[s]].ended)'
    <3> SUFFICES ASSUME NEW s \in Requests, lease'[s] # 0
                 PROVE  leases'[lease'[s]].by = UserOf[s] /\ ~leases'[lease'[s]].ended
      OBVIOUS
    <3>1. CASE lease'[s] = n + 1 /\ s = r
      BY <1>1, <3>1
    <3>2. CASE lease'[s] = lease[s]
      BY <1>7, <3>2 DEF RunInv, LeasesAreOwn
    <3> QED BY <1>6, <3>1, <3>2
  <2> QED BY <2>1, <2>2, <2>3, <2>4 DEF LeasesAreOwn
<1>10. LeasesFollow'
  <2> SUFFICES ASSUME NEW s \in Requests, NEW t \in Requests, lease'[s] # 0,
                      UserOf[s] = UserOf[t], lease'[s] < lease'[t]
               PROVE  leases'[lease'[s]].at + RunLease < leases'[lease'[t]].at
    BY DEF LeasesFollow
  <2>1. lease'[s] = lease[s] /\ lease[s] \in 1..n
    BY <1>1, <1>3, <1>6
  <2>2. CASE lease'[t] = lease[t]
    <3>1. lease[t] \in 1..n
      BY <1>1, <1>3, <2>1, <2>2
    <3>2. leases[lease[s]].at + RunLease < leases[lease[t]].at
      BY <2>1, <2>2 DEF RunInv, LeasesFollow
    <3>3. leases'[lease[s]] = leases[lease[s]] /\ leases'[lease[t]] = leases[lease[t]]
      BY <1>1, <1>7, <2>1, <3>1
    <3> QED BY <2>1, <2>2, <3>2, <3>3
  <2>3. CASE lease'[t] = n + 1 /\ t = r
    <3>1. ~leases[lease[s]].ended /\ leases[lease[s]].by = UserOf[r]
      BY <2>1, <2>3 DEF RunInv, LeasesAreOwn
    <3>2. ~(leases[lease[s]].at >= now - RunLease)
      BY <2>1, <3>1 DEF Execute!Leased, n
    <3>3. leases[lease[s]].at \in Nat /\ RunLease \in Nat
      BY <1>2, <2>1 DEF Execute!ExecutionConstants
    <3>4. leases'[lease'[t]].at = now /\ leases'[lease'[s]].at = leases[lease[s]].at
      BY <1>1, <2>1, <2>3
    <3>5. leases[lease[s]].at + RunLease < now
      BY <1>8, <3>2, <3>3
    <3> QED BY <3>4, <3>5
  <2> QED BY <1>6, <2>2, <2>3
<1> QED BY <1>9, <1>10

(* A request gives its lease back, or fails to.                              *)
LEMMA LeaseGiven ==
  ASSUME RunInv, NEW r \in Requests, Execute!Release(r), now' = now
  PROVE  LeasesAreOwn' /\ LeasesFollow'
<1> USE DEF Execute!Release
<1>1. \A s \in Requests \ {r} : lease'[s] = lease[s]
  BY DEF RunInv, RunTyped
<1>2. lease'[r] = 0
  BY DEF RunInv, RunTyped
<1>3. Len(leases') = Len(leases) /\ \A i \in 1..Len(leases) :
        leases'[i].at = leases[i].at /\ leases'[i].by = leases[i].by /\ (i # lease[r] => leases'[i] = leases[i])
  <2>1. CASE UNCHANGED leases
    BY <2>1
  <2>2. CASE lease[r] # 0 /\ leases' = [leases EXCEPT ![lease[r]].ended = TRUE]
    <3>1. lease[r] \in 1..Len(leases)
      BY <2>2 DEF RunInv, LeasesAreOwn
    <3>2. leases' = [leases EXCEPT ![lease[r]] = [leases[lease[r]] EXCEPT !.ended = TRUE]]
      BY <2>2
    <3>3. DOMAIN leases = 1..Len(leases) /\ leases = [j \in 1..Len(leases) |-> leases[j]] /\ Len(leases) \in Nat
      BY DEF RunInv, RunTyped
    <3>4. leases[lease[r]] \in [by : Execute!Users, at : 0..LastRun, ended : BOOLEAN]
      BY <3>1, ElementOfSeq DEF RunInv, RunTyped
    <3>5. leases' = [j \in 1..Len(leases) |-> IF j = lease[r] THEN [leases[lease[r]] EXCEPT !.ended = TRUE] ELSE leases[j]]
      BY <3>2, <3>3
    <3> QED BY <3>1, <3>3, <3>4, <3>5
  <2> QED BY <2>1, <2>2
<1>4. \A s \in Requests : lease[s] \in 0..Len(leases)
  BY DEF RunInv, LeasesAreOwn
<1>5. \A s \in Requests : lease'[s] # 0 => /\ s # r /\ lease'[s] = lease[s]
                                           /\ lease[s] \in 1..Len(leases) /\ leases'[lease[s]] = leases[lease[s]]
  <2> SUFFICES ASSUME NEW s \in Requests, lease'[s] # 0
               PROVE  s # r /\ lease'[s] = lease[s] /\ lease[s] \in 1..Len(leases) /\ leases'[lease[s]] = leases[lease[s]]
    OBVIOUS
  <2>1. s # r /\ lease'[s] = lease[s]
    BY <1>1, <1>2
  <2>2. lease[s] \in 1..Len(leases) /\ lease[s] # lease[r]
    BY <1>4, <2>1 DEF RunInv, LeasesAreOwn
  <2> QED BY <1>3, <2>1, <2>2
<1>6. LeasesAreOwn'
  <2>1. (\A i \in 1..Len(leases) : leases[i].at <= now)'
    BY <1>3 DEF RunInv, LeasesAreOwn
  <2>2. (\A s \in Requests : lease[s] \in 0..Len(leases))'
    BY <1>1, <1>2, <1>3, <1>4
  <2>3. (\A s, t \in Requests : s # t /\ lease[s] # 0 => lease[s] # lease[t])'
    BY <1>1, <1>2 DEF RunInv, LeasesAreOwn
  <2>4. (\A s \in Requests : lease[s] # 0 => leases[lease[s]].by = UserOf[s] /\ ~leases[lease[s]].ended)'
    BY <1>5 DEF RunInv, LeasesAreOwn
  <2> QED BY <2>1, <2>2, <2>3, <2>4 DEF LeasesAreOwn
<1>7. LeasesFollow'
  <2> SUFFICES ASSUME NEW s \in Requests, NEW t \in Requests, lease'[s] # 0,
                      UserOf[s] = UserOf[t], lease'[s] < lease'[t]
               PROVE  leases'[lease'[s]].at + RunLease < leases'[lease'[t]].at
    BY DEF LeasesFollow
  <2>1. lease'[t] # 0
    BY <1>1, <1>2, <1>4, <1>5
  <2> QED BY <1>5, <2>1 DEF RunInv, LeasesFollow
<1> QED BY <1>6, <1>7

LEMMA RunInvStays == ASSUME Execute!ExecutionConstants, RunInv, [Execute!Next]_(Execute!vars) PROVE RunInv'
<1>1. RunTyped' /\ ReadersKnow'
  BY RunTypedStays DEF RunInv
<1>2. now \in Nat /\ now' \in Nat
  BY <1>1 DEF RunInv, RunTyped
<1>3. ASSUME UNCHANGED <<lease, leases>>, now' >= now PROVE LeasesAreOwn' /\ LeasesFollow'
  BY <1>2, <1>3, LeasesStay
<1>4. CASE UNCHANGED Execute!vars
  BY <1>1, <1>2, <1>3, <1>4 DEF Execute!vars, RunInv
<1>5. ASSUME NEW r \in Requests, Execute!Acquire(r) PROVE LeasesAreOwn' /\ LeasesFollow'
  <2>1. CASE UNCHANGED <<lease, leases>>
    BY <1>2, <1>3, <1>5, <2>1 DEF Execute!Acquire
  <2>2. CASE ~Execute!Leased(UserOf[r]) /\ ~UNCHANGED <<lease, leases>>
    BY <1>5, <2>2, LeaseTaken DEF Execute!Acquire
  <2> QED BY <1>5, <2>1, <2>2 DEF Execute!Acquire
<1>6. ASSUME NEW r \in Requests, Execute!Attempt(r) \/ Execute!Fail(r) \/ Execute!Persist(r) PROVE LeasesAreOwn' /\ LeasesFollow'
  <2>1. now' = now /\ (Execute!Release(r) \/ UNCHANGED <<lease, leases>>)
    BY <1>6 DEF Execute!Attempt, Execute!Fail, Execute!Persist
  <2> QED BY <1>2, <1>3, <2>1, LeaseGiven
<1>7. ASSUME NEW r \in Requests, Execute!ReadCode(r) \/ Execute!Start(r) \/ Execute!Return(r) \/ Execute!Gone(r)
      PROVE  LeasesAreOwn' /\ LeasesFollow'
  BY <1>2, <1>3, <1>7 DEF Execute!ReadCode, Execute!Start, Execute!Return, Execute!Gone
<1>8. ASSUME NEW s \in {ServerOf[r] : r \in Requests}, Execute!Crash(s) PROVE LeasesAreOwn' /\ LeasesFollow'
  BY <1>2, <1>3, <1>8 DEF Execute!Crash
<1>9. ASSUME Execute!Edit \/ Execute!Complete \/ Execute!Tick \/ \E u \in Execute!Users : Execute!Exclude(u)
      PROVE  LeasesAreOwn' /\ LeasesFollow'
  BY <1>2, <1>3, <1>9 DEF Execute!Edit, Execute!Complete, Execute!Tick, Execute!Exclude
<1> QED BY <1>1, <1>4, <1>5, <1>6, <1>7, <1>8, <1>9 DEF Execute!Next, RunInv

LEMMA AlwaysRunInv == ASSUME Execute!ExecutionConstants PROVE Execute!Spec => []RunInv
<1>1. Execute!Init => RunInv
  <2> SUFFICES ASSUME Execute!Init PROVE RunInv
    OBVIOUS
  <2>1. RunTyped
    BY RunInitTyped
  <2>2. Len(leases) = 0 /\ \A r \in Requests : step[r] = "new" /\ lease[r] = 0
    BY DEF Execute!Init
  <2>3. ReadersKnow /\ LeasesAreOwn /\ LeasesFollow
    BY <2>2 DEF ReadersKnow, LeasesAreOwn, LeasesFollow, Execute!Served
  <2> QED BY <2>1, <2>3 DEF RunInv
<1>2. RunInv /\ [Execute!Next]_(Execute!vars) => RunInv'
  BY RunInvStays
<1> QED BY <1>1, <1>2, PTL DEF Execute!Spec

(* One request of a user has a lease in force, over all processes and        *)
(* through crashes, refusals, lost answers and leases that lapse             *)
(* (api/data.js:2559): a lease is given when those before it were ended or   *)
(* have lapsed, and who gave none back still owns its own.                   *)
THEOREM OneLeaseInForce == ASSUME Execute!ExecutionConstants PROVE Execute!Spec => []Execute!OneUnderLease
<1>1. ASSUME RunInv PROVE Execute!OneUnderLease
  <2> SUFFICES ASSUME NEW r \in Requests, NEW s \in Requests, r # s, UserOf[r] = UserOf[s],
                      Execute!Live(r), Execute!Live(s)
               PROVE  FALSE
    BY DEF Execute!OneUnderLease, Execute!LeftOver
  <2> DEFINE at(x) == leases[lease[x]].at
  <2>1. \A x \in {r, s} : /\ lease[x] \in 1..Len(leases) /\ at(x) \in Nat
                         /\ at(x) <= now /\ at(x) >= now - RunLease
    BY <1>1, LeasesBegan DEF RunInv, LeasesAreOwn, Execute!Live
  <2>2. lease[r] # lease[s]
    BY <1>1, <2>1 DEF RunInv, LeasesAreOwn
  <2>3. now \in Nat /\ RunLease \in Nat
    BY <1>1 DEF RunInv, RunTyped, Execute!ExecutionConstants
  <2>4. \A x, y \in {r, s} : lease[x] < lease[y] => at(x) + RunLease < at(y)
    BY <1>1, <2>1 DEF RunInv, LeasesFollow
  <2>5. lease[r] < lease[s] \/ lease[s] < lease[r]
    BY <2>1, <2>2
  <2> HIDE DEF at
  <2> QED BY <2>1, <2>3, <2>4, <2>5
<1> QED BY <1>1, AlwaysRunInv, PTL

(* What is stored was run on the version that the pair has at that moment,   *)
(* and no result joins a session that is completed (api/data.js:2782).       *)
THEOREM ResultsAreOfTheCurrent == ASSUME Execute!ExecutionConstants PROVE Execute!Spec => [][Execute!ResultsAreCurrent]_(Execute!vars)
<1>1. ASSUME Execute!Next PROVE Execute!ResultsAreCurrent
  <2>1. CASE executed' = executed
    BY <2>1 DEF Execute!ResultsAreCurrent
  <2>2. ASSUME NEW r \in Requests, Execute!Persist(r) PROVE Execute!ResultsAreCurrent
    BY <2>2 DEF Execute!Persist, Execute!Current, Execute!ResultsAreCurrent, Execute!Paired
  <2>3. executed' = executed \/ \E r \in Requests : Execute!Persist(r)
    BY <1>1 DEF Execute!Next, Execute!ReadCode, Execute!Acquire, Execute!Attempt, Execute!Start, Execute!Return, Execute!Fail, Execute!Gone, Execute!Exclude, Execute!Crash, Execute!Edit, Execute!Complete, Execute!Tick
  <2> QED BY <2>1, <2>2, <2>3
<1>2. ASSUME [Execute!Next]_(Execute!vars) PROVE [Execute!ResultsAreCurrent]_(Execute!vars)
  BY <1>1, <1>2
<1> QED BY <1>2, PTL DEF Execute!Spec

(* Whoever is in the set of a process holds a lease through that process.    *)
ActiveHold == \A k \in active : \E r \in Requests :
  Execute!Key(r) = k /\ Holding(r) /\ ModeOf[r] # "secondary"

LEMMA ActiveHoldStays == ASSUME Execute!ExecutionConstants, RunInv, ActiveHold, [Execute!Next]_(Execute!vars) PROVE ActiveHold'
<1> USE DEF RunInv, RunTyped
<1>1. ASSUME \A r \in Requests : Holding(r) => Holding(r)', active' \subseteq active PROVE ActiveHold'
  BY <1>1 DEF ActiveHold
<1>2. ASSUME NEW r \in Requests, NEW next \in Steps, step' = [step EXCEPT ![r] = next], Execute!Release(r) PROVE ActiveHold'
  <2> SUFFICES ASSUME NEW k \in active'
               PROVE \E x \in Requests : Execute!Key(x) = k /\ Holding(x)' /\ ModeOf[x] # "secondary"
    BY DEF ActiveHold
  <2>1. k \in active /\ (ModeOf[r] # "secondary" => k # Execute!Key(r))
    BY <1>2 DEF Execute!Release
  <2>2. PICK x \in Requests : Execute!Key(x) = k /\ Holding(x) /\ ModeOf[x] # "secondary"
    BY <2>1 DEF ActiveHold
  <2>3. x # r
    BY <2>1, <2>2
  <2> QED BY <1>2, <2>2, <2>3 DEF Holding
<1>3. ASSUME NEW r \in Requests, Execute!ReadCode(r) PROVE ActiveHold'
  <2>1. \E next \in {"read", "refused"} : step' = [step EXCEPT ![r] = next]
    BY <1>3 DEF Execute!ReadCode, Execute!Goto
  <2> QED BY <1>1, <1>3, <2>1 DEF Execute!ReadCode, Holding
<1>4. ASSUME NEW r \in Requests, Execute!Acquire(r) PROVE ActiveHold'
  <2>1. \E next \in Steps : step' = [step EXCEPT ![r] = next]
    BY <1>4 DEF Execute!Acquire, Execute!Goto, Steps
  <2>2. \A x \in Requests : Holding(x) => Holding(x)'
    BY <1>4, <2>1 DEF Execute!Acquire, Holding
  <2>3. CASE active' = active
    BY <1>1, <2>2, <2>3
  <2>4. CASE active' = active \cup {Execute!Key(r)} /\ step' = [step EXCEPT ![r] = "leased"] /\ ModeOf[r] # "secondary"
    <3>1. Holding(r)'
      BY <2>4 DEF Holding
    <3> QED BY <2>2, <2>4, <3>1 DEF ActiveHold
  <2> QED BY <1>4, <2>3, <2>4 DEF Execute!Acquire, Execute!Goto
<1>5. ASSUME NEW r \in Requests, Execute!Attempt(r) PROVE ActiveHold'
  <2>1. CASE step' = [step EXCEPT ![r] = "admitted"] /\ active' = active
    BY <1>1, <2>1 DEF Holding
  <2>2. CASE (\E next \in {"refused", "failed"} : step' = [step EXCEPT ![r] = next]) /\ Execute!Release(r)
    BY <1>2, <2>2 DEF Steps
  <2> QED BY <1>5, <2>1, <2>2 DEF Execute!Attempt, Execute!Goto
<1>6. ASSUME NEW r \in Requests, Execute!Start(r) \/ Execute!Return(r) \/ Execute!Gone(r) PROVE ActiveHold'
  BY <1>1, <1>6 DEF Execute!Start, Execute!Return, Execute!Gone, Execute!Goto, Holding
<1>7. ASSUME NEW r \in Requests, Execute!Fail(r) \/ Execute!Persist(r) PROVE ActiveHold'
  BY <1>2, <1>7 DEF Execute!Fail, Execute!Persist, Execute!Goto, Steps
<1>8. ASSUME NEW s \in {ServerOf[r] : r \in Requests}, Execute!Crash(s) PROVE ActiveHold'
  <2> SUFFICES ASSUME NEW k \in active'
               PROVE \E x \in Requests : Execute!Key(x) = k /\ Holding(x)' /\ ModeOf[x] # "secondary"
    BY DEF ActiveHold
  <2>1. k \in active /\ k[1] # s
    BY <1>8 DEF Execute!Crash
  <2>2. PICK x \in Requests : Execute!Key(x) = k /\ Holding(x) /\ ModeOf[x] # "secondary"
    BY <2>1 DEF ActiveHold
  <2>3. ServerOf[x] # s
    BY <2>1, <2>2 DEF Execute!Key
  <2> QED BY <1>8, <2>2, <2>3 DEF Execute!Crash, Holding, Execute!Served
<1>9. ASSUME UNCHANGED <<step, active>> PROVE ActiveHold'
  BY <1>9 DEF ActiveHold, Holding
<1>10. ASSUME Execute!Edit \/ Execute!Complete \/ Execute!Tick \/ (\E u \in Execute!Users : Execute!Exclude(u)) \/ UNCHANGED Execute!vars PROVE UNCHANGED <<step, active>>
  BY <1>10 DEF Execute!Edit, Execute!Complete, Execute!Tick, Execute!Exclude, Execute!vars
<1> QED BY <1>3, <1>4, <1>5, <1>6, <1>7, <1>8, <1>9, <1>10 DEF Execute!Next

(* Types, and that a process forgets a user with its last request            *)
(* (api/data.js, __activeExecutionsByUser).                                  *)
THEOREM ExecutionTypes == ASSUME Execute!ExecutionConstants PROVE Execute!Spec => []Execute!TypeOK
<1>1. Execute!Init => ActiveHold
  BY DEF Execute!Init, ActiveHold
<1>2. RunInv /\ ActiveHold /\ [Execute!Next]_(Execute!vars) => ActiveHold'
  BY ActiveHoldStays
<1>3. RunInv /\ ActiveHold => Execute!TypeOK
  <2> SUFFICES ASSUME RunInv, ActiveHold PROVE Execute!TypeOK
    OBVIOUS
  <2>1. lease \in [Requests -> 0..Len(leases)]
    BY DEF RunInv, RunTyped, LeasesAreOwn
  <2>2. \A k \in active : \E r \in Requests : Execute!Key(r) = k /\ step[r] \in {"leased", "admitted", "running", "ran"}
    BY DEF ActiveHold, Holding
  <2> QED BY <2>1, <2>2 DEF Execute!TypeOK, RunInv, RunTyped, Steps, Execute!Served
<1> QED BY <1>1, <1>2, <1>3, AlwaysRunInv, PTL DEF Execute!Spec

(* ------------------------- The rate of execution ------------------------- *)

LEMMA ExecuteCounts ==
  /\ \A u : Execute!WithinRate(u) <=> Cardinality(Execute!Recent(u)) < RunsPerMinute
  /\ Execute!RunsAreLimited <=> \A u \in Execute!Users : \A t \in 0..now :
       Cardinality({r \in Requests : UserOf[r] = u /\ step[r] \in {"admitted", "running", "ran", "answered"}
                                     /\ since[r] \in t..(t + RunMinute)}) <= RunsPerMinute
BY Zenon DEF Execute!RunsAreLimited, Execute!WithinRate, Execute!Cardinality, Cardinality

Started(r) == step[r] \in {"admitted", "running", "ran", "answered"}
RunSince(u, k)   == {r \in Requests : UserOf[r] = u /\ Started(r) /\ since[r] >= k}
TriedSince(u, k) == {i \in 1..Len(attempts) : attempts[i].by = u /\ attempts[i].at >= k}
RunIn(u, t) == {r \in Requests : UserOf[r] = u /\ Started(r) /\ since[r] \in t..(t + RunMinute)}

(* Every program that was admitted has its attempt on record.                *)
RunsAreCounted == \A u \in Execute!Users, k \in Int :
  IsFiniteSet(RunSince(u, k)) /\ Cardinality(RunSince(u, k)) <= Cardinality(TriedSince(u, k))

RatesHold == \A u \in Execute!Users, t \in Nat : Cardinality(RunIn(u, t)) <= RunsPerMinute

LEMMA TriedFinite == ASSUME RunTyped, NEW u, NEW k PROVE IsFiniteSet(TriedSince(u, k)) /\ Cardinality(TriedSince(u, k)) \in Nat
<1>1. IsFiniteSet(1..Len(attempts))
  BY FS_Interval DEF RunTyped
<1>2. TriedSince(u, k) \in SUBSET (1..Len(attempts))
  BY DEF TriedSince
<1>3. IsFiniteSet(TriedSince(u, k))
  BY <1>1, <1>2, FS_Subset
<1> QED BY <1>3, FS_CardinalityType

LEMMA RunInFinite ==
  ASSUME Execute!ExecutionConstants, RunTyped, RunsAreCounted, NEW u \in Execute!Users, NEW t \in Int, NEW S \in SUBSET RunSince(u, t)
  PROVE  /\ IsFiniteSet(S) /\ Cardinality(S) \in Nat /\ Cardinality(S) <= Cardinality(RunSince(u, t))
         /\ Cardinality(S) <= Cardinality(TriedSince(u, t))
<1>1. IsFiniteSet(RunSince(u, t)) /\ Cardinality(RunSince(u, t)) <= Cardinality(TriedSince(u, t))
  BY DEF RunsAreCounted
<1>2. IsFiniteSet(S) /\ Cardinality(S) <= Cardinality(RunSince(u, t))
  BY <1>1, FS_Subset
<1>3. Cardinality(S) \in Nat /\ Cardinality(RunSince(u, t)) \in Nat /\ Cardinality(TriedSince(u, t)) \in Nat
  BY <1>1, <1>2, FS_CardinalityType, TriedFinite
<1> QED BY <1>1, <1>2, <1>3

(* Where nothing is started, programs only go.                               *)
LEMMA RatesStay ==
  ASSUME Execute!ExecutionConstants, RunTyped, RunsAreCounted, RatesHold, UNCHANGED <<attempts, since>>,
         \A r \in Requests : Started(r)' => Started(r)
  PROVE  RunsAreCounted' /\ RatesHold'
<1>1. ASSUME NEW u \in Execute!Users, NEW k \in Int
      PROVE  IsFiniteSet(RunSince(u, k)') /\ Cardinality(RunSince(u, k)') <= Cardinality(TriedSince(u, k)')
  <2>1. RunSince(u, k)' \in SUBSET RunSince(u, k) /\ TriedSince(u, k)' = TriedSince(u, k)
    BY DEF RunSince, TriedSince
  <2> QED BY <2>1, RunInFinite
<1>2. ASSUME NEW u \in Execute!Users, NEW t \in Nat PROVE Cardinality(RunIn(u, t)') <= RunsPerMinute
  <2>1. RunIn(u, t)' \in SUBSET RunIn(u, t) /\ RunIn(u, t) \in SUBSET RunSince(u, t)
    BY DEF RunIn, RunSince, Execute!ExecutionConstants
  <2>2. IsFiniteSet(RunIn(u, t)) /\ Cardinality(RunIn(u, t)) \in Nat
    BY <2>1, RunInFinite
  <2>3. IsFiniteSet(RunIn(u, t)') /\ Cardinality(RunIn(u, t)') <= Cardinality(RunIn(u, t))
    BY <2>1, <2>2, FS_Subset
  <2>4. Cardinality(RunIn(u, t)') \in Nat
    BY <2>3, FS_CardinalityType
  <2>5. Cardinality(RunIn(u, t)) <= RunsPerMinute
    BY DEF RatesHold
  <2> QED BY <2>2, <2>3, <2>4, <2>5 DEF Execute!ExecutionConstants
<1>3. RunsAreCounted'
  BY <1>1 DEF RunsAreCounted
<1>4. RatesHold'
  BY <1>2 DEF RatesHold
<1> QED BY <1>3, <1>4

(* An attempt is recorded whether it starts a program or not.                *)
LEMMA AttemptCounts ==
  ASSUME Execute!ExecutionConstants, RunTyped, NEW r \in Requests, NEW k \in Int,
         attempts' = Append(attempts, [by |-> UserOf[r], at |-> now])
  PROVE  \A u \in Execute!Users : Cardinality(TriedSince(u, k)') =
           IF u = UserOf[r] /\ now >= k THEN Cardinality(TriedSince(u, k)) + 1 ELSE Cardinality(TriedSince(u, k))
<1> SUFFICES ASSUME NEW u \in Execute!Users
             PROVE  Cardinality(TriedSince(u, k)') =
               IF u = UserOf[r] /\ now >= k THEN Cardinality(TriedSince(u, k)) + 1 ELSE Cardinality(TriedSince(u, k))
  OBVIOUS
<1> DEFINE n == Len(attempts)
<1>1. n \in Nat /\ Len(attempts') = n + 1 /\ attempts'[n + 1] = [by |-> UserOf[r], at |-> now]
      /\ \A i \in 1..n : attempts'[i] = attempts[i]
  BY AppendProperties, LenProperties DEF RunTyped
<1>2. TriedSince(u, k) = {i \in 1..n : attempts[i].by = u /\ attempts[i].at >= k}
  BY DEF TriedSince
<1>3. TriedSince(u, k)' = {i \in 1..(n + 1) : attempts'[i].by = u /\ attempts'[i].at >= k}
  BY <1>1 DEF TriedSince
<1> HIDE DEF n
<1>4. IsFiniteSet(TriedSince(u, k)) /\ n + 1 \notin TriedSince(u, k)
  <2>1. IsFiniteSet(TriedSince(u, k))
    BY TriedFinite
  <2> QED BY <1>1, <1>2, <2>1
<1>5. CASE u = UserOf[r] /\ now >= k
  <2>1. TriedSince(u, k)' = TriedSince(u, k) \cup {n + 1}
    BY <1>1, <1>2, <1>3, <1>5
  <2> QED BY <1>4, <1>5, <2>1, FS_AddElement
<1>6. CASE ~(u = UserOf[r] /\ now >= k)
  <2>1. TriedSince(u, k)' = TriedSince(u, k)
    BY <1>1, <1>2, <1>3, <1>6
  <2> QED BY <1>6, <2>1
<1> QED BY <1>5, <1>6

LEMMA RatesStayOnAttempt ==
  ASSUME Execute!ExecutionConstants, RunTyped, RunsAreCounted, RatesHold, NEW r \in Requests, Execute!Attempt(r),
         attempts' # attempts
  PROVE  RunsAreCounted' /\ RatesHold'
<1> DEFINE me == UserOf[r]
<1>1. attempts' = Append(attempts, [by |-> me, at |-> now]) /\ ~Started(r) /\ now \in Nat /\ me \in Execute!Users
  BY DEF Execute!Attempt, Execute!Goto, Started, RunTyped, Execute!ExecutionConstants, Execute!Users
<1>2. \/ Execute!WithinRate(me) /\ Started(r)' /\ since'[r] = now
      \/ ~Started(r)'
  BY DEF Execute!Attempt, Execute!Goto, Started, RunTyped
<1>3. \A s \in Requests \ {r} : since'[s] = since[s] /\ (Started(s)' <=> Started(s))
  BY DEF Execute!Attempt, Execute!Goto, Started, RunTyped
<1>4. \A s \in Requests : since[s] \in Nat
  BY DEF RunTyped, Execute!ExecutionConstants
<1> HIDE DEF me
<1>5. ASSUME NEW u \in Execute!Users, NEW k \in Int
      PROVE  IsFiniteSet(RunSince(u, k)') /\ Cardinality(RunSince(u, k)') <= Cardinality(TriedSince(u, k)')
  <2>1. /\ IsFiniteSet(RunSince(u, k)) /\ Cardinality(RunSince(u, k)) \in Nat
        /\ Cardinality(RunSince(u, k)) <= Cardinality(TriedSince(u, k)) /\ Cardinality(TriedSince(u, k)) \in Nat
    BY RunInFinite, TriedFinite
  <2>2. Cardinality(TriedSince(u, k)') =
           IF u = me /\ now >= k THEN Cardinality(TriedSince(u, k)) + 1 ELSE Cardinality(TriedSince(u, k))
    BY <1>1, AttemptCounts DEF me
  <2>3. CASE u = me /\ now >= k /\ Started(r)' /\ since'[r] = now
    <3>1. RunSince(u, k)' = RunSince(u, k) \cup {r}
      BY <1>1, <1>3, <2>3 DEF RunSince, me
    <3>2. IsFiniteSet(RunSince(u, k)') /\ Cardinality(RunSince(u, k)') <= Cardinality(RunSince(u, k)) + 1
      <4> PICK S : S = RunSince(u, k)
        OBVIOUS
      <4>1. IsFiniteSet(S) /\ Cardinality(S) \in Nat
        BY <2>1
      <4>2. IsFiniteSet(S \cup {r}) /\ Cardinality(S \cup {r}) = IF r \in S THEN Cardinality(S) ELSE Cardinality(S) + 1
        BY <4>1, FS_AddElement, Zenon
      <4> QED BY <3>1, <4>1, <4>2
    <3>3. Cardinality(RunSince(u, k)') \in Nat
      BY <3>2, FS_CardinalityType
    <3> QED BY <2>1, <2>2, <2>3, <3>2, <3>3
  <2>4. CASE ~(u = me /\ now >= k /\ Started(r)' /\ since'[r] = now)
    <3>1. RunSince(u, k)' = RunSince(u, k)
      BY <1>1, <1>2, <1>3, <2>4 DEF RunSince, me
    <3> QED BY <2>1, <2>2, <3>1
  <2> QED BY <2>3, <2>4
<1>6. ASSUME NEW u \in Execute!Users, NEW t \in Nat PROVE Cardinality(RunIn(u, t)') <= RunsPerMinute
  <2>1. RunIn(u, t) \in SUBSET RunSince(u, t) /\ RunMinute \in Nat /\ RunsPerMinute \in Nat
    BY <1>4 DEF RunIn, RunSince, Execute!ExecutionConstants
  <2>2. IsFiniteSet(RunIn(u, t)) /\ Cardinality(RunIn(u, t)) \in Nat
    BY <2>1, RunInFinite
  <2>3. CASE u = me /\ Execute!WithinRate(me) /\ now \in t..(t + RunMinute) /\ Started(r)' /\ since'[r] = now
    <3>1. RunIn(u, t)' = RunIn(u, t) \cup {r}
      BY <1>1, <1>3, <2>3 DEF RunIn, me
    <3> DEFINE before == RunIn(u, t)
    <3>0. IsFiniteSet(before \cup {r}) /\ Cardinality(before \cup {r}) <= Cardinality(before) + 1
      <4> HIDE DEF before
      <4>1. IsFiniteSet(before) /\ Cardinality(before) \in Nat
        BY <2>2 DEF before
      <4>2. /\ IsFiniteSet(before \cup {r})
            /\ Cardinality(before \cup {r}) = IF r \in before THEN Cardinality(before) ELSE Cardinality(before) + 1
        BY <4>1, FS_AddElement, Zenon
      <4> QED BY <4>1, <4>2
    <3>2. Cardinality(RunIn(u, t)') <= Cardinality(RunIn(u, t)) + 1 /\ Cardinality(RunIn(u, t)') \in Nat
      BY <3>0, <3>1, FS_CardinalityType
    <3>3. RunIn(u, t) \in SUBSET RunSince(u, now - RunMinute) /\ now - RunMinute \in Int
      BY <1>1, <1>4, <2>1, <2>3 DEF RunIn, RunSince
    <3>4. Cardinality(RunIn(u, t)) <= Cardinality(TriedSince(u, now - RunMinute)) /\ Cardinality(TriedSince(u, now - RunMinute)) \in Nat
      BY <3>3, RunInFinite, TriedFinite
    <3>5. Cardinality(TriedSince(u, now - RunMinute)) < RunsPerMinute
      BY <2>3, ExecuteCounts DEF Execute!Recent, TriedSince
    <3> QED BY <2>1, <2>2, <3>2, <3>4, <3>5
  <2>4. CASE ~(u = me /\ Execute!WithinRate(me) /\ now \in t..(t + RunMinute) /\ Started(r)' /\ since'[r] = now)
    <3>1. RunIn(u, t)' = RunIn(u, t)
      BY <1>1, <1>2, <1>3, <2>4 DEF RunIn, me
    <3> QED BY <3>1 DEF RatesHold
  <2> QED BY <2>3, <2>4
<1>7. RunsAreCounted'
  BY <1>5 DEF RunsAreCounted
<1>8. RatesHold'
  BY <1>6 DEF RatesHold
<1> QED BY <1>7, <1>8

(* In no minute does the provider run more programs of one user than the     *)
(* limit, over all processes (api/data.js:2729): attempts are recorded       *)
(* before they are counted, and every program has its attempt.               *)
THEOREM RunsStayLimited == ASSUME Execute!ExecutionConstants PROVE Execute!Spec => []Execute!RunsAreLimited
<1>1. Execute!Init => RunsAreCounted /\ RatesHold
  <2> SUFFICES ASSUME Execute!Init PROVE RunsAreCounted /\ RatesHold
    OBVIOUS
  <2>1. \A r \in Requests : ~Started(r)
    BY DEF Execute!Init, Started
  <2>2. \A u, k : RunSince(u, k) = {} /\ RunIn(u, k) = {} /\ TriedSince(u, k) = {}
    BY <2>1 DEF RunSince, RunIn, TriedSince, Execute!Init
  <2> QED BY <2>2, FS_EmptySet DEF RunsAreCounted, RatesHold, Execute!ExecutionConstants
<1>2. RunInv /\ RunsAreCounted /\ RatesHold /\ [Execute!Next]_(Execute!vars) => RunsAreCounted' /\ RatesHold'
  <2> SUFFICES ASSUME RunInv, RunsAreCounted, RatesHold, [Execute!Next]_(Execute!vars) PROVE RunsAreCounted' /\ RatesHold'
    OBVIOUS
  <2>1. RunTyped
    BY DEF RunInv
  <2>2. (\E r \in Requests : Execute!Attempt(r) /\ attempts' # attempts) \/ UNCHANGED <<attempts, since>>
    <3>1. ASSUME NEW r \in Requests, Execute!Attempt(r), attempts' = attempts PROVE UNCHANGED since
      <4>1. attempts' # Append(attempts, [by |-> UserOf[r], at |-> now])
        BY <2>1, <3>1 DEF RunTyped
      <4> QED BY <3>1, <4>1 DEF Execute!Attempt
    <3> QED BY <3>1 DEF Execute!Next, Execute!vars, Execute!ReadCode, Execute!Acquire, Execute!Start, Execute!Return, Execute!Fail, Execute!Gone, Execute!Persist, Execute!Exclude, Execute!Crash, Execute!Edit, Execute!Complete, Execute!Tick
  <2>3. ASSUME ~\E r \in Requests : Execute!Attempt(r) /\ attempts' # attempts PROVE \A x \in Requests : Started(x)' => Started(x)
    <3>1. ASSUME NEW r \in Requests, NEW next, step' = [step EXCEPT ![r] = next],
                 Started(r) \/ next \notin {"admitted", "running", "ran", "answered"}
          PROVE  \A x \in Requests : Started(x)' => Started(x)
      BY <2>1, <3>1 DEF Started, RunTyped
    <3>2. ASSUME NEW r \in Requests, \/ Execute!ReadCode(r) \/ Execute!Acquire(r) \/ Execute!Start(r)
                                      \/ Execute!Return(r) \/ Execute!Fail(r) \/ Execute!Persist(r)
          PROVE  \A x \in Requests : Started(x)' => Started(x)
      <4>1. CASE Execute!ReadCode(r) \/ Execute!Acquire(r)
        <5>1. \E next \in {"read", "refused", "leased", "failed"} : step' = [step EXCEPT ![r] = next]
          BY <4>1 DEF Execute!ReadCode, Execute!Acquire, Execute!Goto
        <5> QED BY <3>1, <5>1
      <4>2. CASE Execute!Start(r) \/ Execute!Return(r) \/ Execute!Fail(r) \/ Execute!Persist(r)
        <5>1. Started(r) /\ \E next \in {"running", "ran", "failed", "answered"} : step' = [step EXCEPT ![r] = next]
          BY <4>2 DEF Execute!Start, Execute!Return, Execute!Fail, Execute!Persist, Execute!Goto, Started
        <5> QED BY <3>1, <5>1
      <4> QED BY <3>2, <4>1, <4>2
    <3>3. ASSUME NEW s, Execute!Crash(s) PROVE \A x \in Requests : Started(x)' => Started(x)
      BY <3>3 DEF Execute!Crash, Started
    <3>6. ASSUME NEW r \in Requests, Execute!Attempt(r), attempts' = attempts
          PROVE  \A x \in Requests : Started(x)' => Started(x)
      <4>1. attempts' # Append(attempts, [by |-> UserOf[r], at |-> now])
        BY <2>1, <3>6 DEF RunTyped
      <4>2. step' = [step EXCEPT ![r] = "failed"]
        BY <3>6, <4>1 DEF Execute!Attempt, Execute!Goto
      <4> QED BY <3>1, <4>2
    <3>4. ASSUME UNCHANGED step PROVE \A x \in Requests : Started(x)' => Started(x)
      BY <3>4 DEF Started
    <3>5. \/ \E r \in Requests : \/ Execute!ReadCode(r) \/ Execute!Acquire(r) \/ Execute!Start(r)
                                 \/ Execute!Return(r) \/ Execute!Fail(r) \/ Execute!Persist(r)
          \/ \E r \in Requests : Execute!Attempt(r) /\ attempts' = attempts
          \/ \E s : Execute!Crash(s)
          \/ UNCHANGED step
      BY <2>3 DEF Execute!Next, Execute!vars, Execute!Gone, Execute!Exclude, Execute!Edit, Execute!Complete, Execute!Tick
    <3> QED BY <3>2, <3>3, <3>4, <3>5, <3>6
  <2> QED BY <2>1, <2>2, <2>3, RatesStay, RatesStayOnAttempt
<1>3. RunInv /\ RatesHold => Execute!RunsAreLimited
  <2> SUFFICES ASSUME RunInv, RatesHold, NEW u \in Execute!Users, NEW t \in 0..now
               PROVE  Cardinality({r \in Requests : UserOf[r] = u /\ step[r] \in {"admitted", "running", "ran", "answered"}
                                                 /\ since[r] \in t..(t + RunMinute)}) <= RunsPerMinute
    BY ExecuteCounts
  <2>1. t \in Nat
    BY DEF RunInv, RunTyped
  <2>2. Cardinality(RunIn(u, t)) <= RunsPerMinute
    BY <2>1 DEF RatesHold
  <2> QED BY <2>2 DEF RunIn, Started
<1> QED BY <1>1, <1>2, <1>3, AlwaysRunInv, PTL DEF Execute!Spec
=============================================================================
