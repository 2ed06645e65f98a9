------------------------------ MODULE Workspace ------------------------------
(***************************************************************************)
(* The shared workspace of a room: pages that edit code and board, keep    *)
(* what is not yet stored, poll, and write whole snapshots under a         *)
(* revision check (the workspace script of index.html, handleWorkspacePost *)
(* and handleWorkspaceGet of api/video.js). Every edit has a number of its *)
(* own. "code" is the editor and its question while no code document owns  *)
(* the text, the question and language alone when one does.                *)
(***************************************************************************)
EXTENDS Naturals, Sequences, FiniteSets

CONSTANTS
  Pages,
  None,
  Seeded,       \* the room has a snapshot when the pages first open it
  Editing,      \* who edits what: pairs of a page and "code" or "board"
  Slow,         \* the pages whose writes may time out
  Restless,     \* the pages that close, reload or sign out
  TooLarge,     \* edits the server's validation refuses
  MaxEdits, MaxRevision, MaxSeq,
  MaxRetries    \* MAX_SAVE_RETRIES

(* Assumed of every instance. *)
WorkspaceConstants ==
  /\ None \notin Pages /\ Restless \subseteq Pages /\ Seeded \in BOOLEAN /\ TooLarge \subseteq Nat
  /\ MaxEdits \in Nat /\ MaxRevision \in Nat /\ MaxSeq \in Nat /\ MaxRetries \in Nat

VARIABLES
  log,      \* the snapshots stored so far; the row of pair_room_snapshots is the last
  typed,    \* who made each edit
  page,     \* the workspace state of each page, with its editor and board
  asked,    \* the poll of each page
  posts     \* writes under way to the server

roomVars == <<log, typed, page, asked, posts>>

Domains  == {"code", "board"}
Blank    == [d \in Domains |-> 0]
NoFlight == [seq |-> 0, dirty |-> {}, change |-> Blank, reply |-> None]

NewPage == [open |-> FALSE, hydrated |-> FALSE, early |-> {}, upgrade |-> FALSE, blocked |-> FALSE,
            revision |-> 0, base |-> None, local |-> Blank, drawn |-> FALSE, settling |-> FALSE,
            pending |-> {}, flight |-> NoFlight, seq |-> 0, ack |-> 0, due |-> FALSE, retries |-> 0,
            told |-> Blank, stroke |-> 0]

Row      == [revision |-> Len(log), snapshot |-> IF log = <<>> THEN None ELSE log[Len(log)]]

Init ==
  /\ log = IF Seeded THEN <<[client |-> None, seq |-> 0, content |-> Blank]>> ELSE <<>>
  /\ typed = <<>> /\ posts = {}
  /\ page = [p \in Pages |-> [NewPage EXCEPT !.open = TRUE]]
  /\ asked = [p \in Pages |-> None]

-----------------------------------------------------------------------------
(* What a page does with a snapshot, an edit and its timers.                *)

(* applySnapshot; a board that is applied is no longer dirty.               *)
Apply(g, row, ds) ==
  IF row.revision < g.revision THEN g
  ELSE [g EXCEPT !.revision = row.revision, !.base = row.snapshot.content,
                 !.local = [d \in Domains |-> IF d \in ds THEN row.snapshot.content[d] ELSE @[d]],
                 !.drawn = IF "board" \in ds THEN FALSE ELSE @]

Differs(g, d, content) == content = None \/ g.local[d] # content[d]
Target(g, d) == IF d \in g.flight.dirty THEN g.flight.change ELSE g.base

Refresh(g) ==
  IF ~g.hydrated THEN g
  ELSE [g EXCEPT !.pending = {d \in Domains : \/ Differs(g, d, Target(g, d))
                                              \/ d = "board" /\ (g.upgrade \/ g.drawn)}]

Schedule(g, domain) ==
  LET told == IF domain = "resume" THEN g ELSE [g EXCEPT !.blocked = FALSE]
      r    == Refresh(told) IN
  IF ~g.hydrated \/ ~g.open THEN g
  ELSE [r EXCEPT !.due = r.pending # {}, !.retries = 0]

Compose(g) ==
  [d \in Domains |-> IF d \in g.pending \/ g.base = None THEN g.local[d] ELSE g.base[d]]

(* retrySave. Mutant of Again: it never gives up.                           *)
AgainEver(g) == [g EXCEPT !.retries = @ + 1, !.due = TRUE]
Again(g) ==
  IF g.retries >= MaxRetries THEN [g EXCEPT !.pending = {}, !.blocked = TRUE]
  ELSE [g EXCEPT !.retries = @ + 1, !.due = TRUE]

(* The finally of drainSave.                                                *)
Landed(g, retryLater) ==
  LET r == Refresh([g EXCEPT !.flight = NoFlight]) IN
  IF retryLater /\ r.pending # {} THEN Again(r)
  ELSE [r EXCEPT !.due = @ \/ r.pending # {}]

-----------------------------------------------------------------------------
(* What outlives activation: the device keeps the board with its mark, and   *)
(* the editor its text.                                                      *)
Device(g) ==
  [NewPage EXCEPT !.local = g.local, !.drawn = g.drawn, !.stroke = g.stroke,
                  !.told["board"] = g.told["board"], !.seq = g.seq, !.ack = g.ack]

Open(p) ==
  /\ ~page[p].open
  /\ page' = [page EXCEPT ![p] = [Device(@) EXCEPT !.open = TRUE]]
  /\ UNCHANGED <<log, typed, asked, posts>>

(* deactivate: the tab leaves, the session ends or the access is refused.    *)
Gone(p) ==
  /\ page' = [page EXCEPT ![p] = Device(@)]
  /\ asked' = [asked EXCEPT ![p] = None]
  /\ UNCHANGED <<log, typed, posts>>

Deactivate(p) == page[p].open /\ p \in Restless /\ Gone(p)

(* requestAccess of another room leaves this one only after a flush.        *)
Flushed(g) == g.hydrated /\ Refresh(g).pending = {} /\ g.flight = NoFlight /\ ~g.drawn
SwitchRoom(p) == page[p].open /\ Flushed(page[p]) /\ p \in Restless /\ Gone(p)

Edit(p, d, g) ==
  /\ page[p].open /\ Len(typed) < MaxEdits /\ <<p, d>> \in Editing
  /\ typed' = Append(typed, p)
  /\ page' = [page EXCEPT ![p] = g]
  /\ UNCHANGED <<log, asked, posts>>

Early(g, d) == IF g.hydrated THEN g ELSE [g EXCEPT !.early = @ \cup {d}]

Type(p) ==
  LET g == [page[p] EXCEPT !.local["code"] = Len(typed) + 1, !.told["code"] = Len(typed) + 1] IN
  Edit(p, "code", Schedule(Early(g, "code"), "code"))

(* A stroke is kept on the device at once and told to the workspace later.  *)
Draw(p) ==
  Edit(p, "board", [page[p] EXCEPT !.local["board"] = Len(typed) + 1, !.drawn = TRUE,
                            !.settling = TRUE, !.stroke = Len(typed) + 1])

Settle(p) ==
  LET g == [page[p] EXCEPT !.settling = FALSE,
                           !.told["board"] = IF page[p].drawn THEN page[p].local["board"] ELSE @] IN
  /\ page[p].open /\ page[p].settling
  /\ page' = [page EXCEPT ![p] = Schedule(Early(g, "board"), "board")]
  /\ UNCHANGED <<log, typed, asked, posts>>

-----------------------------------------------------------------------------
(* The answer holds what the server read and may be late; a poll that is     *)
(* lost changes nothing.                                                     *)
Poll(p) ==
  /\ page[p].open /\ asked[p] = None
  /\ asked' = [asked EXCEPT ![p] =
        [hydrating |-> ~page[p].hydrated,
         row |-> IF Len(log) > page[p].revision THEN Row ELSE [Row EXCEPT !.snapshot = None]]]
  /\ UNCHANGED <<log, typed, page, posts>>

OwnEcho(p, s) ==
  s.client = p /\ (s.seq <= page[p].ack \/ s.seq = page[p].flight.seq)

(* Mutant of Preserved: a write that is under way no longer protects.       *)
PreservedPending(p, s, hydrating) == page[p].early \cup page[p].pending
Preserved(p, s, hydrating) ==
  LET g == page[p] IN
  {d \in Domains :
     \/ d \in g.early \/ d \in g.pending
     \/ d \in g.flight.dirty /\ ~OwnEcho(p, s)
     \/ d = "board" /\ g.drawn
     \/ g.hydrated /\ ~hydrating /\ Differs(g, d, g.base)}

Hydrated(g, row) ==
  LET h == [g EXCEPT !.hydrated = TRUE, !.early = {}] IN
  IF row.snapshot = None
  THEN Schedule([h EXCEPT !.upgrade = TRUE], "resume")
  ELSE IF Refresh(h).pending # {} THEN Schedule(h, "resume") ELSE Refresh(h)

Reconciled(g) ==
  LET r == Refresh(g) IN
  IF r.pending # {} /\ r.flight = NoFlight /\ ~r.due THEN Schedule(r, "resume") ELSE r

Receive(p) ==
  LET a    == asked[p]
      row  == a.row
      seen == IF row.snapshot # None /\ (a.hydrating \/ row.revision > page[p].revision)
              THEN Apply(page[p], row, Domains \ Preserved(p, row.snapshot, a.hydrating))
              ELSE page[p] IN
  /\ a # None
  /\ asked' = [asked EXCEPT ![p] = None]
  /\ page' = [page EXCEPT ![p] =
        IF a.hydrating THEN Hydrated(seen, row)
        ELSE IF row.snapshot # None THEN Reconciled(seen) ELSE seen]
  /\ UNCHANGED <<log, typed, posts>>

-----------------------------------------------------------------------------
DrainSave(p) ==
  LET g == page[p]
      sends == g.open /\ g.flight = NoFlight /\ g.pending # {}
      change == Compose(g) IN
  /\ g.due /\ g.seq < MaxSeq
  /\ page' = [page EXCEPT ![p] =
        IF sends
        THEN [g EXCEPT !.due = FALSE, !.pending = {}, !.seq = @ + 1,
                       !.flight = [seq |-> g.seq + 1, dirty |-> g.pending, change |-> change, reply |-> None]]
        ELSE [g EXCEPT !.due = FALSE]]
  /\ posts' = posts \cup
        IF sends THEN {[client |-> p, seq |-> g.seq + 1, on |-> g.revision, content |-> change, done |-> FALSE]}
        ELSE {}
  /\ UNCHANGED <<log, typed, asked>>

Snapshot(post) == [client |-> post.client, seq |-> post.seq, content |-> post.content]

(* The answer reaches the page only while it still waits for it.            *)
Answer(post, kind) ==
  page' = [page EXCEPT ![post.client].flight =
     IF @.seq = post.seq THEN [@ EXCEPT !.reply = [kind |-> kind, row |-> Row]] ELSE @]

BasedOnRow(post) == post.on = Len(log)

Store(post) ==
  /\ ~post.done /\ BasedOnRow(post) /\ Len(log) < MaxRevision
  /\ post.content["board"] \notin TooLarge
  /\ log' = Append(log, Snapshot(post))
  /\ posts' = (posts \ {post}) \cup {[post EXCEPT !.done = TRUE]}
  /\ UNCHANGED <<typed, page, asked>>

(* The snapshot answered is read after the write, and may be a later one.   *)
Stored(post) ==
  /\ post.done
  /\ Answer(post, "saved") /\ posts' = posts \ {post}
  /\ UNCHANGED <<log, typed, asked>>

Refuse(post) ==
  /\ ~post.done
  /\ \/ post.content["board"] \in TooLarge /\ Answer(post, "refused")
     \/ post.content["board"] \notin TooLarge /\ ~BasedOnRow(post) /\ Answer(post, "conflict")
  /\ posts' = posts \ {post}
  /\ UNCHANGED <<log, typed, asked>>

Conflict(g, row) ==
  IF row.snapshot # None /\ row.revision >= g.revision
  THEN Apply(g, row, Domains \ (g.flight.dirty \cup g.pending)) ELSE g

Saved(g, row) ==
  LET done == [g EXCEPT !.retries = 0, !.blocked = FALSE, !.upgrade = FALSE,
                        !.ack = IF @ < g.flight.seq THEN g.flight.seq ELSE @] IN
  IF row.revision < g.revision THEN g
  ELSE Apply(done, row, {d \in Domains : d \notin g.pending /\ g.local[d] = g.flight.change[d]})

ReceiveSave(p) ==
  LET g == page[p]
      r == g.flight.reply IN
  /\ g.open /\ g.flight # NoFlight /\ r # None
  /\ page' = [page EXCEPT ![p] =
        CASE r.kind = "saved"    -> Landed(Saved(g, r.row), FALSE)
          [] r.kind = "conflict" -> Landed(Conflict(g, r.row), TRUE)
          [] OTHER               -> [g EXCEPT !.flight = NoFlight, !.blocked = TRUE,
                                              !.due = g.pending # {}]]
  /\ UNCHANGED <<log, typed, asked, posts>>

(* Eight seconds without an answer, or an answer of 408, 429 or 5xx; the     *)
(* request may still be on its way, or be lost.                             *)
TimeOut(p) ==
  /\ p \in Slow /\ page[p].flight # NoFlight /\ page[p].flight.reply = None
  /\ page' = [page EXCEPT ![p] = Landed(page[p], TRUE)]
  /\ UNCHANGED <<log, typed, asked, posts>>

Next ==
  \/ \E p \in Pages :
       \/ Open(p) \/ Deactivate(p) \/ SwitchRoom(p) \/ Type(p) \/ Draw(p) \/ Settle(p)
       \/ Poll(p) \/ Receive(p)
       \/ DrainSave(p) \/ ReceiveSave(p) \/ TimeOut(p)
  \/ \E post \in posts : Store(post) \/ Stored(post) \/ Refuse(post)

Spec == Init /\ [][Next]_roomVars

-----------------------------------------------------------------------------
TypeOK ==
  /\ Len(log) <= MaxRevision /\ Len(typed) <= MaxEdits
  /\ \A p \in Pages :
       /\ page[p].pending \subseteq Domains /\ page[p].early \subseteq Domains
       /\ page[p].revision <= Len(log) /\ page[p].retries <= MaxRetries
       /\ page[p].hydrated => page[p].open
  /\ \A post \in posts : post.client \in Pages /\ post.seq <= page[post.client].seq

(* A write changes a domain only to what its own page edited there: saving  *)
(* the board never takes the partner's code back, nor a retry, nor a write  *)
(* that arrives after its page gave it up. Rooms that had no snapshot are   *)
(* excepted: see UntouchedNeverOverwrites.                                   *)
WritesAreOwn ==
  \A r \in 1..Len(log), d \in Domains :
    LET before == IF r = 1 THEN 0 ELSE log[r - 1].content[d]
        now    == log[r].content[d] IN
    now # before => IF now = 0 THEN ~Seeded ELSE typed[now] = log[r].client

(* A page that edited nothing never takes an edit back. Not so in a room two *)
(* pages open before its first snapshot: both send what they show, and the   *)
(* one whose first write conflicts keeps its untouched content and sends it  *)
(* again on the new revision.                                                *)
UntouchedNeverOverwrites ==
  \A r \in 2..Len(log), d \in Domains :
    log[r - 1].content[d] # 0 => log[r].content[d] # 0

(* A stroke is kept in its page until the server has had it. Not so within   *)
(* the 700 ms before the workspace is told of it: a write of code that       *)
(* conflicts replaces the board, and its mark, by the server's.              *)
DrawingsAreKept ==
  \A p \in Pages :
    LET e == page[p].stroke IN
    \/ e = 0 \/ page[p].local["board"] = e
    \/ \E r \in 1..Len(log) : log[r].content["board"] = e

(* An edit the workspace was told of stays in its page until the server has *)
(* had it, whatever snapshots, conflicts and lost answers come between.     *)
WorkIsKept ==
  \A p \in Pages, d \in Domains :
    LET e == page[p].told[d] IN
    \/ e = 0 \/ page[p].local[d] = e
    \/ page[p].local[d] > e /\ typed[page[p].local[d]] = p
    \/ \E r \in 1..Len(log) : log[r].content[d] >= e /\ typed[log[r].content[d]] = p

(* A page with nothing left to send shows what the server has.              *)
SettledPagesAgree ==
  \A p \in Pages :
    LET g == page[p] IN
    g.hydrated /\ g.pending = {} /\ g.flight = NoFlight /\ ~g.drawn /\ ~g.blocked /\ g.revision = Len(log)
      /\ ~g.due /\ log # <<>> => g.local = log[Len(log)].content
=============================================================================
