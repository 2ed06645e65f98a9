----------------------------- MODULE RoomPanels -----------------------------
(* The panels of a room on one participant's page (src/index.html): whether *)
(* the session is completed, its shared controls, its meeting link. Each    *)
(* reads and writes through requests of its own, polls, gives requests up,  *)
(* and hears of the others through two events of the page.                  *)
EXTENDS Naturals

CONSTANTS
  Panels,      \* those of the page: a subset of "completion", "controls", "meeting"
  None,
  MaxChanges,  \* bound: changes by the partner
  MaxWrites,   \* bound: writes that the participant begins
  Refusing     \* whether the server may refuse: access ends and returns

(* Assumed of every instance. *)
PanelsConstants ==
  Panels \subseteq {"completion", "controls", "meeting"} /\ None \notin Panels /\ Refusing \in BOOLEAN

VARIABLES
  server,    \* what the server holds about the room: versions and facts
  page,      \* [panel, request: by panel; hydrated, visible: of the page]
  late,      \* writes that were given up and may still be served
  card,      \* a schedule the dashboard has read and not shown yet
  told,      \* last version that a panel was answered for its own write
  pair,      \* [known: the pair is in the page's cache, overtook: panels waiting then,
             \*  rejoined: the room was joined once more, refused: panels closed by an answer]
  changes, writes

panelVars == <<server, page, late, card, told, pair, changes, writes>>

NoRequest == [kind |-> "none"]
Refused == [kind |-> "refused"]      \* a status of 401, 403 or 404
Closed == [open |-> FALSE, token |-> FALSE, shown |-> None, busy |-> FALSE, timer |-> FALSE,
           schedule |-> None, completion |-> None, agreed |-> FALSE, life |-> "none"]

Completed(s) == s.mine /\ s.partner
Lifecycle(s) == IF Completed(s) THEN "completed" ELSE IF s.agreed THEN "active" ELSE "unscheduled"

Init ==
  /\ server = [mine |-> FALSE, partner |-> FALSE, agreed |-> TRUE, terminal |-> FALSE,
               completion |-> 0, controls |-> 0, schedule |-> 0, meeting |-> 0]
  /\ page = [panel |-> [p \in Panels |-> Closed], request |-> [p \in Panels |-> NoRequest],
             hydrated |-> FALSE, visible |-> TRUE]
  /\ late = [p \in Panels |-> None] /\ card = None
  /\ told = [p \in Panels |-> 0]
  /\ pair = [known |-> FALSE, overtook |-> {}, rejoined |-> FALSE, refused |-> {}] /\ changes = 0 /\ writes = 0

-----------------------------------------------------------------------------
(* What handlers do to the page: operators from a page to the next one. A    *)
(* request that is replaced or dropped is aborted and its answer ignored.    *)
Set(g, p, new) == [g EXCEPT !.panel[p] = new]
Sends(g, p, request) == [g EXCEPT !.request[p] = request]
Drops(g, p) == Sends(g, p, NoRequest)
Shut(g, p) == Drops(Set(g, p, Closed), p)

Read(g, p) == [kind |-> "load", base |-> None, answer |-> None, schedule |-> g.panel[p].schedule,
               completion |-> g.panel[p].completion, token |-> g.panel[p].token]

(* Controls and link: a new actor, room or cycle starts the panel afresh.    *)
Adopted(g, p) ==
  LET o == g.panel[p] IN
  IF o.open /\ o.token = pair.known THEN g
  ELSE Drops(Set(g, p, [Closed EXCEPT !.open = TRUE, !.token = pair.known,
                                      !.busy = p = "meeting" /\ o.busy,
                                      !.timer = p = "meeting" /\ o.timer]), p)

LoadControls(g) ==
  LET a == Adopted(g, "controls")
      o == a.panel["controls"] IN
  IF ~g.hydrated THEN Shut(g, "controls")
  ELSE IF o.busy /\ o.shown # None THEN a
  ELSE Sends(Set(a, "controls", [o EXCEPT !.timer = FALSE, !.busy = o.shown = None]),
             "controls", Read(a, "controls"))

LoadLink(g) ==
  LET a == Adopted(g, "meeting") IN
  Sends(Set(a, "meeting", [a.panel["meeting"] EXCEPT !.busy = TRUE]), "meeting", Read(a, "meeting"))

Tick(g, o) == g.visible /\ ~o.busy

(* randori:completion-observed, heard by the controls and by the link.       *)
ControlsHear(g, s) ==
  LET o == g.panel["controls"]
      stopped == [o EXCEPT !.busy = FALSE, !.timer = FALSE, !.completion = s.completion,
                           !.shown = IF Completed(s) /\ @ # None THEN [@ EXCEPT !.terminal = TRUE] ELSE @] IN
  IF ~o.open \/ o.completion = s.completion THEN g
  ELSE LoadControls(Drops(Set(g, "controls", stopped), "controls"))

LinkHears(g, s) ==
  LET o == g.panel["meeting"]
      changed == o.completion # None /\ o.completion # s.completion
      h == IF changed THEN Drops(g, "meeting") ELSE g
      heard == [o EXCEPT !.completion = s.completion,
                         !.shown = IF changed \/ Completed(s) THEN None ELSE @,
                         !.life = IF Completed(s) THEN "completed" ELSE @] IN
  IF ~o.open THEN g
  ELSE IF ~Completed(s) /\ o.agreed THEN LoadLink(Set(h, "meeting", heard))
  ELSE Set(h, "meeting", heard)

Hears(g, s) ==
  LET h == IF "controls" \in Panels THEN ControlsHear(g, s) ELSE g IN
  IF "meeting" \in Panels THEN LinkHears(h, s) ELSE h

(* render of the completion panel tells what it shows.                       *)
TellCompletion(g) ==
  LET o == g.panel["completion"]
      drawn == Set(g, "completion",
                   [o EXCEPT !.timer = o.shown # None /\ ~Completed(o.shown) /\ Tick(g, o)]) IN
  IF o.shown = None THEN drawn ELSE Hears(drawn, o.shown)

LoadCompletion(g) ==
  LET o == g.panel["completion"]
      same == o.open /\ o.token = pair.known
      kept == IF same THEN o.shown ELSE None IN
  IF ~g.hydrated THEN Shut(g, "completion")
  ELSE IF same /\ o.busy /\ o.shown # None THEN g
  ELSE LET n == Set(g, "completion", [Closed EXCEPT !.open = TRUE, !.token = pair.known,
                                                    !.shown = kept, !.busy = kept = None]) IN
       Sends(n, "completion", Read(n, "completion"))

Load(g, p) ==
  CASE p = "completion" -> LoadCompletion(g)
    [] p = "controls"   -> LoadControls(g)
    [] p = "meeting"    -> LoadLink(g)

(* The panels load in the order in which they listen.                        *)
LoadAll(g, wanted) ==
  LET a == IF "completion" \in wanted THEN LoadCompletion(g) ELSE g
      b == IF "controls" \in wanted THEN LoadControls(a) ELSE a IN
  IF "meeting" \in wanted THEN LoadLink(b) ELSE b

-----------------------------------------------------------------------------
(* Answers. Each is dropped when the scope it was asked for is over.         *)
InScope(p) == page.request[p].token = page.panel[p].token /\ page.panel[p].token = pair.known

Adopts(o, s) == o.schedule \in {None, s.schedule} /\ o.completion \in {None, s.completion}

ShowsLink(g, s) ==
  LET o == [g.panel["meeting"] EXCEPT !.schedule = s.schedule, !.completion = s.completion,
              !.agreed = s.agreed, !.life = Lifecycle(s), !.busy = FALSE,
              !.shown = IF Lifecycle(s) = "active" THEN s ELSE None] IN
  Set(g, "meeting", [o EXCEPT !.timer = o.life = "active" /\ g.visible])

LinkAnswered(g, s, kind) ==
  IF kind = "load" /\ ~Adopts(g.panel["meeting"], s)
  THEN LoadLink(Set(g, "meeting", [Closed EXCEPT !.open = TRUE, !.token = g.panel["meeting"].token,
                                                 !.timer = g.panel["meeting"].timer]))
  ELSE ShowsLink(g, s)

ControlsAnswered(g, s) ==
  Set(g, "controls", [g.panel["controls"] EXCEPT !.shown = s, !.completion = s.completion,
        !.busy = FALSE, !.timer = ~s.terminal /\ g.visible])

CompletionAnswered(g, s) ==
  TellCompletion(Set(g, "completion", [g.panel["completion"] EXCEPT !.shown = s, !.busy = FALSE]))

Answered(g, p, s, kind) ==
  CASE p = "completion" -> CompletionAnswered(g, s)
    [] p = "controls"   -> ControlsAnswered(g, s)
    [] p = "meeting"    -> LinkAnswered(g, s, kind)

(* Failures: a read leaves what is shown and polls on, and a write whose     *)
(* fate is unknown is looked up.                                            *)
LinkFailed(g, request) ==
  LET o == g.panel["meeting"]
      n == [o EXCEPT !.shown = None, !.busy = FALSE, !.life = IF o.agreed THEN "active" ELSE "none"]
      h == Set(g, "meeting", [n EXCEPT !.timer = n.life = "active" /\ g.visible]) IN
  IF request.schedule # o.schedule \/ request.completion # o.completion THEN g
  ELSE IF request.kind = "write" THEN LoadLink(h) ELSE h

ControlsFailed(g, request) ==
  LET o == [g.panel["controls"] EXCEPT !.busy = FALSE] IN
  IF request.kind = "load" /\ o.shown # None
  THEN Set(g, "controls", [o EXCEPT !.timer = ~o.shown.terminal /\ g.visible])
  ELSE Set(g, "controls", [o EXCEPT !.shown = None, !.timer = FALSE])

CompletionFailed(g, request) ==
  LET h == TellCompletion(Set(g, "completion", [g.panel["completion"] EXCEPT !.busy = FALSE])) IN
  IF request.kind = "write" THEN LoadCompletion(h) ELSE h

Failed(g, p, request) ==
  CASE p = "completion" -> CompletionFailed(g, request)
    [] p = "controls"   -> ControlsFailed(g, request)
    [] p = "meeting"    -> LinkFailed(g, request)

(* A read that the server refuses closes the controls or the link; the panel *)
(* of the completion, and every write, treat it as a failure.               *)
Closing(p, request) == p \in {"controls", "meeting"} /\ request.kind = "load" /\ request.answer = Refused

Heard(g, p, request) ==
  IF request.answer # Refused THEN Answered(g, p, request.answer, request.kind)
  ELSE IF Closing(p, request) THEN Shut(g, p)
  ELSE Failed(g, p, request)

-----------------------------------------------------------------------------
(* A handler ran: writes that it gave up may still reach the server.         *)
GivenUp(p, g) == page.request[p].kind = "write" /\ page.request[p].answer = None /\ g.request[p].kind # "write"

Becomes(g) ==
  /\ page' = g
  /\ late' = [p \in Panels |-> IF GivenUp(p, g) THEN page.request[p].base ELSE late[p]]

Quiet == UNCHANGED <<server, card, told, changes, writes>>

(* The workspace has the room's content, or gives it up. (A link that the     *)
(* dashboard draws too is closed at its next poll instead.)                  *)
Hydrate ==
  /\ ~page.hydrated /\ Becomes(LoadAll([page EXCEPT !.hydrated = TRUE], Panels))
  /\ pair' = [pair EXCEPT !.refused = {}] /\ Quiet

Deactivated == [page EXCEPT !.panel = [p \in Panels |-> Closed], !.request = [p \in Panels |-> NoRequest]]

Deactivate ==
  /\ page.hydrated /\ Becomes([Deactivated EXCEPT !.hydrated = FALSE])
  /\ UNCHANGED pair /\ Quiet

(* joinSessionDeterministic from the dashboard, for the room the workspace   *)
(* is in: the panels hear of a change of room, the workspace sees none.      *)
Rejoin ==
  /\ page.hydrated /\ Becomes(Deactivated)
  /\ pair' = [pair EXCEPT !.rejoined = TRUE] /\ Quiet

Hide ==
  /\ page.visible
  /\ Becomes([page EXCEPT !.visible = FALSE, !.request = [p \in Panels |-> NoRequest],
                !.panel = [p \in Panels |-> [@[p] EXCEPT !.busy = FALSE, !.timer = FALSE]]])
  /\ UNCHANGED pair /\ Quiet

Show ==
  /\ ~page.visible
  /\ Becomes(LoadAll([page EXCEPT !.visible = TRUE], {p \in Panels : page.panel[p].open}))
  /\ UNCHANGED pair /\ Quiet

(* showDashboard puts the pair in the cache, which is part of every scope.   *)
PairArrives ==
  /\ ~pair.known
  /\ pair' = [pair EXCEPT !.known = TRUE, !.overtook = {p \in Panels : page.panel[p].open}]
  /\ UNCHANGED <<page, late>> /\ Quiet

Poll(p) ==
  /\ page.panel[p].timer /\ Becomes(Load(Set(page, p, [page.panel[p] EXCEPT !.timer = FALSE]), p))
  /\ UNCHANGED pair /\ Quiet

Retry(p) ==
  /\ p # "meeting" /\ page.panel[p].open /\ page.panel[p].shown = None /\ ~page.panel[p].busy
  /\ page.visible /\ Becomes(Load(page, p))
  /\ UNCHANGED pair /\ Quiet

(* mutate of each panel.                                                     *)
MayWrite(p) ==
  LET o == page.panel[p] IN
  /\ o.open /\ o.shown # None /\ ~o.busy /\ page.visible
  /\ CASE p = "completion" -> ~Completed(o.shown)
       [] p = "controls"   -> ~o.shown.terminal
       [] p = "meeting"    -> o.life = "active"

Change(p) ==
  LET o == [page.panel[p] EXCEPT !.busy = TRUE]
      request == [Read(page, p) EXCEPT !.kind = "write", !.base = o.shown,
                    !.token = IF p = "completion" THEN pair.known ELSE @]
      g == Sends(Set(page, p, o), p, request) IN
  /\ writes < MaxWrites /\ writes' = writes + 1 /\ MayWrite(p)
  /\ Becomes(CASE p = "completion" -> TellCompletion(g)
               [] p = "controls"   -> Set(g, p, [o EXCEPT !.timer = FALSE])
               [] p = "meeting"    -> g)
  /\ UNCHANGED <<server, card, told, pair, changes>>

(* The card of the schedule on the dashboard: what it reads it shows later,  *)
(* and the link hears of it; it goes with the dashboard.                     *)
ScheduleHeard(g, c) ==
  LET a == Adopted(g, "meeting")
      o == a.panel["meeting"]
      changed == o.schedule # None /\ o.schedule # c.schedule
      heard == [o EXCEPT !.schedule = c.schedule, !.agreed = c.agreed,
                         !.shown = IF changed \/ ~c.agreed THEN None ELSE @,
                         !.life = IF c.agreed THEN @ ELSE "unscheduled"]
      h == Set(IF changed THEN Drops(a, "meeting") ELSE a, "meeting", heard) IN
  IF c.agreed THEN LoadLink(h) ELSE h

CardReads ==
  /\ "meeting" \in Panels /\ card = None /\ page.visible
  /\ card' = [schedule |-> server.schedule, agreed |-> server.agreed]
  /\ UNCHANGED <<server, page, late, told, pair, changes, writes>>

CardShows ==
  /\ card # None /\ card' = None
  /\ Becomes(IF page.visible THEN ScheduleHeard(page, card) ELSE page)
  /\ UNCHANGED <<server, told, pair, changes, writes>>

CardGoes ==
  /\ "meeting" \in Panels /\ page.panel["meeting"].open
  /\ Becomes(Shut(page, "meeting")) /\ card' = None
  /\ UNCHANGED <<server, told, pair, changes, writes>>

-----------------------------------------------------------------------------
(* The server (mutateAttempt of each part; see SessionRoom).                 *)
Confirming(s, b) ==
  IF s.mine = b.mine /\ s.completion = b.completion /\ ~Completed(s)
  THEN [s EXCEPT !.mine = ~@, !.completion = @ + 1, !.terminal = ~b.mine /\ s.partner] ELSE s

Controlling(s, b) ==
  IF ~Completed(s) /\ s.controls = b.controls THEN [s EXCEPT !.controls = @ + 1] ELSE s

Linking(s, b) ==
  IF /\ Lifecycle(s) = "active" /\ s.schedule = b.schedule /\ s.completion = b.completion
     /\ s.meeting = b.meeting
  THEN [s EXCEPT !.meeting = @ + 1] ELSE s

Written(p, b) ==
  CASE p = "completion" -> Confirming(server, b)
    [] p = "controls"   -> Controlling(server, b)
    [] p = "meeting"    -> Linking(server, b)

(* The participant's session, membership or room may have ended at any      *)
(* request and be there again at the next (signed in from another tab).      *)
Serve(p) ==
  LET request == page.request[p] IN
  /\ request # NoRequest /\ request.answer = None
  /\ \/ /\ server' = IF request.kind = "write" THEN Written(p, request.base) ELSE server
        /\ page' = Sends(page, p, [request EXCEPT !.answer = server'])
     \/ /\ Refusing /\ page' = Sends(page, p, [request EXCEPT !.answer = Refused])
        /\ UNCHANGED server
  /\ UNCHANGED <<late, card, told, pair, changes, writes>>

ServeLate(p) ==
  /\ late[p] # None /\ late' = [late EXCEPT ![p] = None]
  /\ server' = Written(p, late[p]) \/ (Refusing /\ UNCHANGED server)
  /\ UNCHANGED <<page, card, told, pair, changes, writes>>

(* The partner confirms or withdraws, uses the controls, sets a link, or     *)
(* moves the session.                                                       *)
Partner ==
  /\ changes < MaxChanges /\ changes' = changes + 1
  /\ \/ /\ ~Completed(server)
        /\ server' = [server EXCEPT !.partner = ~@, !.completion = @ + 1, !.terminal = ~server.partner /\ server.mine]
     \/ "controls" \in Panels /\ ~Completed(server) /\ server' = [server EXCEPT !.controls = @ + 1]
     \/ "meeting" \in Panels /\ Lifecycle(server) = "active" /\ server' = [server EXCEPT !.meeting = @ + 1]
     \/ /\ "meeting" \in Panels
        /\ \E agreed \in BOOLEAN :
             server' = [server EXCEPT !.agreed = agreed, !.schedule = @ + 1, !.meeting = @ + 1]
  /\ UNCHANGED <<page, late, card, told, pair, writes>>

-----------------------------------------------------------------------------
Receive(p) ==
  LET request == page.request[p] IN
  /\ request # NoRequest /\ request.answer # None
  /\ Becomes(IF InScope(p) THEN Heard(Drops(page, p), p, request) ELSE Drops(page, p))
  /\ told' = [told EXCEPT ![p] = IF InScope(p) /\ request.kind = "write" /\ request.answer # Refused
                                   THEN request.answer[p] ELSE @]
  /\ pair' = [pair EXCEPT !.refused = IF InScope(p) /\ Closing(p, request) THEN @ \cup {p} ELSE @]
  /\ UNCHANGED <<server, card, changes, writes>>

(* The request fails, whether or not it was served.                          *)
Break(p) ==
  /\ page.request[p] # NoRequest
  /\ Becomes(IF InScope(p) THEN Failed(Drops(page, p), p, page.request[p]) ELSE Drops(page, p))
  /\ UNCHANGED pair /\ Quiet

Next ==
  \/ Hydrate \/ Deactivate \/ Rejoin \/ Hide \/ Show \/ PairArrives
  \/ CardReads \/ CardShows \/ CardGoes \/ Partner
  \/ \E p \in Panels :
       Poll(p) \/ Retry(p) \/ Change(p) \/ Serve(p) \/ ServeLate(p) \/ Receive(p) \/ Break(p)

Spec == Init /\ [][Next]_panelVars

-----------------------------------------------------------------------------
TypeOK ==
  /\ server.terminal = Completed(server)
  /\ \A p \in Panels :
       /\ page.panel[p].life \in {"none", "active", "unscheduled", "completed"}
       /\ page.request[p].kind \in {"none", "load", "write"}
       /\ page.request[p] # NoRequest => page.panel[p].open
       /\ page.panel[p].timer => page.visible

(* A participant who was answered for a write sees nothing older than that  *)
(* answer, whatever polls and refreshes were under way.                      *)
NotBehindOwnWrite ==
  \A p \in Panels : page.panel[p].shown # None => page.panel[p].shown[p] >= told[p]

LinkShown == page.panel["meeting"].life = "active" /\ page.panel["meeting"].shown # None

(* The panels of one page agree on the end of the session: while it is shown *)
(* as completed no control can be used and no link is there, and a link is   *)
(* never from before the confirmations the page shows.                       *)
PanelsAgree ==
  "completion" \in Panels /\ page.panel["completion"].shown # None =>
    LET s == page.panel["completion"].shown IN
    /\ ("controls" \in Panels /\ page.panel["controls"].shown # None /\ Completed(s)) =>
          page.panel["controls"].shown.terminal
    /\ ("meeting" \in Panels /\ LinkShown) =>
          ~Completed(s) /\ page.panel["meeting"].shown.completion >= s.completion

Settled(p) ==
  LET o == page.panel[p] IN
  CASE p = "completion" -> IF o.shown = None THEN ~o.busy ELSE Completed(o.shown)
    [] p = "controls"   -> IF o.shown = None THEN ~o.busy ELSE o.shown.terminal
    [] p = "meeting"    -> o.life # "active"

(* A panel on a visible page has a request, a poll to come, an end, or a     *)
(* button to try again, unless the pair arrived while it waited. (A link     *)
(* whose first read fails has none of these: nothing says it is active.)     *)
NobodyWaitsForNothing ==
  page.visible =>
    \A p \in Panels \ pair.overtook : page.panel[p].open =>
      page.request[p] # NoRequest \/ page.panel[p].timer \/ Settled(p)

(* The workspace that has the room has its panels, unless it was joined      *)
(* again; the server refusing a read since the page was hydrated costs the    *)
(* controls, and never the completion.                                      *)
PanelsAreThere ==
  page.hydrated /\ ~pair.rejoined =>
    \A p \in Panels \ {"meeting"} : page.panel[p].open \/ (p = "controls" /\ p \in pair.refused)

(* A participant's confirmation or use of a control is waited for: only      *)
(* leaving, or news of the session's end for a control, gives it up.         *)
WritesAreWaitedFor ==
  \A p \in Panels \ {"meeting"} :
    GivenUp(p, page') =>
      \/ Break(p) \/ Deactivate \/ Rejoin \/ Hide
      \/ p = "controls" /\ page'.panel[p].completion # page.panel[p].completion
=============================================================================
