----------------------------- MODULE Catalogue -----------------------------
(* The exercise catalogue and the server's own answers (api/_catalog.js).   *)
(* A run of a member's code is judged against cases the server generates    *)
(* afresh and answers with its own solution of the exercise, the oracle; an *)
(* oracle that errs fails every correct submission. Each oracle is          *)
(* translated with the algorithm it uses and compared with what the         *)
(* exercise asks. Indices of arrays count from 0 as in the code; sequences  *)
(* of TLA+ from 1. Strings are numbers or sequences of numbers in the order *)
(* of their characters.                                                     *)
EXTENDS Integers, TLC, SequencesExt, FiniteSetsExt

CONSTANTS
  Shelves,   \* the bundled catalogues considered, sets of entries
  Slugs,     \* the exercises members ask for
  Versions,  \* the versions they name; None is the current one
  Size,      \* the largest generated case
  LastDay,   \* the days that pass
  None

VARIABLES shelf, today, suite

vars == <<shelf, today, suite>>

(* Assumed of every instance.                                               *)
CatalogueConstants == Size \in Nat /\ LastDay \in Nat \ {0} /\ None \in Versions

-----------------------------------------------------------------------------
(* Generated cases, at the sizes considered, and the oracles.               *)
Labels == {1, 2}

FocusBlocks == BoundedSeq([label : Labels, minutes : {1, 3}], Size)

RollUp(blocks) ==
  FoldLeft(LAMBDA out, b : IF out # <<>> /\ Last(out).label = b.label
                           THEN [out EXCEPT ![Len(out)].minutes = @ + b.minutes]
                           ELSE Append(out, b),
           <<>>, blocks)

SensorReadings ==
  {<<r, w, s>> : r \in BoundedSeq(0..2, Size + 1) \ {<<>>}, w \in 1..(Size + 1), s \in 0..1}

(* Entries are dropped from the back while they are not below (above) the   *)
(* new reading, and from the front once they left the window.               *)
SteadyWindows(readings, width, spread) ==
  LET Kept(d, P(_)) == SubSeq(d, 1, Max({0} \cup {i \in DOMAIN d : P(readings[d[i]])}))
      Inside(d, left) == SubSeq(d, Min({i \in DOMAIN d : d[i] >= left}), Len(d))
      Slide(s, right) ==
        LET left == right - width + 1
            low  == Append(Kept(s.low, LAMBDA x : x < readings[right]), right)
            high == Append(Kept(s.high, LAMBDA x : x > readings[right]), right)
        IN IF left < 1 THEN [s EXCEPT !.low = low, !.high = high]
           ELSE LET l == Inside(low, left)
                    h == Inside(high, left)
                IN [low |-> l, high |-> h,
                    out |-> IF readings[h[1]] - readings[l[1]] <= spread
                            THEN Append(s.out, left - 1) ELSE s.out]
  IN FoldLeft(Slide, [low |-> <<>>, high |-> <<>>, out |-> <<>>],
              [i \in DOMAIN readings |-> i]).out

ReviewTasks ==
  LET Orders(n) == {SetToSeq(1..n), Reverse(SetToSeq(1..n))}
      Pairs(n)  == {p \in (1..n) \X (1..n) : p[1] # p[2]}
  IN UNION {Orders(n) \X SUBSET Pairs(n) : n \in 0..Min({Size, 3})}

Sorted(S) == [i \in 1..Cardinality(S) |-> CHOOSE x \in S : Cardinality({y \in S : y < x}) = i - 1]

(* Each wave lowers the in-degree of what depends on it; a task whose last  *)
(* prerequisite it is belongs to the next wave.                             *)
ReviewWaves(tasks, deps) ==
  LET Wave(s, i) ==
        LET left == [t \in ToSet(tasks) |->
                       s.indegree[t] - Cardinality({d \in deps : d[2] = t /\ d[1] \in s.ready})]
        IN IF s.ready = {} THEN s
           ELSE [indegree |-> left, waves |-> Append(s.waves, Sorted(s.ready)),
                 ready |-> {t \in ToSet(tasks) : s.indegree[t] > 0 /\ left[t] = 0},
                 completed |-> s.completed + Cardinality(s.ready)]
      indegree == [t \in ToSet(tasks) |-> Cardinality({d \in deps : d[2] = t})]
      ended == FoldLeft(Wave, [indegree |-> indegree, waves |-> <<>>, completed |-> 0,
                               ready |-> {t \in ToSet(tasks) : indegree[t] = 0}], tasks)
  IN IF ended.completed = Len(tasks) THEN ended.waves ELSE <<>>

SeatRequests == (0..4) \X BoundedSeq([team : 1..2, seats : {1, 3}], Size)

AllocateSeats(capacity, requests) ==
  LET Refused(s, r, why) == [s EXCEPT !.rejected = Append(@, [team |-> r.team, reason |-> why])]
      Serve(s, r) ==
        IF r.team \in s.seen THEN Refused(s, r, "duplicate-team")
        ELSE LET known == [s EXCEPT !.seen = @ \cup {r.team}]
             IN IF r.seats <= s.remaining
                THEN [known EXCEPT !.accepted = Append(@, r.team), !.remaining = @ - r.seats]
                ELSE Refused(known, r, "insufficient-seats")
  IN FoldLeft(Serve, [seen |-> {}, accepted |-> <<>>, rejected |-> <<>>, remaining |-> capacity], requests)

Shifts == {1} \X {4} \X BoundedSeq({p \in (0..5) \X (0..5) : p[1] < p[2]}, Min({Size, 2}))

CoverageGaps(start, end, shifts) ==
  LET clipped == [i \in DOMAIN shifts |-> <<Max({start, shifts[i][1]}), Min({end, shifts[i][2]})>>]
      cover   == SortSeq(SelectSeq(clipped, LAMBDA p : p[1] < p[2]),
                         LAMBDA p, q : p[1] < q[1] \/ (p[1] = q[1] /\ p[2] < q[2]))
      Walk(s, p) == [gaps |-> IF p[1] > s.cursor THEN Append(s.gaps, <<s.cursor, p[1]>>) ELSE s.gaps,
                     cursor |-> Max({s.cursor, p[2]})]
      ended   == FoldLeft(Walk, [gaps |-> <<>>, cursor |-> start], cover)
  IN IF ended.cursor < end THEN Append(ended.gaps, <<ended.cursor, end>>) ELSE ended.gaps

(* Two kinds of markers, 1 closed by -1 and 2 by -2, in plain text 0.       *)
Templates == BoundedSeq({-2, -1, 0, 1, 2}, Size + 1)

Balanced(template) ==
  LET Read(s, c) ==
        IF ~s.ok \/ c = 0 THEN s
        ELSE IF c > 0 THEN [s EXCEPT !.stack = Append(@, c)]
        ELSE IF s.stack # <<>> /\ Last(s.stack) = -c THEN [s EXCEPT !.stack = Front(@)]
        ELSE [s EXCEPT !.ok = FALSE]
      ended == FoldLeft(Read, [ok |-> TRUE, stack |-> <<>>], template)
  IN ended.ok /\ ended.stack = <<>>

SortedLists(S, n) == {s \in BoundedSeq(S, n) : \A i \in 2..Len(s) : s[i - 1] <= s[i]}

CapacityTiers == SortedLists(0..3, Size + 1) \X (0..4)

UpgradeIndex(capacities, required) ==
  LET Search[range \in (0..Len(capacities)) \X (0..Len(capacities))] ==
        LET low    == range[1]
            high   == range[2]
            middle == low + (high - low) \div 2
        IN IF low >= high THEN low
           ELSE IF capacities[middle + 1] >= required THEN Search[<<low, middle>>]
           ELSE Search[<<middle + 1, high>>]
      low == Search[<<0, Len(capacities)>>]
  IN IF low < Len(capacities) THEN low ELSE -1

Nodes(n) == 0..(n - 1)
LinksOf(n) == Nodes(n) \X Nodes(n)
Line(n) == {l \in LinksOf(n) : l[1] < l[2]}

HandoffLinks ==
  UNION {{n} \X (SUBSET Line(n)) \X Nodes(n) \X Nodes(n) : n \in 1..(Size + 1)}

(* Breadth first; a service is queued when its distance is first set, and   *)
(* the search ends as soon as the target has one.                           *)
HandoffPath(n, links, start, target) ==
  LET Neighbours(v) == {w \in Nodes(n) : <<v, w>> \in links \/ <<w, v>> \in links}
      Visit(s, head) ==
        IF head > Len(s.queue) \/ s.distance[target] # -1 THEN s
        ELSE LET v     == s.queue[head]
                 fresh == {w \in Neighbours(v) : s.distance[w] = -1}
             IN [queue |-> s.queue \o SetToSeq(fresh),
                 distance |-> [w \in Nodes(n) |-> IF w \in fresh THEN s.distance[v] + 1 ELSE s.distance[w]]]
  IN IF start = target THEN 0
     ELSE FoldLeft(Visit, [queue |-> <<start>>,
                           distance |-> [w \in Nodes(n) |-> IF w = start THEN 0 ELSE -1]],
                   [i \in 1..n |-> i]).distance[target]

MessageLabels == BoundedSeq(1..3, Size + 1) \X (1..2)

FrequencyLeaders(labels, threshold) ==
  LET count == FoldLeft(LAMBDA c, l : [c EXCEPT ![l] = @ + 1], [l \in ToSet(labels) |-> 0], labels)
      Before(a, b) == a.count > b.count \/ (a.count = b.count /\ a.label < b.label)
  IN SetToSortSeq({[label |-> l, count |-> count[l]] : l \in {x \in DOMAIN count : count[x] >= threshold}}, Before)

Bundles == (SUBSET (1..4)) \X (0..(Size + 4))

BudgetPlan(durations, target) ==
  LET best[total \in 0..target] ==
        IF total = 0 THEN 0
        ELSE LET rest == {best[total - d] : d \in {x \in durations : x <= total}} \ {-1}
             IN IF rest = {} THEN -1 ELSE Min(rest) + 1
  IN best[target]

(* Parents of the nodes 1, 2, ...; node 0 is the root.                      *)
Trees == UNION {[Nodes(n) -> -1..(n - 2)] : n \in 0..(Size + 1)}
ParentArrays == {p \in Trees : \A v \in DOMAIN p : IF v = 0 THEN p[v] = -1 ELSE p[v] \in 0..(v - 1)}

LevelWidths(parents) ==
  LET Place(s, node) ==
        LET depth == IF node = 0 THEN 0 ELSE s.depth[parents[node]] + 1
        IN [depth |-> s.depth @@ (node :> depth),
            widths |-> IF depth = Len(s.widths) THEN Append(s.widths, 1)
                       ELSE [s.widths EXCEPT ![depth + 1] = @ + 1]]
  IN FoldLeft(Place, [depth |-> <<>>, widths |-> <<>>], [i \in 1..Cardinality(DOMAIN parents) |-> i - 1]).widths

SortedLoads == SortedLists(-1..2, Size + 1) \X (-2..3)

(* Both ends move towards each other: when the sum is low enough, every     *)
(* partner up to the right end is counted for the left one.                 *)
PairCount(values, ceiling) ==
  LET Count[ends \in (1..Len(values)) \X (0..Len(values))] ==
        IF ends[1] >= ends[2] THEN 0
        ELSE IF values[ends[1]] + values[ends[2]] <= ceiling
             THEN ends[2] - ends[1] + Count[<<ends[1] + 1, ends[2]>>]
             ELSE Count[<<ends[1], ends[2] - 1>>]
  IN IF values = <<>> THEN 0 ELSE Count[<<1, Len(values)>>]

Names == BoundedSeq({1, 2}, 2) \ {<<>>}
CommandNames == {SetToSeq(S) : S \in {T \in SUBSET Names : Cardinality(T) <= Size}} \X {<<a, b>> : a, b \in Names}

(* A node of the trie is the prefix that leads to it.                       *)
PrefixCensus(commands, prefixes) ==
  LET Insert(node, command) ==
        [p \in DOMAIN node \cup {SubSeq(command, 1, i) : i \in 1..Len(command)} |->
           (IF p \in DOMAIN node THEN node[p] ELSE 0)
             + (IF p = SubSeq(command, 1, Len(p)) /\ Len(p) <= Len(command) THEN 1 ELSE 0)]
      trie == FoldLeft(Insert, <<>>, commands)
  IN [i \in DOMAIN prefixes |-> IF prefixes[i] \in DOMAIN trie THEN trie[prefixes[i]] ELSE 0]

(* Feeds of events sorted by time and then by identity, which is unique.    *)
ReleaseFeeds ==
  LET Event(f, i, t) == [time |-> t, id |-> (i * 7 + f * 5) % 11, feed |-> f, at |-> i]
      Feed(f, times) == [i \in DOMAIN times |-> Event(f, i, times[i])]
      InOrder(feed) == \A i \in 2..Len(feed) :
                         \/ feed[i - 1].time < feed[i].time
                         \/ feed[i - 1].time = feed[i].time /\ feed[i - 1].id < feed[i].id
  IN {<<a, b, c>> \in {Feed(1, s) : s \in BoundedSeq(0..1, 2)} \X {Feed(2, s) : s \in BoundedSeq(0..1, 2)}
                        \X {Feed(3, s) : s \in BoundedSeq(0..1, Size)} : InOrder(a) /\ InOrder(b) /\ InOrder(c)}

Earlier(a, b) ==
  \/ a.time < b.time
  \/ a.time = b.time /\ \/ a.id < b.id
                        \/ a.id = b.id /\ (a.feed < b.feed \/ (a.feed = b.feed /\ a.at < b.at))

Swapped(heap, i, j) == [heap EXCEPT ![i] = heap[j], ![j] = heap[i]]

RECURSIVE SiftUp(_, _), SiftDown(_, _)
SiftUp(heap, i) ==
  IF i = 1 \/ ~Earlier(heap[i], heap[i \div 2]) THEN heap
  ELSE SiftUp(Swapped(heap, i, i \div 2), i \div 2)
SiftDown(heap, i) ==
  LET Lesser(a, b) == IF b <= Len(heap) /\ Earlier(heap[b], heap[a]) THEN b ELSE a
      least == Lesser(Lesser(i, 2 * i), 2 * i + 1)
  IN IF least = i THEN heap ELSE SiftDown(Swapped(heap, i, least), least)

Pushed(heap, event) == SiftUp(Append(heap, event), Len(heap) + 1)
Popped(heap) ==
  IF Len(heap) = 1 THEN <<>>
  ELSE SiftDown([Front(heap) EXCEPT ![1] = Last(heap)], 1)

(* The heap holds the next event of every feed that is not spent.           *)
FeedMerge(feeds) ==
  LET After(feed, at) == IF at <= Len(feeds[feed]) THEN <<feeds[feed][at]>> ELSE <<>>
      Entered(heap, more) == IF more = <<>> THEN heap ELSE Pushed(heap, more[1])
      Take(s, i) ==
        LET event == s.heap[1]
        IN [merged |-> Append(s.merged, event.id),
            heap |-> Entered(Popped(s.heap), After(event.feed, event.at + 1))]
      total == Len(feeds[1]) + Len(feeds[2]) + Len(feeds[3])
  IN FoldLeft(Take, [merged |-> <<>>, heap |-> FoldLeft(LAMBDA h, f : Entered(h, After(f, 1)), <<>>, <<1, 2, 3>>)],
              [i \in 1..total |-> i]).merged

BlockedPairs == UNION {{n} \X (SUBSET Line(n)) : n \in 1..(Size + 1)}

(* The orders that complete a set of seated reviewers after the last one.   *)
ReviewOrders(n, blocked) ==
  LET Apart(a, b) == <<a, b>> \notin blocked /\ <<b, a>> \notin blocked
      Count[seated \in SUBSET Nodes(n), last \in -1..(n - 1)] ==
        IF seated = Nodes(n) THEN 1
        ELSE LET next == {v \in Nodes(n) \ seated : last = -1 \/ Apart(last, v)}
             IN MapThenSumSet(LAMBDA v : Count[seated \cup {v}, v], next)
  IN Count[{}, -1]

DeviceLinks == UNION {{n} \X BoundedSeq(LinksOf(n), 2) : n \in 1..Size}

Alone(n) == [parent |-> [v \in Nodes(n) |-> v], size |-> [v \in Nodes(n) |-> 1], components |-> n]

RECURSIVE Way(_, _)
Way(parent, v) == IF parent[v] = v THEN <<v>> ELSE <<v>> \o Way(parent, parent[v])

(* The root of a node; every node on the way is hung below it.              *)
Find(s, v) ==
  LET way == Way(s.parent, v)
  IN [root |-> Last(way),
      sets |-> [s EXCEPT !.parent = [w \in DOMAIN s.parent |-> IF w \in ToSet(way) THEN Last(way) ELSE s.parent[w]]]]

Joined(s, link) ==
  LET left  == Find(s, link[1])
      right == Find(left.sets, link[2])
      t     == right.sets
      large == IF t.size[left.root] < t.size[right.root] THEN right.root ELSE left.root
      small == IF large = left.root THEN right.root ELSE left.root
  IN IF left.root = right.root THEN t
     ELSE [parent |-> [t.parent EXCEPT ![small] = large],
           size |-> [t.size EXCEPT ![large] = @ + t.size[small]],
           components |-> t.components - 1]

Checkpoints(n, links) ==
  LET Activate(s, link) == LET t == Joined(s.sets, link)
                           IN [sets |-> t, out |-> Append(s.out, t.components)]
  IN FoldLeft(Activate, [sets |-> Alone(n), out |-> <<>>], links).out

AllPairs(n) == [i \in 1..(n * n) |-> <<(i - 1) \div n, (i - 1) % n>>]
RouteQueries == {<<p, AllPairs(Cardinality(DOMAIN p))>> : p \in ParentArrays \ {<<>>}}

Score(v) == 2 ^ v

(* Ancestors at the distances 1, 2, 4, ...: the deeper node is raised by    *)
(* the bits of the difference, then both by steps that keep them apart.     *)
RouteSums(parents, queries) ==
  LET n      == Cardinality(DOMAIN parents)
      levels == Min({k \in 0..n : 2 ^ k >= n}) + 1
      depth[v \in DOMAIN parents] == IF v = 0 THEN 0 ELSE depth[parents[v]] + 1
      sum[v \in DOMAIN parents] == Score(v) + (IF v = 0 THEN 0 ELSE sum[parents[v]])
      up[k \in 0..(levels - 1)] ==
        [v \in DOMAIN parents |-> IF k = 0 THEN (IF v = 0 THEN 0 ELSE parents[v]) ELSE up[k - 1][up[k - 1][v]]]
      Bit(m, k) == (m \div (2 ^ k)) % 2
      Raised(v, m) == FoldLeft(LAMBDA w, k : IF Bit(m, k) = 1 THEN up[k][w] ELSE w, v, [i \in 1..levels |-> i - 1])
      Apart(p, k) == IF up[k][p[1]] # up[k][p[2]] THEN <<up[k][p[1]], up[k][p[2]]>> ELSE p
      Common(a, b) ==
        LET low  == IF depth[a] < depth[b] THEN b ELSE a
            high == IF low = a THEN b ELSE a
            even == Raised(low, depth[low] - depth[high])
        IN IF even = high THEN high
           ELSE up[0][FoldLeft(Apart, <<even, high>>, [i \in 1..levels |-> levels - i])[1]]
      Route(q) == sum[q[1]] + sum[q[2]] - 2 * sum[Common(q[1], q[2])] + Score(Common(q[1], q[2]))
  IN [i \in DOMAIN queries |-> Route(queries[i])]

CompactMessages == (SUBSET Names) \X BoundedSeq({1, 2}, Size + 1)

RECURSIVE Text(_), Smaller(_, _)
(* A list of tokens as the text it is compared by, and the order of texts.  *)
Text(list) == IF list = <<>> THEN <<>> ELSE Head(list) \o (IF Len(list) = 1 THEN <<>> ELSE <<0>> \o Text(Tail(list)))
Smaller(a, b) == b # <<>> /\ \/ a = <<>>
                             \/ a[1] < b[1]
                             \/ a[1] = b[1] /\ Smaller(Tail(a), Tail(b))

Better(a, b) == Len(a) < Len(b) \/ (Len(a) = Len(b) /\ Smaller(Text(a), Text(b)))

(* From the end of the message: the best list for what follows each place.  *)
Segmentation(tokens, message) ==
  LET best[start \in 1..(Len(message) + 1)] ==
        IF start > Len(message) THEN <<>>
        ELSE LET words == {w \in tokens : /\ start + Len(w) <= Len(message) + 1
                                          /\ SubSeq(message, start, start + Len(w) - 1) = w
                                          /\ best[start + Len(w)] # None}
                 lists == {<<w>> \o best[start + Len(w)] : w \in words}
             IN IF lists = {} THEN None ELSE CHOOSE a \in lists : \A b \in lists \ {a} : ~Better(b, a)
  IN best[1]

Proposals ==
  {<<n, existing, offers>> \in (2..Size) \X {{}, {<<0, 1>>}}
     \X BoundedSeq({[link |-> l, price |-> p] : l \in {<<0, 1>>, <<1, 2>>, <<0, 2>>}, p \in {1, 2}}, Size) :
     \A i \in DOMAIN offers : offers[i].link[2] < n}

(* Cheapest first, the earlier proposal at the same price, until connected. *)
NetworkBudget(n, existing, offers) ==
  LET order == SortSeq([i \in DOMAIN offers |-> i],
                       LAMBDA i, j : \/ offers[i].price < offers[j].price
                                     \/ offers[i].price = offers[j].price /\ i < j)
      Offer(s, i) ==
        LET t == Joined(s.sets, offers[i].link)
        IN IF s.sets.components = 1 \/ t.components = s.sets.components THEN s
           ELSE [sets |-> t, cost |-> s.cost + offers[i].price, taken |-> Append(s.taken, i - 1)]
      ended == FoldLeft(Offer, [sets |-> FoldLeft(Joined, Alone(n), SetToSeq(existing)), cost |-> 0, taken |-> <<>>], order)
  IN IF ended.sets.components = 1 THEN [cost |-> ended.cost, indices |-> ended.taken]
     ELSE [cost |-> -1, indices |-> <<>>]

-----------------------------------------------------------------------------
(* The definitions of the runtime: cases and oracle of each exercise.       *)
Definition(slug, args) ==
  CASE slug = "focus-block-rollup"        -> RollUp(args)
    [] slug = "steady-sensor-windows"     -> SteadyWindows(args[1], args[2], args[3])
    [] slug = "review-wave-planner"       -> ReviewWaves(args[1], args[2])
    [] slug = "workshop-seat-allocation"  -> AllocateSeats(args[1], args[2])
    [] slug = "coverage-gap-finder"       -> CoverageGaps(args[1], args[2], args[3])
    [] slug = "balanced-template-markers" -> Balanced(args)
    [] slug = "capacity-upgrade-index"    -> UpgradeIndex(args[1], args[2])
    [] slug = "shortest-handoff-path"     -> HandoffPath(args[1], args[2], args[3], args[4])
    [] slug = "message-frequency-leaders" -> FrequencyLeaders(args[1], args[2])
    [] slug = "recovery-budget-plan"      -> BudgetPlan(args[1], args[2])
    [] slug = "mentor-level-widths"       -> LevelWidths(args)
    [] slug = "threshold-pair-count"      -> PairCount(args[1], args[2])
    [] slug = "command-prefix-census"     -> PrefixCensus(args[1], args[2])
    [] slug = "release-feed-merge"        -> FeedMerge(args)
    [] slug = "compatible-review-orders"  -> ReviewOrders(args[1], args[2])
    [] slug = "connectivity-checkpoints"  -> Checkpoints(args[1], args[2])
    [] slug = "coaching-route-sums"       -> RouteSums(args[1], args[2])
    [] slug = "command-message-segmentation" -> Segmentation(args[1], args[2])
    [] slug = "resilient-network-budget"  -> NetworkBudget(args[1], args[2], args[3])

Cases(slug) ==
  CASE slug = "focus-block-rollup"        -> FocusBlocks
    [] slug = "steady-sensor-windows"     -> {c \in SensorReadings : c[2] <= Len(c[1])}
    [] slug = "review-wave-planner"       -> ReviewTasks
    [] slug = "workshop-seat-allocation"  -> SeatRequests
    [] slug = "coverage-gap-finder"       -> Shifts
    [] slug = "balanced-template-markers" -> Templates
    [] slug = "capacity-upgrade-index"    -> CapacityTiers
    [] slug = "shortest-handoff-path"     -> HandoffLinks
    [] slug = "message-frequency-leaders" -> MessageLabels
    [] slug = "recovery-budget-plan"      -> Bundles
    [] slug = "mentor-level-widths"       -> ParentArrays
    [] slug = "threshold-pair-count"      -> SortedLoads
    [] slug = "command-prefix-census"     -> CommandNames
    [] slug = "release-feed-merge"        -> ReleaseFeeds
    [] slug = "compatible-review-orders"  -> BlockedPairs
    [] slug = "connectivity-checkpoints"  -> DeviceLinks
    [] slug = "coaching-route-sums"       -> RouteQueries
    [] slug = "command-message-segmentation" -> CompactMessages
    [] slug = "resilient-network-budget"  -> Proposals

Exercises == {"focus-block-rollup", "steady-sensor-windows", "review-wave-planner",
  "workshop-seat-allocation", "coverage-gap-finder", "balanced-template-markers",
  "capacity-upgrade-index", "shortest-handoff-path", "message-frequency-leaders",
  "recovery-budget-plan", "mentor-level-widths", "threshold-pair-count",
  "command-prefix-census", "release-feed-merge", "compatible-review-orders",
  "connectivity-checkpoints", "coaching-route-sums", "command-message-segmentation",
  "resilient-network-budget"}

-----------------------------------------------------------------------------
(* The bundled catalogue is validated again, on the day, before each use.   *)
Known(c) == {e.slug : e \in c}

GovernanceOK(e) ==
  /\ IF e.status = "active" THEN e.retiredAt = None /\ e.replacement = None
     ELSE e.retiredAt # None /\ e.retiredAt <= today
  /\ IF e.takedown = "none" THEN e.requestedAt = None
     ELSE e.requestedAt # None /\ e.requestedAt <= today
  /\ e.status = "active" => e.takedown = "none"

(* The provenance record of the entry, which repeats its takedown.          *)
RecordOK(e) ==
  /\ e.reviewed <= today /\ e.reviewed <= e.expires
  /\ e.status = "active" => e.approved /\ e.expires >= today

ShelfOK(c) ==
  /\ \A e \in c : GovernanceOK(e) /\ RecordOK(e)
  /\ \A e, f \in c : e # f => /\ <<e.slug, e.version>> # <<f.slug, f.version>>
                              /\ e.status = "active" /\ f.status = "active" => e.slug # f.slug
  /\ \A e \in c : e.replacement # None => e.replacement \in Known(c)
  /\ \A e \in c : e.status = "active" => e.slug \in Exercises /\ e.version = 1

(* An exact active version, or the only active one when none is named;      *)
(* nothing from a catalogue that is not valid today.                        *)
ActiveExercise(slug, version) ==
  {e \in shelf : /\ ShelfOK(shelf)
                 /\ e.slug = slug /\ e.status = "active"
                 /\ version = None \/ e.version = version}

-----------------------------------------------------------------------------
Init ==
  /\ shelf \in Shelves
  /\ today = 1
  /\ suite = None

(* A run asks for cases: the oracle answers each one.                       *)
CreateSuite ==
  /\ suite = None
  /\ \E slug \in Slugs, version \in Versions :
       \E e \in ActiveExercise(slug, version), args \in Cases(slug) :
         suite' = [slug |-> slug, version |-> e.version, asked |-> version,
                   args |-> args, expected |-> Definition(slug, args)]
  /\ UNCHANGED <<shelf, today>>

(* The run is judged, and its record keeps the slug and the version.        *)
Judged == suite # None /\ suite' = None /\ UNCHANGED <<shelf, today>>

Tomorrow == suite = None /\ today < LastDay /\ today' = today + 1 /\ UNCHANGED <<shelf, suite>>

Next == CreateSuite \/ Judged \/ Tomorrow

Spec == Init /\ [][Next]_vars

-----------------------------------------------------------------------------
TypeOK ==
  /\ shelf \in Shelves
  /\ today \in 1..LastDay
  /\ suite # None => suite.slug \in Slugs /\ suite.version \in Nat

(* What each exercise asks, said without the algorithm.                     *)
Sum(f) == MapThenSumSet(LAMBDA i : f[i], DOMAIN f)

RolledUp(blocks, out) ==
  LET starts == {i \in DOMAIN blocks : i = 1 \/ blocks[i].label # blocks[i - 1].label}
      run(i) == Cardinality({j \in starts : j <= i})
  IN /\ Len(out) = Cardinality(starts)
     /\ \A k \in DOMAIN out :
          /\ \A i \in DOMAIN blocks : run(i) = k => blocks[i].label = out[k].label
          /\ out[k].minutes = Sum([i \in {j \in DOMAIN blocks : run(j) = k} |-> blocks[i].minutes])

Steady(readings, width, spread) ==
  Sorted({i \in 0..(Len(readings) - width) :
            \A a, b \in (i + 1)..(i + width) : readings[a] - readings[b] <= spread})

Planned(tasks, deps, out) ==
  LET all == ToSet(tasks)
      Blocked[k \in Nat] == \* tasks with a chain of k prerequisites
        IF k = 0 THEN all ELSE {t \in all : \E d \in deps : d[2] = t /\ d[1] \in Blocked[k - 1]}
      n == Len(tasks)
  IN IF Blocked[n] # {} THEN out = <<>>
     ELSE /\ Len(out) = Cardinality({k \in 0..(n - 1) : Blocked[k] # {}})
          /\ \A k \in DOMAIN out : out[k] = Sorted(Blocked[k - 1] \ Blocked[k])

Seated(capacity, requests, out) ==
  LET first(i) == \A j \in 1..(i - 1) : requests[j].team # requests[i].team
      seats(S) == MapThenSumSet(LAMBDA i : requests[i].seats, S)
      yes == CHOOSE S \in SUBSET DOMAIN requests : \A i \in DOMAIN requests :
               i \in S <=> first(i) /\ requests[i].seats + seats({j \in S : j < i}) <= capacity
      no  == Sorted(DOMAIN requests \ yes)
  IN /\ out.accepted = [k \in 1..Cardinality(yes) |-> requests[Sorted(yes)[k]].team]
     /\ out.rejected = [k \in DOMAIN no |-> [team |-> requests[no[k]].team,
                          reason |-> IF first(no[k]) THEN "insufficient-seats" ELSE "duplicate-team"]]
     /\ out.remaining = capacity - seats(yes)

Uncovered(start, end, shifts, out) ==
  LET open == {t \in start..(end - 1) : \A i \in DOMAIN shifts : t \notin shifts[i][1]..(shifts[i][2] - 1)}
  IN /\ UNION {out[k][1]..(out[k][2] - 1) : k \in DOMAIN out} = open
     /\ \A k \in DOMAIN out : out[k][1] < out[k][2] /\ (k > 1 => out[k - 1][2] < out[k][1])

(* The balanced texts of a length, from the grammar.                        *)
Grammar[n \in Nat] ==
  IF n = 0 THEN {<<>>}
  ELSE {<<0>> \o t : t \in Grammar[n - 1]}
       \cup UNION {{<<c>> \o a \o <<-c>> \o b : c \in {1, 2}, a \in Grammar[k], b \in Grammar[n - 2 - k]}
                   : k \in 0..(n - 2)}

FirstTier(capacities, required) ==
  LET fit == {i \in DOMAIN capacities : capacities[i] >= required}
  IN IF fit = {} THEN -1 ELSE Min(fit) - 1

Hops(n, links, start, target) ==
  LET within[k \in Nat] == IF k = 0 THEN {start}
                           ELSE {w \in Nodes(n) : \E v \in within[k - 1] : v = w \/ <<v, w>> \in links \/ <<w, v>> \in links}
      enough == {k \in 0..n : target \in within[k]}
  IN IF enough = {} THEN -1 ELSE Min(enough)

Leaders(labels, threshold, out) ==
  LET many(l) == Cardinality({i \in DOMAIN labels : labels[i] = l})
      all == {l \in ToSet(labels) : many(l) >= threshold}
  IN /\ Len(out) = Cardinality(all) /\ {o.label : o \in ToSet(out)} = all
     /\ \A k \in DOMAIN out : out[k].count = many(out[k].label)
     /\ \A j, k \in DOMAIN out : j < k => \/ out[j].count > out[k].count
                                          \/ out[j].count = out[k].count /\ out[j].label < out[k].label

Fewest(durations, target) ==
  LET sums[k \in Nat] == IF k = 0 THEN {0} ELSE {a + d : a \in sums[k - 1], d \in durations}
      exact == {k \in 0..target : target \in sums[k]}
  IN IF exact = {} THEN -1 ELSE Min(exact)

(* The nodes on the way from a node up to the root.                         *)
Upward(parents, v) ==
  LET up[w \in DOMAIN parents] == {w} \cup (IF w = 0 THEN {} ELSE up[parents[w]]) IN up[v]

Widths(parents, out) ==
  LET depth(v) == Cardinality(Upward(parents, v)) - 1
  IN out = [d \in 1..Cardinality({depth(v) : v \in DOMAIN parents}) |->
              Cardinality({v \in DOMAIN parents : depth(v) = d - 1})]

Pairs(values, ceiling) ==
  Cardinality({p \in (DOMAIN values) \X (DOMAIN values) : p[1] < p[2] /\ values[p[1]] + values[p[2]] <= ceiling})

InGlobalOrder(feeds, out) ==
  LET events == UNION {ToSet(feeds[f]) : f \in 1..3}
  IN /\ Len(out) = Cardinality(events)
     /\ \A e \in events : out[1 + Cardinality({d \in events : Earlier(d, e)})] = e.id

Arrangements(n, blocked) ==
  Cardinality({o \in [1..n -> Nodes(n)] :
    /\ \A i, j \in 1..n : i # j => o[i] # o[j]
    /\ \A i \in 2..n : <<o[i - 1], o[i]>> \notin blocked /\ <<o[i], o[i - 1]>> \notin blocked})

Groups(n, links) ==
  LET reach[k \in 0..n, v \in Nodes(n)] ==
        IF k = 0 THEN {v}
        ELSE {w \in Nodes(n) : \E u \in reach[k - 1, v] : u = w \/ <<u, w>> \in links \/ <<w, u>> \in links}
  IN Cardinality({reach[n, v] : v \in Nodes(n)})

RouteSum(parents, a, b) ==
  LET both == Upward(parents, a) \cap Upward(parents, b)
      meet == CHOOSE v \in both : both = Upward(parents, v)
      route == ((Upward(parents, a) \cup Upward(parents, b)) \ both) \cup {meet}
  IN MapThenSumSet(Score, route)

Recovered(tokens, message, out) ==
  LET lists[rest \in 0..Len(message)] == \* the token lists of the last rest characters
        IF rest = 0 THEN {<<>>}
        ELSE UNION {{<<w>> \o l : l \in lists[rest - Len(w)]} :
                    w \in {t \in tokens : /\ Len(t) <= rest
                                          /\ t = SubSeq(message, Len(message) - rest + 1, Len(message) - rest + Len(t))}}
      all == lists[Len(message)]
      Under(x, y) == \E i \in DOMAIN x : SubSeq(x, 1, i - 1) = SubSeq(y, 1, i - 1) /\ x[i] # y[i] /\ Smaller(x[i], y[i])
  IN IF all = {} THEN out = None
     ELSE /\ out \in all
          /\ \A l \in all : Len(l) > Len(out) \/ (Len(l) = Len(out) /\ (l = out \/ Under(out, l)))

Connects(n, existing, offers, S) == Groups(n, existing \cup {offers[i].link : i \in S}) = 1

Cheapest(n, existing, offers, out) ==
  LET prices(S) == MapThenSumSet(LAMBDA i : offers[i].price, S)
      plans == {S \in SUBSET DOMAIN offers : Connects(n, existing, offers, S)}
      taken == {i + 1 : i \in ToSet(out.indices)}
  IN IF plans = {} THEN out = [cost |-> -1, indices |-> <<>>]
     ELSE /\ taken \in plans /\ out.cost = prices(taken)
          /\ \A S \in plans : prices(S) >= out.cost
          /\ \A S \in SUBSET taken : S # taken => S \notin plans

(* The oracle gives every generated case the answer the exercise asks for.  *)
Asked(slug, a, out) ==
  CASE slug = "focus-block-rollup"        -> RolledUp(a, out)
    [] slug = "steady-sensor-windows"     -> out = Steady(a[1], a[2], a[3])
    [] slug = "review-wave-planner"       -> Planned(a[1], a[2], out)
    [] slug = "workshop-seat-allocation"  -> Seated(a[1], a[2], out)
    [] slug = "coverage-gap-finder"       -> Uncovered(a[1], a[2], a[3], out)
    [] slug = "balanced-template-markers" -> out <=> a \in Grammar[Len(a)]
    [] slug = "capacity-upgrade-index"    -> out = FirstTier(a[1], a[2])
    [] slug = "shortest-handoff-path"     -> out = Hops(a[1], a[2], a[3], a[4])
    [] slug = "message-frequency-leaders" -> Leaders(a[1], a[2], out)
    [] slug = "recovery-budget-plan"      -> out = Fewest(a[1], a[2])
    [] slug = "mentor-level-widths"       -> Widths(a, out)
    [] slug = "threshold-pair-count"      -> out = Pairs(a[1], a[2])
    [] slug = "command-prefix-census"     ->
         out = [i \in DOMAIN a[2] |-> Cardinality({j \in DOMAIN a[1] : IsPrefix(a[2][i], a[1][j])})]
    [] slug = "release-feed-merge"        -> InGlobalOrder(a, out)
    [] slug = "compatible-review-orders"  -> out = Arrangements(a[1], a[2])
    [] slug = "connectivity-checkpoints"  ->
         out = [i \in DOMAIN a[2] |-> Groups(a[1], {a[2][j] : j \in 1..i})]
    [] slug = "coaching-route-sums"       ->
         out = [i \in DOMAIN a[2] |-> RouteSum(a[1], a[2][i][1], a[2][i][2])]
    [] slug = "command-message-segmentation" -> Recovered(a[1], a[2], out)
    [] slug = "resilient-network-budget"  -> Cheapest(a[1], a[2], a[3], out)

OracleIsRight == suite # None => Asked(suite.slug, suite.args, suite.expected)

(* What is being run is the one current version of an exercise, which was   *)
(* asked for, is not under takedown and whose review has not expired.       *)
ServedIsCurrent ==
  suite # None =>
    LET found == {e \in shelf : e.slug = suite.slug /\ e.status = "active"}
    IN /\ Cardinality(found) = 1
       /\ \A e \in found : /\ e.version = suite.version /\ suite.asked \in {None, e.version}
                           /\ e.takedown = "none" /\ e.approved /\ today \in e.reviewed..e.expires
=============================================================================
