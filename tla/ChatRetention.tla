--------------------------- MODULE ChatRetention ---------------------------
(***************************************************************************)
(* The bounded purge of pair chat (api/_chat-retention.js): one durable    *)
(* run per room, cutoff and mode, claimed by workers under leases that are *)
(* fenced by the generation of a control row, limited to the messages an   *)
(* export and a backup cover, and suspended by legal holds on a room or on *)
(* a whole tenant.  scripts/chat-retention.mjs drives it: nothing runs by  *)
(* itself, so nothing here is promised to happen eventually.               *)
(*                                                                         *)
(* One unit of time is the day of the cutoff, which is midnight UTC; the   *)
(* lease is a whole number of the same units.                              *)
(***************************************************************************)
EXTENDS Naturals, Sequences, FiniteSets, FiniteSetsExt

CONSTANTS
  Rooms, Tenants,
  TenantOf,      \* the scope key of each room
  Workers,
  Retention,     \* CHAT_RETENTION_POLICY.retentionDays
  Lease, Backoff,
  BatchSize, MaxBatches, MaxFailures,
  Horizon,       \* bound: the last instant
  MaxMessages,   \* bound: messages ever sent
  Modes,         \* 'dry_run' and 'purge', or one of them
  MaxGeneration, \* bound: changes of the control row
  MaxRuns,       \* bound: runs ever enqueued
  MaxClaims      \* bound: claims of all runs together

NoWorker == "no worker"

(* Assumed of every instance. *)
ChatRetentionConstants ==
  /\ TenantOf \in [Rooms -> Tenants]
  /\ {Retention, Lease, Backoff, Horizon, MaxMessages, MaxGeneration, MaxRuns, MaxClaims} \subseteq Nat
  /\ {BatchSize, MaxBatches, MaxFailures} \subseteq Nat \ {0}
  /\ Rooms \cap Tenants = {} /\ NoWorker \notin Workers
  /\ Modes \subseteq {"dry_run", "purge"}

ASSUME ChatRetentionAssumption == ChatRetentionConstants

Keys == [room: Rooms, cutoff: Nat, mode: Modes]
Statuses == {"pending", "processing", "retry", "held", "completed", "dead_letter"}

VARIABLES
  now,
  log,      \* every message ever sent, by id: its room and its created_at
  chat,     \* ids of the messages still in pair_messages
  mapped,   \* rooms of chat_retention_scopes
  holds,    \* active rows of chat_retention_legal_holds: rooms and tenants
  control,  \* chat_retention_control; generation 0 stands for no row
  evidence, \* per room: what the operator's export and backup cover
  runs,     \* chat_retention_runs by their unique key
  worker    \* what each worker process remembers

vars == <<now, log, chat, mapped, holds, control, evidence, runs, worker>>

NoEvidence == [top |-> 0, through |-> 0, done |-> FALSE]
NewRun(top) ==
  [status |-> "pending", top |-> top, failures |-> 0, generation |-> 0, owner |-> NoWorker,
   claims |-> 0, until |-> 0, notBefore |-> now, cursor |-> 0, count |-> 0]
Idle == [key |-> <<>>, token |-> 0, generation |-> 0, batches |-> 0]

Init ==
  /\ now = 0 /\ log = <<>> /\ chat = {} /\ holds = {}
  /\ mapped \in SUBSET Rooms
  /\ control = [enabled |-> FALSE, generation |-> 0]
  /\ evidence = [r \in Rooms |-> NoEvidence]
  /\ runs = <<>>
  /\ worker = [w \in Workers |-> Idle]

RoomMessages(r) == {i \in chat : log[i].room = r}
Cutoff == now - Retention
Held(r) == r \in holds \/ TenantOf[r] \in holds

-----------------------------------------------------------------------------
(* The chat itself, and what surrounds a run.                              *)

Send(r) ==
  /\ Len(log) < MaxMessages
  /\ log' = Append(log, [room |-> r, at |-> now])
  /\ chat' = chat \cup {Len(log) + 1}
  /\ UNCHANGED <<now, mapped, holds, control, evidence, runs, worker>>

(* The operator notes the highest id of the room, and later has an export  *)
(* and then a backup of the messages up to it, through the current time.   *)
(* (Bound: evidence of the same messages is not taken twice.)              *)
MarkTop(r) ==
  /\ RoomMessages(r) # {} /\ Max(RoomMessages(r)) # evidence[r].top
  /\ evidence' = [evidence EXCEPT ![r] =
                    [top |-> Max(RoomMessages(r)), through |-> now, done |-> FALSE]]
  /\ UNCHANGED <<now, log, chat, mapped, holds, control, runs, worker>>

FinishEvidence(r) ==
  /\ evidence[r].top # 0 /\ ~evidence[r].done
  /\ evidence' = [evidence EXCEPT ![r] = [top |-> evidence[r].top, through |-> now, done |-> TRUE]]
  /\ UNCHANGED <<now, log, chat, mapped, holds, control, runs, worker>>

(* Rooms published by the pairing are mapped with them; a legacy room by   *)
(* an operator, who must prove who owns it.                                *)
AdoptScope(r) ==
  /\ r \notin mapped
  /\ mapped' = mapped \cup {r}
  /\ UNCHANGED <<now, log, chat, holds, control, evidence, runs, worker>>

(* Mutant of Freed: the lease owner stays in the row.                      *)
FreedOwned(run, status) == [run EXCEPT !.status = status, !.generation = 0, !.until = 0]

(* The columns every path out of 'processing' clears.                      *)
Freed(run, status) ==
  [run EXCEPT !.status = status, !.generation = 0, !.owner = NoWorker, !.until = 0]

Yielded(run) ==
  IF run.status = "processing" THEN [Freed(run, "pending") EXCEPT !.notBefore = now] ELSE run

SetControl(enabled) ==
  /\ control.generation < MaxGeneration
  /\ control' = [enabled |-> enabled, generation |-> control.generation + 1]
  /\ runs' = IF enabled THEN runs ELSE [k \in DOMAIN runs |-> Yielded(runs[k])]
  /\ UNCHANGED <<now, log, chat, mapped, holds, evidence, worker>>

(* A hold names a room or a tenant.                                        *)
Covers(hold, r) == hold = r \/ hold = TenantOf[r]

PlaceHold(hold) ==
  /\ \E r \in mapped : Covers(hold, r)
  /\ holds' = holds \cup {hold}
  /\ runs' = [k \in DOMAIN runs |->
                IF Covers(hold, k.room) /\ runs[k].status \in {"pending", "processing", "retry"}
                THEN Freed(runs[k], "held") ELSE runs[k]]
  /\ UNCHANGED <<now, log, chat, mapped, control, evidence, worker>>

StillHeld(k, left) == \E hold \in left : Covers(hold, k.room)

ReleaseHold(hold) ==
  /\ hold \in holds
  /\ holds' = holds \ {hold}
  /\ runs' = [k \in DOMAIN runs |->
                IF Covers(hold, k.room) /\ runs[k].status = "held" /\ ~StillHeld(k, holds')
                THEN [runs[k] EXCEPT !.status = "pending", !.notBefore = now] ELSE runs[k]]
  /\ UNCHANGED <<now, log, chat, mapped, control, evidence, worker>>

-----------------------------------------------------------------------------
(* Enqueueing.                                                             *)

(* The rows a run is about: the evidence bounds them by id.                *)
InScope(k, top) == {i \in DOMAIN log : log[i].room = k.room /\ i <= top /\ log[i].at < k.cutoff}

Enqueue(r, mode) ==
  LET e == evidence[r]
      k == [room |-> r, cutoff |-> Cutoff, mode |-> mode]
  IN /\ now >= Retention
     /\ control.enabled
     /\ e.done /\ e.through >= Cutoff
     /\ k \notin DOMAIN runs /\ Cardinality(DOMAIN runs) < MaxRuns
     /\ e.top \in chat
     /\ r \in mapped /\ ~Held(r)
     /\ InScope(k, e.top) \cap chat # {}
     /\ runs' = [j \in DOMAIN runs \cup {k} |-> IF j = k THEN NewRun(e.top) ELSE runs[j]]
     /\ UNCHANGED <<now, log, chat, mapped, holds, control, evidence, worker>>

-----------------------------------------------------------------------------
(* runChatRetentionWorker.                                                 *)

Claimable(k) ==
  /\ control.enabled /\ k.room \in mapped /\ ~Held(k.room)
  /\ runs[k].failures < MaxFailures
  /\ runs[k].notBefore <= now
  /\ \/ runs[k].status \in {"pending", "retry"}
     \/ /\ runs[k].status = "processing"
        /\ runs[k].until <= now \/ runs[k].generation # control.generation

(* ORDER BY next_attempt_at,id: cutoffs are given out in order.            *)
ClaimedBefore(j, k) ==
  \/ runs[j].notBefore < runs[k].notBefore
  \/ runs[j].notBefore = runs[k].notBefore /\ j.cutoff < k.cutoff

Working(w) == worker[w].token # 0
KeyOf(w) == worker[w].key

ClaimsSoFar == MapThenSumSet(LAMBDA k : runs[k].claims, DOMAIN runs)

Claim(w, k) ==
  /\ ~Working(w)
  /\ Claimable(k) /\ ClaimsSoFar < MaxClaims
  /\ \A j \in DOMAIN runs :
       j.room = k.room /\ j.mode = k.mode /\ Claimable(j) => ~ClaimedBefore(j, k)
  /\ runs' = [runs EXCEPT ![k] =
       [runs[k] EXCEPT !.status = "processing", !.claims = runs[k].claims + 1, !.owner = w,
                       !.generation = control.generation, !.until = now + Lease]]
  /\ worker' = [worker EXCEPT ![w] =
       [key |-> k, token |-> runs[k].claims + 1, generation |-> control.generation, batches |-> 0]]
  /\ UNCHANGED <<now, log, chat, mapped, holds, control, evidence>>

(* The lease token is unique, here owner and claim.                        *)
Owns(w) ==
  LET run == runs[KeyOf(w)]
  IN run.status = "processing" /\ run.owner = w /\ run.claims = worker[w].token /\ run.until > now

(* Mutant of Unfenced: only the switch is read, not its generation.        *)
UnfencedSwitch(w) == control.enabled
Unfenced(w) == control.enabled /\ control.generation = worker[w].generation

Stop(w) == worker' = [worker EXCEPT ![w] = Idle]

(* A batch, a yield or a failure that finds the lease lost or fenced off   *)
(* writes nothing and ends the invocation, and so does its death.          *)
Abandon(w) ==
  /\ Working(w)
  /\ Stop(w)
  /\ UNCHANGED <<now, log, chat, mapped, holds, control, evidence, runs>>

(* Mutant of Candidates: the row with the high-water id is left out.       *)
CandidatesBelow(k) == InScope(k, runs[k].top - 1) \cap chat
Candidates(k) ==
  {i \in InScope(k, runs[k].top) \cap chat : k.mode = "dry_run" => i > runs[k].cursor}
Batch(k) ==
  {i \in Candidates(k) : Cardinality({j \in Candidates(k) : j < i}) < BatchSize}

(* Mutant of NextCursor: the scan does not move on.                        *)
SameCursor(k, batch) == runs[k].cursor
NextCursor(k, batch) == IF k.mode = "dry_run" THEN Max(batch) ELSE runs[k].cursor

(* processChatRetentionBatch with rows.  Its own look for a hold finds     *)
(* none: PlaceHold takes the lease away (HoldsAndRunsAgree).               *)
ProcessBatch(w) ==
  LET k == KeyOf(w)  run == runs[k]  batch == Batch(k)
  IN /\ Working(w) /\ worker[w].batches < MaxBatches
     /\ Owns(w) /\ Unfenced(w) /\ ~Held(k.room)
     /\ batch # {}
     /\ chat' = IF k.mode = "purge" THEN chat \ batch ELSE chat
     /\ runs' = [runs EXCEPT ![k] =
          [run EXCEPT !.cursor = NextCursor(k, batch),
                      !.count = run.count + Cardinality(batch),
                      !.until = Max({run.until, now + Lease})]]
     /\ worker' = [worker EXCEPT ![w] = [worker[w] EXCEPT !.batches = worker[w].batches + 1]]
     /\ UNCHANGED <<now, log, mapped, holds, control, evidence>>

Complete(w) ==
  LET k == KeyOf(w)
  IN /\ Working(w) /\ worker[w].batches < MaxBatches
     /\ Owns(w) /\ Unfenced(w) /\ ~Held(k.room)
     /\ Batch(k) = {}
     /\ runs' = [runs EXCEPT ![k] = Freed(runs[k], "completed")]
     /\ Stop(w)
     /\ UNCHANGED <<now, log, chat, mapped, holds, control, evidence>>

YieldRun(w) ==
  LET k == KeyOf(w)
  IN /\ Working(w) /\ worker[w].batches = MaxBatches
     /\ Owns(w) /\ Unfenced(w)
     /\ runs' = [runs EXCEPT ![k] = [Freed(runs[k], "pending") EXCEPT !.notBefore = now]]
     /\ Stop(w)
     /\ UNCHANGED <<now, log, chat, mapped, holds, control, evidence>>

(* failChatRetentionRun, after a batch threw; its transaction is undone.   *)
FailRun(w, retryable) ==
  LET k == KeyOf(w)
      failures == runs[k].failures + 1
      dead == ~retryable \/ failures >= MaxFailures
  IN /\ Working(w) /\ Owns(w) /\ Unfenced(w)
     /\ runs' = [runs EXCEPT ![k] =
          [Freed(runs[k], IF dead THEN "dead_letter" ELSE "retry")
             EXCEPT !.failures = failures, !.notBefore = now + Backoff]]
     /\ Stop(w)
     /\ UNCHANGED <<now, log, chat, mapped, holds, control, evidence>>

Replay(k) ==
  /\ runs[k].status = "dead_letter" /\ ~Held(k.room)
  /\ runs' = [runs EXCEPT ![k] = [runs[k] EXCEPT !.status = "pending", !.failures = 0, !.notBefore = now]]
  /\ UNCHANGED <<now, log, chat, mapped, holds, control, evidence, worker>>

Tick ==
  /\ now < Horizon
  /\ now' = now + 1
  /\ UNCHANGED <<log, chat, mapped, holds, control, evidence, runs, worker>>

-----------------------------------------------------------------------------
Operator ==
  \/ \E r \in Rooms : MarkTop(r) \/ FinishEvidence(r) \/ AdoptScope(r)
  \/ \E r \in Rooms, mode \in Modes : Enqueue(r, mode)
  \/ \E enabled \in BOOLEAN : SetControl(enabled)
  \/ \E hold \in Rooms \cup Tenants : PlaceHold(hold) \/ ReleaseHold(hold)
  \/ \E k \in DOMAIN runs : Replay(k)

Work(w) ==
  \/ \E k \in DOMAIN runs : Claim(w, k)
  \/ ProcessBatch(w) \/ Complete(w) \/ YieldRun(w) \/ Abandon(w)
  \/ \E retryable \in BOOLEAN : FailRun(w, retryable)

Next ==
  \/ Tick \/ Operator
  \/ \E r \in Rooms : Send(r)
  \/ \E w \in Workers : Work(w)

Spec == Init /\ [][Next]_vars

-----------------------------------------------------------------------------
Run == [status: Statuses, top: Nat \ {0}, failures: 0..MaxFailures, generation: Nat,
        owner: Workers \cup {NoWorker}, claims: Nat, until: Nat, notBefore: Nat,
        cursor: Nat, count: Nat]

(* A run has an owner and a generation exactly while it is processing.     *)
TypeOK ==
  /\ now \in 0..Horizon
  /\ log \in Seq([room: Rooms, at: 0..now])
  /\ chat \subseteq DOMAIN log
  /\ mapped \subseteq Rooms /\ holds \subseteq Rooms \cup Tenants
  /\ control \in [enabled: BOOLEAN, generation: 0..MaxGeneration]
  /\ evidence \in [Rooms -> [top: Nat, through: 0..now, done: BOOLEAN]]
  /\ DOMAIN runs \subseteq Keys
  /\ \A k \in DOMAIN runs :
       /\ runs[k] \in Run
       /\ runs[k].status = "processing" <=> runs[k].owner # NoWorker
       /\ runs[k].status = "processing" <=> runs[k].generation # 0
  /\ \A w \in Workers :
       Working(w) => /\ KeyOf(w) \in DOMAIN runs
                     /\ worker[w].batches \in 0..MaxBatches
                     /\ worker[w].token <= runs[KeyOf(w)].claims

(* While a room or its tenant is under a hold none of its runs can work,   *)
(* and a run is held only while some hold covers it: no release of one     *)
(* hold lets a run of another go, and none is forgotten.                   *)
HoldsAndRunsAgree ==
  \A k \in DOMAIN runs :
    /\ Held(k.room) => runs[k].status \in {"held", "completed", "dead_letter"}
    /\ runs[k].status = "held" => Held(k.room)

(* Once the switch is off no run is being processed                        *)
(* (docs/CHAT_RETENTION.md, rollback step 2).                              *)
DisabledMeansIdle ==
  \A k \in DOMAIN runs : runs[k].status = "processing" => control.enabled

(* A completed purge left none of its rows behind, whatever crashes,       *)
(* failures, yields and holds it went through, and none has come since.    *)
CompletedMeansPurged ==
  \A k \in DOMAIN runs :
    k.mode = "purge" /\ runs[k].status = "completed" => InScope(k, runs[k].top) \cap chat = {}

(* The counts of the purges of a room are the rows missing from it, and a  *)
(* scan counts no row twice: "it cannot skip or double-count them"         *)
(* (docs/CHAT_RETENTION.md).                                               *)
RoomRuns(r, mode) == {k \in DOMAIN runs : k.room = r /\ k.mode = mode}
DeletionsAreCounted ==
  /\ \A r \in Rooms :
       MapThenSumSet(LAMBDA k : runs[k].count, RoomRuns(r, "purge"))
         = Cardinality({i \in DOMAIN log : log[i].room = r /\ i \notin chat})
  /\ \A k \in DOMAIN runs :
       k.mode = "dry_run" => runs[k].count <= Cardinality(InScope(k, runs[k].top))

(* The runs follow the holds and the switch, and a completed purge left      *)
(* nothing behind.                                                           *)
RetentionIsExact == HoldsAndRunsAgree /\ DisabledMeansIdle /\ CompletedMeansPurged

(* A message disappears only under the generation in force, from a room    *)
(* without a hold, after the retention period and if the evidence of the   *)
(* purge covers it, at most BatchSize at a time.                           *)
Licensed(k, removed) ==
  /\ runs[k].generation = control.generation /\ control.enabled
  /\ k.mode = "purge" /\ runs[k].status = "processing" /\ runs[k].until > now
  /\ ~Held(k.room)
  /\ Cardinality(removed) <= BatchSize
  /\ \A i \in removed : log[i].room = k.room /\ i <= runs[k].top /\ log[i].at + Retention < now

PurgesAreLicensed ==
  [][chat \ chat' # {} => \E k \in DOMAIN runs : Licensed(k, chat \ chat')]_vars
=============================================================================
