--------------------------- MODULE PairRoomProofs ---------------------------
(* What holds of the room that a pair shares, whatever the members, times    *)
(* and bounds: of the retention of its chat (the module extended), of the    *)
(* room of a secondary circle with the session in it (Circle), and of the    *)
(* agreement on a time and its letters (Schedule).  Each part has its        *)
(* inductive invariant; the instances share the variables that they name     *)
(* alike.                                                                    *)
EXTENDS ChatRetention, SequenceTheorems, FiniteSetTheorems, WellFoundedInduction, TLAPS

CONSTANTS
  Users, First, Controls, Losing, Duration, Urls, Instants, MaxNow, MaxRevision,
  Kinds, Leaving, PerMinute, PerRoom, Minute, Hour, SignalsKept, MaxEdits, MaxContext, \* Circle
  Acting, Watched, Losers, Leavers, Listed, Times, Lead, MaxProposals, Secondary, Ends,
  Nobody, LastTime, MaxVersion, MaxUnknown                                              \* Schedule

VARIABLES
  proposals, agreed, version, view, away, silent, mail, told,
  receipt, controls, scheduled, link, overtaken, ran,
  member, context, held, seen, edits, messages, registered, signals,
  document, aged, snapshot

Circle   == INSTANCE SecondaryRoom
Schedule == INSTANCE Scheduling WITH
  Losing <- Losers, Leaving <- Leavers, Instants <- Times, MaxNow <- LastTime

WorkerType == [key : {<<>>} \cup Keys, token : Nat, generation : Nat, batches : Nat]

(* A row of chat_retention_runs: its lease columns agree, its cutoff was     *)
(* Retention before it was enqueued, and what is claimed may still fail.     *)
RunSound(k, run, at) ==
  /\ k \in Keys /\ run \in Run
  /\ run.status = "processing" <=> run.owner # NoWorker
  /\ run.status = "processing" <=> run.generation # 0
  /\ run.status = "processing" => run.failures < MaxFailures
  /\ k.cutoff + Retention <= at
RunsSound == \A k \in DOMAIN runs : RunSound(k, runs[k], now)

(* A worker whose claim is the latest of its run owns it under the           *)
(* generation it remembers, or the row has been freed.                       *)
WorkersSound ==
  /\ worker \in [Workers -> WorkerType]
  /\ \A w \in Workers :
       Working(w) => /\ KeyOf(w) \in DOMAIN runs /\ worker[w].batches <= MaxBatches
                     /\ worker[w].token <= runs[KeyOf(w)].claims
                     /\ runs[KeyOf(w)].claims = worker[w].token
                          => runs[KeyOf(w)].owner \in {NoWorker, w}
                             /\ (runs[KeyOf(w)].owner = w
                                   => runs[KeyOf(w)].generation = worker[w].generation)

WorldSound ==
  /\ now \in 0..Horizon
  /\ log \in Seq([room: Rooms, at: 0..now])
  /\ chat \subseteq DOMAIN log
  /\ mapped \subseteq Rooms /\ holds \subseteq Rooms \cup Tenants
  /\ control \in [enabled: BOOLEAN, generation: 0..MaxGeneration]
  /\ control.enabled => control.generation # 0
  /\ evidence \in [Rooms -> [top: Nat, through: 0..now, done: BOOLEAN]]

Inv == WorldSound /\ RunsSound /\ WorkersSound /\ RetentionIsExact

LEMMA InitSound == Init => Inv
<1> SUFFICES ASSUME Init PROVE Inv
  OBVIOUS
<1>1. WorldSound
  <2>1. now \in 0..Horizon
    BY ChatRetentionAssumption DEF Init, ChatRetentionConstants
  <2>2. log \in Seq([room: Rooms, at: 0..now]) /\ chat \subseteq DOMAIN log
    BY DEF Init
  <2>3. /\ control \in [enabled: BOOLEAN, generation: 0..MaxGeneration]
        /\ ~control.enabled
    BY ChatRetentionAssumption DEF Init, ChatRetentionConstants
  <2>4. evidence \in [Rooms -> [top: Nat, through: 0..now, done: BOOLEAN]]
    BY DEF Init, NoEvidence
  <2> QED BY <2>1, <2>2, <2>3, <2>4 DEF Init, WorldSound
<1>2. DOMAIN runs = {}
  BY DEF Init
<1>3. Idle \in WorkerType
  BY DEF Idle, WorkerType
<1>4. WorkersSound
  BY <1>3 DEF Init, WorkersSound, Working, Idle
<1> QED BY <1>1, <1>2, <1>4 DEF Inv, RunsSound, RetentionIsExact, HoldsAndRunsAgree,
     DisabledMeansIdle, CompletedMeansPurged

-----------------------------------------------------------------------------
(* Helpers.                                                                  *)

LEMMA HasLeast ==
  ASSUME NEW T \in SUBSET Nat, T # {}
  PROVE  \E x \in T : \A y \in T : x <= y
<1> DEFINE R == {p \in Nat \X Nat : p[1] < p[2]}
<1>1. IsWellFoundedOn(R, Nat)
  BY NatLessThanWellFounded DEF OpToRel
<1>2. PICK x \in T : \A y \in T : <<y, x>> \notin R
  BY <1>1, WFMin
<1>3. \A y \in T : ~ (y < x)
  BY <1>2
<1> QED BY <1>2, <1>3

(* A bounded set of naturals has a maximum, and Max finds it.                *)
LEMMA MaxIsHighest ==
  ASSUME NEW S \in SUBSET Nat, S # {}, NEW n \in Nat, \A x \in S : x <= n
  PROVE  Max(S) \in S /\ \A x \in S : x <= Max(S)
<1> DEFINE Bounds == {u \in Nat : \A x \in S : x <= u}
<1>1. PICK least \in Bounds : \A u \in Bounds : least <= u
  <2>1. Bounds \in SUBSET Nat /\ Bounds # {}
    OBVIOUS
  <2> QED BY <2>1, HasLeast
<1>2. least \in S
  <2> SUFFICES ASSUME least \notin S PROVE FALSE
    OBVIOUS
  <2>1. \A x \in S : x < least
    BY <1>1
  <2>2. least - 1 \in Nat /\ \A x \in S : x <= least - 1
    <3>1. PICK x \in S : TRUE
      OBVIOUS
    <3>2. least \in Nat /\ x \in Nat /\ x < least
      BY <1>1, <2>1, <3>1
    <3>3. \A y \in S : y \in Nat
      OBVIOUS
    <3> HIDE DEF Bounds
    <3> QED BY <2>1, <3>2, <3>3
  <2>3. least - 1 \in Bounds
    BY <2>2
  <2> HIDE DEF Bounds
  <2>4. least <= least - 1 /\ least \in Nat
    BY <1>1, <2>3 DEF Bounds
  <2> QED BY <2>4
<1>3. \A x \in S : least >= x
  BY <1>1
<1> HIDE DEF Bounds
<1>4. \E x \in S : \A y \in S : x >= y
  BY <1>2, <1>3
<1>5. Max(S) \in S /\ \A y \in S : Max(S) >= y
  BY <1>4 DEF Max
<1> QED BY <1>5

LEMMA MaxOfTwo == ASSUME NEW a \in Nat, NEW b \in Nat PROVE Max({a, b}) \in Nat
<1>1. {a, b} \in SUBSET Nat /\ {a, b} # {} /\ a + b \in Nat /\ \A x \in {a, b} : x <= a + b
  OBVIOUS
<1>2. Max({a, b}) \in {a, b}
  BY <1>1, MaxIsHighest
<1> QED BY <1>2

(* Ids are the positions of the log: every set of messages is finite.        *)
LEMMA IdsAreFinite ==
  ASSUME WorldSound, NEW S \in SUBSET DOMAIN log
  PROVE  /\ S \in SUBSET (Nat \ {0}) /\ Len(log) \in Nat /\ \A i \in S : i <= Len(log)
         /\ IsFiniteSet(S) /\ Cardinality(S) \in Nat
<1>1. DOMAIN log = 1..Len(log) /\ Len(log) \in Nat
  BY DEF WorldSound
<1>2. IsFiniteSet(1..Len(log))
  BY <1>1, FS_Interval
<1>3. IsFiniteSet(S)
  BY <1>1, <1>2, FS_Subset
<1> QED BY <1>1, <1>3, FS_CardinalityType

(* A worker finds nothing left only when nothing is left.                    *)
LEMMA EmptyBatch ==
  ASSUME WorldSound, NEW k \in DOMAIN runs, Batch(k) = {}
  PROVE  Candidates(k) = {}
<1> DEFINE C == Candidates(k)
<1>1. C \in SUBSET DOMAIN log
  BY DEF Candidates, InScope
<1>2. C \in SUBSET Nat
  BY <1>1, IdsAreFinite
<1> HIDE DEF C
<1> SUFFICES ASSUME C # {} PROVE FALSE
  BY DEF C
<1>3. PICK i \in C : \A j \in C : i <= j
  BY <1>2, HasLeast
<1>4. {j \in C : j < i} = {}
  <2>1. \A j \in C : ~(j < i)
    BY <1>2, <1>3
  <2> QED BY <2>1
<1>5. Cardinality({}) = 0
  BY FS_EmptySet
<1>6. Cardinality({j \in C : j < i}) < BatchSize
  <2>1. BatchSize \in Nat /\ BatchSize # 0
    BY ChatRetentionAssumption DEF ChatRetentionConstants
  <2> QED BY <1>4, <1>5, <2>1
<1> QED BY <1>3, <1>6 DEF C, Batch

LEMMA BatchIsOfScope ==
  ASSUME NEW k \in DOMAIN runs
  PROVE  Batch(k) \subseteq InScope(k, runs[k].top) \cap chat
BY DEF Batch, Candidates

(* A batch is the first BatchSize rows at most.                              *)
LEMMA BatchIsBounded ==
  ASSUME WorldSound, NEW k \in DOMAIN runs
  PROVE  Cardinality(Batch(k)) <= BatchSize
<1> DEFINE C == Candidates(k)
           B == Batch(k)
<1>1. C \in SUBSET DOMAIN log /\ B \in SUBSET C
  BY DEF Candidates, InScope, Batch
<1>2. /\ B \in SUBSET Nat /\ Len(log) \in Nat /\ \A i \in B : i <= Len(log)
      /\ IsFiniteSet(B) /\ Cardinality(B) \in Nat /\ IsFiniteSet(C) /\ C \in SUBSET Nat
  BY <1>1, IdsAreFinite
<1>3. \A i \in B : Cardinality({j \in C : j < i}) < BatchSize
  BY DEF Batch
<1> HIDE DEF B, C
<1>0. BatchSize \in Nat /\ BatchSize # 0
  BY ChatRetentionAssumption DEF ChatRetentionConstants
<1>4. CASE B = {}
  <2>1. Cardinality(B) = 0
    BY <1>4, FS_EmptySet
  <2> QED BY <1>0, <2>1 DEF B
<1>5. CASE B # {}
  <2>1. Max(B) \in B /\ \A i \in B : i <= Max(B)
    BY <1>2, <1>5, MaxIsHighest
  <2> DEFINE m == Max(B)
             before == {j \in C : j < m}
  <2>2. B \ {m} \in SUBSET before
    <3>1. m \in Nat /\ \A i \in B : i \in Nat /\ i <= m
      BY <1>2, <2>1
    <3> HIDE DEF m
    <3> QED BY <1>1, <3>1
  <2>3. IsFiniteSet(before) /\ before \in SUBSET C
    <3>1. before \in SUBSET C
      OBVIOUS
    <3> QED BY <1>2, <3>1, FS_Subset
  <2>4. Cardinality(B \ {m}) <= Cardinality(before) /\ Cardinality(before) \in Nat
    BY <2>2, <2>3, FS_Subset, FS_CardinalityType
  <2>5. Cardinality(B \ {m}) = Cardinality(B) - 1
    BY <1>2, <2>1, FS_RemoveElement
  <2>6. Cardinality(before) < BatchSize
    BY <1>3, <2>1
  <2> HIDE DEF m, before
  <2>7. Cardinality(B) <= BatchSize
    BY <1>2, <2>4, <2>5, <2>6, <1>0
  <2> QED BY <2>7 DEF B
<1> QED BY <1>4, <1>5

-----------------------------------------------------------------------------
(* What a step does to a run.                                                *)

(* One run is rewritten by its worker, or by an operator who replays it.     *)
Rewritten(k) ==
  /\ k \in DOMAIN runs /\ DOMAIN runs' = DOMAIN runs
  /\ \A j \in DOMAIN runs : j # k => runs'[j] = runs[j]
  /\ UNCHANGED <<now, log, mapped, holds, control, evidence>> /\ chat' \subseteq chat
  /\ ~Held(k.room)
  /\ RunSound(k, runs'[k], now) /\ runs'[k].top = runs[k].top
  /\ runs[k].claims <= runs'[k].claims
  /\ runs'[k].status # "held"
  /\ runs'[k].status = "processing" => control.enabled
  /\ runs'[k].status = "completed" => Candidates(k) = {}

LEMMA RunFields ==
  ASSUME NEW run \in Run
  PROVE  /\ run.status \in Statuses /\ run.top \in Nat \ {0} /\ run.failures \in 0..MaxFailures
         /\ run.generation \in Nat /\ run.owner \in Workers \cup {NoWorker} /\ run.claims \in Nat
         /\ run.until \in Nat /\ run.notBefore \in Nat /\ run.cursor \in Nat /\ run.count \in Nat
BY DEF Run

LEMMA FreedIsSound ==
  ASSUME NEW run \in Run, NEW status \in Statuses
  PROVE  /\ Freed(run, status) \in Run /\ Freed(run, status).status = status
         /\ Freed(run, status).owner = NoWorker /\ Freed(run, status).generation = 0
         /\ Freed(run, status).claims = run.claims /\ Freed(run, status).top = run.top
BY DEF Freed, Run

LEMMA DelayedIsSound ==
  ASSUME NEW run \in Run, NEW at \in Nat
  PROVE  /\ [run EXCEPT !.notBefore = at] \in Run
         /\ [run EXCEPT !.notBefore = at].status = run.status
         /\ [run EXCEPT !.notBefore = at].owner = run.owner
         /\ [run EXCEPT !.notBefore = at].generation = run.generation
         /\ [run EXCEPT !.notBefore = at].claims = run.claims
         /\ [run EXCEPT !.notBefore = at].top = run.top
BY DEF Run

LEMMA ConstantsTyped ==
  /\ Retention \in Nat /\ Lease \in Nat /\ Backoff \in Nat /\ Horizon \in Nat
  /\ BatchSize \in Nat /\ MaxBatches \in Nat /\ MaxFailures \in Nat /\ MaxFailures # 0
  /\ MaxGeneration \in Nat /\ TenantOf \in [Rooms -> Tenants] /\ NoWorker \notin Workers
BY ChatRetentionAssumption DEF ChatRetentionConstants

LEMMA ClaimRewrites ==
  ASSUME Inv, NEW w \in Workers, NEW k \in DOMAIN runs, Claim(w, k)
  PROVE  /\ Rewritten(k) /\ chat' = chat
         /\ runs'[k].claims = runs[k].claims + 1 /\ runs'[k].owner = w
         /\ runs'[k].generation = control.generation
<1>1. runs[k] \in Run /\ now \in Nat /\ control.generation \in Nat /\ control.generation # 0
      /\ k \in Keys /\ k.cutoff + Retention <= now /\ runs[k].failures < MaxFailures
      /\ ~Held(k.room) /\ control.enabled
  BY ConstantsTyped DEF Inv, WorldSound, RunsSound, RunSound, Claim, Claimable
<1>2. runs'[k] = [runs[k] EXCEPT !.status = "processing", !.claims = runs[k].claims + 1,
                    !.owner = w, !.generation = control.generation, !.until = now + Lease]
  BY DEF Claim
<1> DEFINE old == runs[k]
           new == runs'[k]
<1>3. /\ new \in Run /\ new.status = "processing" /\ new.claims = old.claims + 1
      /\ new.owner = w /\ new.generation = control.generation /\ new.failures = old.failures
      /\ new.top = old.top
  <2>1. old \in Run /\ now + Lease \in Nat /\ old.claims + 1 \in Nat
    BY <1>1, ConstantsTyped, RunFields
  <2>2. new = [old EXCEPT !.status = "processing", !.claims = old.claims + 1,
                 !.owner = w, !.generation = control.generation, !.until = now + Lease]
    BY <1>2
  <2> HIDE DEF old, new
  <2> QED BY <1>1, <2>1, <2>2 DEF Run, Statuses
<1>4. RunSound(k, new, now)
  BY <1>1, <1>3, ConstantsTyped DEF RunSound
<1> QED BY <1>1, <1>3, <1>4, RunFields DEF Rewritten, Claim

LEMMA BatchRewrites ==
  ASSUME Inv, NEW w \in Workers, ProcessBatch(w)
  PROVE  /\ Rewritten(KeyOf(w)) /\ chat \ chat' \subseteq Batch(KeyOf(w))
         /\ runs[KeyOf(w)].status = "processing" /\ runs[KeyOf(w)].until > now
         /\ control.enabled /\ control.generation = worker[w].generation
         /\ runs[KeyOf(w)].generation = worker[w].generation
         /\ chat' # chat => KeyOf(w).mode = "purge"
         /\ runs'[KeyOf(w)].claims = runs[KeyOf(w)].claims
         /\ runs'[KeyOf(w)].owner = runs[KeyOf(w)].owner
         /\ runs'[KeyOf(w)].generation = runs[KeyOf(w)].generation
<1> DEFINE k == KeyOf(w)
           old == runs[k]
           new == runs'[k]
<1>1. k \in DOMAIN runs /\ RunSound(k, old, now)
      /\ old.status = "processing" /\ old.until > now /\ old.owner = w
      /\ old.claims = worker[w].token
      /\ control.enabled /\ control.generation = worker[w].generation
      /\ ~Held(k.room) /\ Batch(k) # {}
  BY DEF Inv, WorkersSound, RunsSound, ProcessBatch, Owns, Unfenced
<1>2. old.generation = worker[w].generation
  BY <1>1 DEF Inv, WorkersSound, ProcessBatch
<1>3. Batch(k) \in SUBSET DOMAIN log
  BY <1>1, BatchIsOfScope DEF InScope
<1>4. NextCursor(k, Batch(k)) \in Nat /\ Cardinality(Batch(k)) \in Nat
  <2>1. /\ Batch(k) \in SUBSET Nat /\ Len(log) \in Nat /\ \A i \in Batch(k) : i <= Len(log)
        /\ Cardinality(Batch(k)) \in Nat
    BY <1>3, IdsAreFinite DEF Inv
  <2>2. Max(Batch(k)) \in Nat
    BY <1>1, <2>1, MaxIsHighest
  <2> QED BY <1>1, <2>1, <2>2, RunFields DEF NextCursor, RunSound
<1>5. new = [old EXCEPT !.cursor = NextCursor(k, Batch(k)),
                        !.count = old.count + Cardinality(Batch(k)),
                        !.until = Max({old.until, now + Lease})]
  BY <1>1 DEF ProcessBatch
<1>6. Max({old.until, now + Lease}) \in Nat /\ old.count + Cardinality(Batch(k)) \in Nat
  <2>1. old.until \in Nat /\ now + Lease \in Nat /\ old.count \in Nat
    BY <1>1, ConstantsTyped, RunFields DEF RunSound, Inv, WorldSound
  <2> QED BY <1>4, <2>1, MaxOfTwo
<1>7. /\ new \in Run /\ new.status = old.status /\ new.owner = old.owner
      /\ new.generation = old.generation /\ new.claims = old.claims
      /\ new.failures = old.failures /\ new.top = old.top
  <2>1. old \in Run
    BY <1>1 DEF RunSound
  <2> HIDE DEF old, new, k
  <2> QED BY <1>4, <1>5, <1>6, <2>1 DEF Run
<1>8. RunSound(k, new, now)
  BY <1>1, <1>7 DEF RunSound
<1>9. chat' = IF k.mode = "purge" THEN chat \ Batch(k) ELSE chat
  BY DEF ProcessBatch
<1>10. DOMAIN runs' = DOMAIN runs /\ \A j \in DOMAIN runs : j # k => runs'[j] = runs[j]
  BY DEF ProcessBatch
<1>11. UNCHANGED <<now, log, mapped, holds, control, evidence>>
  BY DEF ProcessBatch
<1>12. old.claims \in Nat
  BY <1>1, RunFields DEF RunSound
<1> HIDE DEF old, new, k
<1>13. Rewritten(k)
  BY <1>1, <1>7, <1>8, <1>9, <1>10, <1>11, <1>12 DEF Rewritten, old, new
<1> QED BY <1>1, <1>2, <1>7, <1>9, <1>13 DEF old, new, k

(* A run that its worker gives up, and one that is replayed, has no owner.   *)
Released(k) ==
  /\ Rewritten(k) /\ chat' = chat
  /\ runs'[k].owner = NoWorker /\ runs'[k].claims = runs[k].claims

LEMMA OwnedRun ==
  ASSUME Inv, NEW w \in Workers, Working(w), Owns(w)
  PROVE  /\ KeyOf(w) \in DOMAIN runs /\ RunSound(KeyOf(w), runs[KeyOf(w)], now)
         /\ runs[KeyOf(w)].status = "processing" /\ control.enabled /\ ~Held(KeyOf(w).room)
         /\ runs[KeyOf(w)].failures < MaxFailures /\ runs[KeyOf(w)] \in Run /\ now \in Nat
<1> DEFINE k == KeyOf(w)
<1>1. k \in DOMAIN runs /\ runs[k].status = "processing" /\ now \in Nat
  BY ConstantsTyped DEF Inv, WorkersSound, WorldSound, Owns
<1> HIDE DEF k
<1>2. RunSound(k, runs[k], now) /\ control.enabled /\ ~Held(k.room)
  BY <1>1 DEF Inv, RunsSound, RetentionIsExact, HoldsAndRunsAgree, DisabledMeansIdle
<1>3. runs[k].failures < MaxFailures /\ runs[k] \in Run
  BY <1>1, <1>2 DEF RunSound
<1> QED BY <1>1, <1>2, <1>3 DEF k

LEMMA CompleteReleases ==
  ASSUME Inv, NEW w \in Workers, Complete(w) PROVE Released(KeyOf(w))
<1> DEFINE k == KeyOf(w)
<1>1. /\ k \in DOMAIN runs /\ RunSound(k, runs[k], now) /\ runs[k] \in Run /\ ~Held(k.room)
      /\ now \in Nat
  BY OwnedRun DEF Complete
<1>2. Candidates(k) = {}
  BY <1>1, EmptyBatch DEF Complete, Inv
<1>3. runs'[k] = Freed(runs[k], "completed")
  BY <1>1 DEF Complete
<1>4. "completed" \in Statuses
  BY DEF Statuses
<1>5. /\ runs'[k] \in Run /\ runs'[k].status = "completed" /\ runs'[k].owner = NoWorker
      /\ runs'[k].generation = 0 /\ runs'[k].claims = runs[k].claims /\ runs'[k].top = runs[k].top
  BY <1>1, <1>3, <1>4, FreedIsSound
<1>6. RunSound(k, runs'[k], now)
  BY <1>1, <1>5 DEF RunSound
<1> HIDE DEF k
<1>7. UNCHANGED <<now, log, chat, mapped, holds, control, evidence>> /\ DOMAIN runs' = DOMAIN runs
      /\ \A j \in DOMAIN runs : j # k => runs'[j] = runs[j]
  BY DEF Complete, k
<1>8. Released(k)
  BY <1>1, <1>2, <1>5, <1>6, <1>7, RunFields DEF Released, Rewritten
<1> QED BY <1>8 DEF k

LEMMA YieldReleases ==
  ASSUME Inv, NEW w \in Workers, YieldRun(w) PROVE Released(KeyOf(w))
<1> DEFINE k == KeyOf(w)
<1>1. /\ k \in DOMAIN runs /\ RunSound(k, runs[k], now) /\ runs[k] \in Run /\ ~Held(k.room)
      /\ now \in Nat
  BY OwnedRun DEF YieldRun
<1>3. runs'[k] = [Freed(runs[k], "pending") EXCEPT !.notBefore = now]
  BY <1>1 DEF YieldRun
<1>4. "pending" \in Statuses
  BY DEF Statuses
<1>5. /\ runs'[k] \in Run /\ runs'[k].status = "pending" /\ runs'[k].owner = NoWorker
      /\ runs'[k].generation = 0 /\ runs'[k].claims = runs[k].claims /\ runs'[k].top = runs[k].top
  BY <1>1, <1>3, <1>4, FreedIsSound, DelayedIsSound
<1>6. RunSound(k, runs'[k], now)
  BY <1>1, <1>5 DEF RunSound
<1> HIDE DEF k
<1>7. UNCHANGED <<now, log, chat, mapped, holds, control, evidence>> /\ DOMAIN runs' = DOMAIN runs
      /\ \A j \in DOMAIN runs : j # k => runs'[j] = runs[j]
  BY DEF YieldRun, k
<1>8. Released(k)
  BY <1>1, <1>5, <1>6, <1>7, RunFields DEF Released, Rewritten
<1> QED BY <1>8 DEF k

LEMMA FailReleases ==
  ASSUME Inv, NEW w \in Workers, NEW retryable \in BOOLEAN, FailRun(w, retryable)
  PROVE  Released(KeyOf(w))
<1> DEFINE k == KeyOf(w)
           old == runs[k]
           new == runs'[k]
<1>1. /\ k \in DOMAIN runs /\ RunSound(k, old, now) /\ old \in Run /\ ~Held(k.room)
      /\ now \in Nat /\ old.failures < MaxFailures
  BY OwnedRun DEF FailRun
<1>2. PICK status \in {"dead_letter", "retry"} :
        new = [Freed(old, status) EXCEPT !.failures = old.failures + 1, !.notBefore = now + Backoff]
  BY <1>1 DEF FailRun
<1>3. Freed(old, status) \in Run /\ Freed(old, status).owner = NoWorker
      /\ Freed(old, status).generation = 0 /\ Freed(old, status).status = status
      /\ Freed(old, status).claims = old.claims /\ Freed(old, status).top = old.top
  <2>1. status \in Statuses
    BY DEF Statuses
  <2> QED BY <1>1, <2>1, FreedIsSound
<1>4. now + Backoff \in Nat /\ old.failures + 1 \in 0..MaxFailures
  BY <1>1, ConstantsTyped, RunFields
<1>5. /\ new \in Run /\ new.status = status /\ new.owner = NoWorker
      /\ new.generation = 0 /\ new.claims = old.claims /\ new.top = old.top
  <2> HIDE DEF new, old
  <2> QED BY <1>2, <1>3, <1>4 DEF Run
<1>6. RunSound(k, new, now)
  BY <1>1, <1>5 DEF RunSound
<1> HIDE DEF k
<1>7. UNCHANGED <<now, log, chat, mapped, holds, control, evidence>> /\ DOMAIN runs' = DOMAIN runs
      /\ \A j \in DOMAIN runs : j # k => runs'[j] = runs[j]
  BY DEF FailRun, k
<1>8. Released(k)
  BY <1>1, <1>5, <1>6, <1>7, RunFields DEF Released, Rewritten
<1> QED BY <1>8 DEF k

LEMMA ReplayReleases ==
  ASSUME Inv, NEW k \in DOMAIN runs, Replay(k) PROVE Released(k)
<1> DEFINE old == runs[k]
           new == runs'[k]
<1>1. /\ RunSound(k, old, now) /\ old \in Run /\ ~Held(k.room) /\ now \in Nat
      /\ old.status = "dead_letter"
  BY ConstantsTyped DEF Replay, Inv, RunsSound, RunSound, WorldSound
<1>2. new = [old EXCEPT !.status = "pending", !.failures = 0, !.notBefore = now]
  BY DEF Replay
<1>3. /\ new \in Run /\ new.status = "pending" /\ new.owner = old.owner
      /\ new.generation = old.generation /\ new.claims = old.claims /\ new.top = old.top
  <2>1. 0 \in 0..MaxFailures /\ "pending" \in Statuses
    BY ConstantsTyped DEF Statuses
  <2>2. old \in Run /\ now \in Nat
    BY <1>1
  <2> HIDE DEF new, old
  <2> QED BY <1>2, <2>1, <2>2 DEF Run
<1>4. RunSound(k, new, now) /\ new.owner = NoWorker
  BY <1>1, <1>3 DEF RunSound
<1>7. UNCHANGED <<now, log, chat, mapped, holds, control, evidence>> /\ DOMAIN runs' = DOMAIN runs
      /\ \A j \in DOMAIN runs : j # k => runs'[j] = runs[j]
  BY DEF Replay
<1> QED BY <1>1, <1>3, <1>4, <1>7, RunFields DEF Released, Rewritten

-----------------------------------------------------------------------------
(* The invariant is kept: first by the operator's statements over all runs.  *)

(* Every action but Rewritten ones leaves a run, frees it, or lets it wait.  *)
LEMMA ControlEffect ==
  ASSUME Inv, NEW enabled \in BOOLEAN, SetControl(enabled), NEW k \in DOMAIN runs
  PROVE  /\ DOMAIN runs' = DOMAIN runs /\ RunSound(k, runs'[k], now)
         /\ runs'[k].top = runs[k].top /\ runs'[k].claims = runs[k].claims
         /\ \/ runs'[k] = runs[k] /\ (~enabled => runs[k].status # "processing")
            \/ /\ runs[k].status = "processing" /\ runs'[k].status = "pending"
               /\ runs'[k].owner = NoWorker
<1>1. RunSound(k, runs[k], now) /\ runs[k] \in Run /\ now \in Nat
  BY ConstantsTyped DEF Inv, RunsSound, RunSound, WorldSound
<1>2. "pending" \in Statuses
  BY DEF Statuses
<1>3. DOMAIN runs' = DOMAIN runs /\ runs'[k] = IF enabled THEN runs[k] ELSE Yielded(runs[k])
  BY DEF SetControl
<1>4. CASE runs'[k] = runs[k]
  BY <1>1, <1>3, <1>4, RunFields, <1>2, FreedIsSound DEF Yielded
<1>5. CASE /\ runs[k].status = "processing"
           /\ runs'[k] = [Freed(runs[k], "pending") EXCEPT !.notBefore = now]
  <2>1. /\ runs'[k] \in Run /\ runs'[k].status = "pending" /\ runs'[k].owner = NoWorker
        /\ runs'[k].generation = 0 /\ runs'[k].claims = runs[k].claims /\ runs'[k].top = runs[k].top
    BY <1>1, <1>2, <1>5, FreedIsSound, DelayedIsSound
  <2>2. RunSound(k, runs'[k], now)
    BY <1>1, <2>1 DEF RunSound
  <2> QED BY <1>3, <1>5, <2>1, <2>2
<1> QED BY <1>3, <1>4, <1>5 DEF Yielded

LEMMA HoldEffect ==
  ASSUME Inv, NEW hold \in Rooms \cup Tenants, PlaceHold(hold), NEW k \in DOMAIN runs
  PROVE  /\ DOMAIN runs' = DOMAIN runs /\ RunSound(k, runs'[k], now)
         /\ runs'[k].top = runs[k].top /\ runs'[k].claims = runs[k].claims
         /\ \/ /\ runs'[k] = runs[k]
               /\ Covers(hold, k.room) => runs[k].status \notin {"pending", "processing", "retry"}
            \/ Covers(hold, k.room) /\ runs'[k].status = "held" /\ runs'[k].owner = NoWorker
<1>1. RunSound(k, runs[k], now) /\ runs[k] \in Run /\ 0 \in Nat
  BY DEF Inv, RunsSound, RunSound
<1>2. "held" \in Statuses
  BY DEF Statuses
<1>3. /\ DOMAIN runs' = DOMAIN runs
      /\ runs'[k] = IF Covers(hold, k.room) /\ runs[k].status \in {"pending", "processing", "retry"}
                    THEN Freed(runs[k], "held") ELSE runs[k]
  BY DEF PlaceHold
<1>4. CASE Covers(hold, k.room) /\ runs[k].status \in {"pending", "processing", "retry"}
  <2>1. /\ runs'[k] \in Run /\ runs'[k].status = "held" /\ runs'[k].owner = NoWorker
        /\ runs'[k].generation = 0 /\ runs'[k].claims = runs[k].claims /\ runs'[k].top = runs[k].top
    BY <1>1, <1>2, <1>3, <1>4, FreedIsSound
  <2>2. RunSound(k, runs'[k], now)
    BY <1>1, <2>1 DEF RunSound
  <2> QED BY <1>3, <1>4, <2>1, <2>2
<1>5. CASE ~(Covers(hold, k.room) /\ runs[k].status \in {"pending", "processing", "retry"})
  BY <1>1, <1>3, <1>5
<1> QED BY <1>4, <1>5

LEMMA ReleaseEffect ==
  ASSUME Inv, NEW hold \in Rooms \cup Tenants, ReleaseHold(hold), NEW k \in DOMAIN runs
  PROVE  /\ DOMAIN runs' = DOMAIN runs /\ RunSound(k, runs'[k], now)
         /\ runs'[k].top = runs[k].top /\ runs'[k].claims = runs[k].claims
         /\ \/ /\ runs'[k] = runs[k]
               /\ Covers(hold, k.room) /\ runs[k].status = "held"
                    => \E left \in holds' : Covers(left, k.room)
            \/ /\ runs[k].status = "held" /\ runs'[k].status = "pending"
               /\ runs'[k].owner = NoWorker
               /\ \A left \in holds' : ~Covers(left, k.room)
<1>1. RunSound(k, runs[k], now) /\ runs[k] \in Run /\ now \in Nat
  BY ConstantsTyped DEF Inv, RunsSound, RunSound, WorldSound
<1>2. /\ DOMAIN runs' = DOMAIN runs
      /\ runs'[k] = IF Covers(hold, k.room) /\ runs[k].status = "held" /\ ~StillHeld(k, holds')
                    THEN [runs[k] EXCEPT !.status = "pending", !.notBefore = now] ELSE runs[k]
  BY DEF ReleaseHold
<1>3. CASE Covers(hold, k.room) /\ runs[k].status = "held" /\ ~StillHeld(k, holds')
  <2> DEFINE old == runs[k]
             new == runs'[k]
  <2>1. /\ new \in Run /\ new.status = "pending" /\ new.owner = old.owner
        /\ new.generation = old.generation /\ new.claims = old.claims /\ new.top = old.top
    <3>1. "pending" \in Statuses /\ old \in Run /\ now \in Nat
          /\ new = [old EXCEPT !.status = "pending", !.notBefore = now]
      BY <1>1, <1>2, <1>3 DEF Statuses
    <3> HIDE DEF new, old
    <3> QED BY <3>1 DEF Run
  <2>2. RunSound(k, new, now) /\ new.owner = NoWorker
    BY <1>1, <1>3, <2>1 DEF RunSound
  <2> QED BY <1>2, <1>3, <2>1, <2>2 DEF StillHeld
<1>4. CASE ~(Covers(hold, k.room) /\ runs[k].status = "held" /\ ~StillHeld(k, holds'))
  BY <1>1, <1>2, <1>4 DEF StillHeld
<1> QED BY <1>3, <1>4

LEMMA EnqueueEffect ==
  ASSUME Inv, NEW r \in Rooms, NEW mode \in Modes, Enqueue(r, mode)
  PROVE  \E k \in Keys :
           /\ DOMAIN runs' = DOMAIN runs \cup {k} /\ k \notin DOMAIN runs
           /\ \A j \in DOMAIN runs : runs'[j] = runs[j]
           /\ RunSound(k, runs'[k], now) /\ runs'[k].status = "pending" /\ ~Held(k.room)
<1> DEFINE k == [room |-> r, cutoff |-> Cutoff, mode |-> mode]
           new == NewRun(evidence[r].top)
<1>1. now \in Nat /\ now >= Retention /\ Retention \in Nat
  BY ConstantsTyped DEF Inv, WorldSound, Enqueue
<1>2. k \in Keys /\ k.cutoff + Retention <= now
  BY <1>1 DEF Keys, Cutoff
<1>3. /\ DOMAIN runs' = DOMAIN runs \cup {k} /\ k \notin DOMAIN runs
      /\ \A j \in DOMAIN runs : runs'[j] = runs[j]
      /\ runs'[k] = new
  BY DEF Enqueue
<1>4. evidence[r].top \in Nat \ {0}
  <2>1. evidence[r].top \in DOMAIN log
    BY DEF Enqueue, Inv, WorldSound
  <2>2. {evidence[r].top} \in SUBSET DOMAIN log
    BY <2>1
  <2> QED BY <2>2, IdsAreFinite DEF Inv
<1>5. new \in Run /\ new.status = "pending" /\ new.owner = NoWorker /\ new.generation = 0
  BY <1>1, <1>4, ConstantsTyped DEF NewRun, Run, Statuses
<1> HIDE DEF new
<1>6. RunSound(k, runs'[k], now)
  BY <1>2, <1>3, <1>5 DEF RunSound
<1>7. ~Held(k.room)
  BY DEF Enqueue
<1> QED BY <1>2, <1>3, <1>5, <1>6, <1>7

(* No action loses a run, and every row stays sound at its time.             *)
LEMMA RunsStaySound == ASSUME Inv, [Next]_vars PROVE RunsSound'
<1>0. now \in Nat /\ \A k \in DOMAIN runs : RunSound(k, runs[k], now)
  BY ConstantsTyped DEF Inv, WorldSound, RunsSound
<1>1. CASE UNCHANGED <<runs, now>>
  BY <1>0, <1>1 DEF RunsSound
<1>2. CASE Tick
  <2>1. \A k \in DOMAIN runs : RunSound(k, runs[k], now + 1)
    BY <1>0, ConstantsTyped DEF RunSound, Keys
  <2> QED BY <1>2, <2>1 DEF Tick, RunsSound
<1>3. ASSUME NEW k, Rewritten(k) PROVE RunsSound'
  BY <1>0, <1>3 DEF Rewritten, RunsSound
<1>4. ASSUME NEW r \in Rooms, NEW mode \in Modes, Enqueue(r, mode) PROVE RunsSound'
  <2>1. UNCHANGED now
    BY <1>4 DEF Enqueue
  <2> QED BY <1>0, <1>4, <2>1, EnqueueEffect DEF RunsSound
<1>5. ASSUME NEW enabled \in BOOLEAN, SetControl(enabled) PROVE RunsSound'
  <2>1. UNCHANGED now /\ DOMAIN runs' = DOMAIN runs
    BY <1>5 DEF SetControl
  <2> QED BY <1>5, <2>1, ControlEffect DEF RunsSound
<1>6. ASSUME NEW hold \in Rooms \cup Tenants, PlaceHold(hold) PROVE RunsSound'
  <2>1. UNCHANGED now /\ DOMAIN runs' = DOMAIN runs
    BY <1>6 DEF PlaceHold
  <2> QED BY <1>6, <2>1, HoldEffect DEF RunsSound
<1>7. ASSUME NEW hold \in Rooms \cup Tenants, ReleaseHold(hold) PROVE RunsSound'
  <2>1. UNCHANGED now /\ DOMAIN runs' = DOMAIN runs
    BY <1>7 DEF ReleaseHold
  <2> QED BY <1>7, <2>1, ReleaseEffect DEF RunsSound
<1>8. ASSUME NEW k \in DOMAIN runs, Replay(k) PROVE RunsSound'
  BY <1>3, <1>8, ReplayReleases DEF Released
<1>9. ASSUME NEW w \in Workers, Work(w) PROVE RunsSound'
  <2>1. CASE Abandon(w)
    BY <1>1, <2>1 DEF Abandon
  <2> QED BY <1>3, <1>9, <2>1, ClaimRewrites, BatchRewrites, CompleteReleases, YieldReleases,
          FailReleases DEF Work, Released
<1>10. ASSUME NEW r \in Rooms, Send(r) \/ MarkTop(r) \/ FinishEvidence(r) \/ AdoptScope(r)
       PROVE  RunsSound'
  BY <1>1, <1>10 DEF Send, MarkTop, FinishEvidence, AdoptScope
<1> QED BY <1>1, <1>2, <1>4, <1>5, <1>6, <1>7, <1>8, <1>9, <1>10 DEF Next, Operator, vars

-----------------------------------------------------------------------------
(* The workers.                                                              *)

LEMMA IdleIsTyped == Idle \in WorkerType /\ Idle.token = 0
BY DEF Idle, WorkerType

(* What workers remember stays sound when no run is claimed.                 *)
LEMMA WorkersFrame ==
  ASSUME Inv, worker' \in [Workers -> WorkerType], DOMAIN runs \subseteq DOMAIN runs',
         \A k \in DOMAIN runs :
           /\ runs'[k].claims = runs[k].claims
           /\ \/ runs'[k].owner = NoWorker
              \/ runs'[k].owner = runs[k].owner /\ runs'[k].generation = runs[k].generation,
         \A w \in Workers :
           \/ worker'[w].token = 0
           \/ /\ worker'[w].key = worker[w].key /\ worker'[w].token = worker[w].token
              /\ worker'[w].generation = worker[w].generation
              /\ worker'[w].batches <= MaxBatches
  PROVE  WorkersSound'
<1> SUFFICES ASSUME NEW w \in Workers, Working(w)'
             PROVE  (/\ KeyOf(w) \in DOMAIN runs /\ worker[w].batches <= MaxBatches
                     /\ worker[w].token <= runs[KeyOf(w)].claims
                     /\ runs[KeyOf(w)].claims = worker[w].token
                          => runs[KeyOf(w)].owner \in {NoWorker, w}
                             /\ (runs[KeyOf(w)].owner = w
                                   => runs[KeyOf(w)].generation = worker[w].generation))'
  BY DEF WorkersSound
<1>1. /\ worker'[w].key = worker[w].key /\ worker'[w].token = worker[w].token
      /\ worker'[w].generation = worker[w].generation /\ worker'[w].batches <= MaxBatches
      /\ Working(w)
  BY DEF Working
<1>2. /\ KeyOf(w) \in DOMAIN runs
      /\ worker[w].token <= runs[KeyOf(w)].claims
      /\ runs[KeyOf(w)].claims = worker[w].token
           => runs[KeyOf(w)].owner \in {NoWorker, w}
              /\ (runs[KeyOf(w)].owner = w => runs[KeyOf(w)].generation = worker[w].generation)
  BY <1>1 DEF Inv, WorkersSound
<1>3. NoWorker # w
  BY ConstantsTyped
<1> QED BY <1>1, <1>2, <1>3 DEF KeyOf

LEMMA StopFrame ==
  ASSUME Inv, NEW w \in Workers, Stop(w)
  PROVE  /\ worker' \in [Workers -> WorkerType]
         /\ \A v \in Workers : worker'[v].token = 0 \/ (worker'[v] = worker[v] /\ v # w)
<1>1. worker \in [Workers -> WorkerType] /\ worker' = [worker EXCEPT ![w] = Idle]
  BY DEF Inv, WorkersSound, Stop
<1>2. worker' \in [Workers -> WorkerType] /\ worker'[w] = Idle
  BY <1>1, IdleIsTyped
<1>3. \A v \in Workers : v # w => worker'[v] = worker[v]
  BY <1>1
<1>4. \A v \in Workers : v = w \/ (worker'[v] = worker[v] /\ v # w)
  BY <1>3
<1>5. worker'[w].token = 0
  BY <1>2, IdleIsTyped
<1> QED BY <1>2, <1>4, <1>5

LEMMA BatchesBounded ==
  ASSUME Inv, NEW w \in Workers
  PROVE  worker[w] \in WorkerType /\ (worker[w].token # 0 => worker[w].batches <= MaxBatches)
BY DEF Inv, WorkersSound, Working

LEMMA WorkersStaySound == ASSUME Inv, [Next]_vars PROVE WorkersSound'
<1>0. worker \in [Workers -> WorkerType]
  BY DEF Inv, WorkersSound
<1>1. CASE UNCHANGED <<runs, worker>>
  BY <1>0, <1>1, WorkersFrame, BatchesBounded
<1>2. ASSUME NEW r \in Rooms, NEW mode \in Modes, Enqueue(r, mode) PROVE WorkersSound'
  <2>1. UNCHANGED worker
    BY <1>2 DEF Enqueue
  <2> QED BY <1>0, <1>2, <2>1, EnqueueEffect, WorkersFrame, BatchesBounded
<1>3. ASSUME NEW enabled \in BOOLEAN, SetControl(enabled) PROVE WorkersSound'
  <2>1. UNCHANGED worker /\ DOMAIN runs' = DOMAIN runs
    BY <1>3 DEF SetControl
  <2> QED BY <1>0, <1>3, <2>1, ControlEffect, WorkersFrame, BatchesBounded
<1>4. ASSUME NEW hold \in Rooms \cup Tenants, PlaceHold(hold) PROVE WorkersSound'
  <2>1. UNCHANGED worker /\ DOMAIN runs' = DOMAIN runs
    BY <1>4 DEF PlaceHold
  <2> QED BY <1>0, <1>4, <2>1, HoldEffect, WorkersFrame, BatchesBounded
<1>5. ASSUME NEW hold \in Rooms \cup Tenants, ReleaseHold(hold) PROVE WorkersSound'
  <2>1. UNCHANGED worker /\ DOMAIN runs' = DOMAIN runs
    BY <1>5 DEF ReleaseHold
  <2> QED BY <1>0, <1>5, <2>1, ReleaseEffect, WorkersFrame, BatchesBounded
<1>6. ASSUME NEW k \in DOMAIN runs, Replay(k) PROVE WorkersSound'
  <2>1. UNCHANGED worker
    BY <1>6 DEF Replay
  <2> QED BY <1>0, <1>6, <2>1, ReplayReleases, WorkersFrame, BatchesBounded DEF Released, Rewritten
<1>7. ASSUME NEW w \in Workers, Abandon(w) PROVE WorkersSound'
  <2>1. UNCHANGED runs /\ Stop(w)
    BY <1>7 DEF Abandon
  <2> QED BY <1>0, <2>1, StopFrame, WorkersFrame, BatchesBounded
<1>8. ASSUME NEW w \in Workers, NEW k, Released(k), Stop(w) PROVE WorkersSound'
  BY <1>0, <1>8, StopFrame, WorkersFrame, BatchesBounded DEF Released, Rewritten
<1>9. ASSUME NEW w \in Workers, ProcessBatch(w) PROVE WorkersSound'
  <2>1. worker' = [worker EXCEPT ![w] = [worker[w] EXCEPT !.batches = worker[w].batches + 1]]
        /\ worker[w].batches < MaxBatches
    BY <1>9 DEF ProcessBatch
  <2>2. worker[w] \in WorkerType /\ worker[w].batches \in Nat /\ worker[w].batches + 1 <= MaxBatches
    BY <1>0, <2>1, ConstantsTyped DEF WorkerType
  <2>3. worker' \in [Workers -> WorkerType]
    <3>1. [worker[w] EXCEPT !.batches = worker[w].batches + 1] \in WorkerType
      BY <2>2 DEF WorkerType
    <3> QED BY <1>0, <2>1, <3>1
  <2>4. /\ worker'[w].key = worker[w].key /\ worker'[w].token = worker[w].token
        /\ worker'[w].generation = worker[w].generation /\ worker'[w].batches <= MaxBatches
        /\ \A v \in Workers : v # w => worker'[v] = worker[v]
    BY <1>0, <2>1, <2>2 DEF WorkerType
  <2> QED BY <1>9, <2>3, <2>4, BatchRewrites, WorkersFrame, BatchesBounded DEF Rewritten
<1>10. ASSUME NEW w \in Workers, NEW k \in DOMAIN runs, Claim(w, k) PROVE WorkersSound'
  <2> DEFINE memory == [key |-> k, token |-> runs[k].claims + 1,
                        generation |-> control.generation, batches |-> 0]
  <2>1. worker' = [worker EXCEPT ![w] = memory]
    BY <1>10 DEF Claim
  <2>2. k \in Keys /\ runs[k].claims \in Nat /\ control.generation \in Nat
    BY RunFields, ConstantsTyped DEF Inv, RunsSound, RunSound, WorldSound
  <2>3. memory \in WorkerType
    BY <2>2 DEF WorkerType
  <2>4. worker' \in [Workers -> WorkerType] /\ worker'[w] = memory
        /\ \A v \in Workers : v # w => worker'[v] = worker[v]
    BY <1>0, <2>1, <2>3
  <2>5. /\ DOMAIN runs' = DOMAIN runs /\ \A j \in DOMAIN runs : j # k => runs'[j] = runs[j]
        /\ runs'[k].claims = runs[k].claims + 1 /\ runs'[k].owner = w
        /\ runs'[k].generation = control.generation
    BY <1>10, ClaimRewrites DEF Rewritten
  <2> SUFFICES ASSUME NEW v \in Workers, Working(v)'
               PROVE  (/\ KeyOf(v) \in DOMAIN runs /\ worker[v].batches <= MaxBatches
                       /\ worker[v].token <= runs[KeyOf(v)].claims
                       /\ runs[KeyOf(v)].claims = worker[v].token
                            => runs[KeyOf(v)].owner \in {NoWorker, v}
                               /\ (runs[KeyOf(v)].owner = v
                                     => runs[KeyOf(v)].generation = worker[v].generation))'
    BY <2>4 DEF WorkersSound
  <2>6. CASE v = w
    BY <2>2, <2>4, <2>5, <2>6, ConstantsTyped DEF KeyOf
  <2>7. CASE v # w
    <3>1. worker'[v] = worker[v] /\ worker[v] \in WorkerType /\ Working(v)
      BY <1>0, <2>4, <2>7 DEF Working
    <3>2. /\ KeyOf(v) \in DOMAIN runs /\ worker[v].batches <= MaxBatches
          /\ worker[v].token <= runs[KeyOf(v)].claims
          /\ runs[KeyOf(v)].claims = worker[v].token
               => runs[KeyOf(v)].owner \in {NoWorker, v}
                  /\ (runs[KeyOf(v)].owner = v => runs[KeyOf(v)].generation = worker[v].generation)
      BY <3>1 DEF Inv, WorkersSound
    <3>3. worker[v].token \in Nat
      BY <3>1 DEF WorkerType
    <3> QED BY <2>2, <2>5, <3>1, <3>2, <3>3 DEF KeyOf
  <2> QED BY <2>6, <2>7
<1> QED BY <1>1, <1>2, <1>3, <1>4, <1>5, <1>6, <1>7, <1>8, <1>9, <1>10, CompleteReleases,
     YieldReleases, FailReleases DEF Next, Operator, Work, vars, Tick, Send, MarkTop,
     FinishEvidence, AdoptScope, Complete, YieldRun, FailRun

-----------------------------------------------------------------------------
(* The world around the runs.                                                *)

LEMMA WorldStaysSound == ASSUME Inv, [Next]_vars PROVE WorldSound'
<1>0. WorldSound /\ now \in Nat /\ log \in Seq([room: Rooms, at: 0..now])
  BY ConstantsTyped DEF Inv, WorldSound
<1>1. CASE UNCHANGED <<now, log, mapped, holds, control, evidence>> /\ chat' \subseteq chat
  BY <1>0, <1>1 DEF WorldSound
<1>2. CASE Tick
  <2>1. now + 1 \in 0..Horizon /\ 0..now \subseteq 0..now + 1
    BY <1>0, <1>2, ConstantsTyped DEF Tick
  <2>2. log \in Seq([room: Rooms, at: 0..now + 1])
    <3>1. [room: Rooms, at: 0..now] \subseteq [room: Rooms, at: 0..now + 1]
      BY <2>1
    <3> DEFINE S == [room: Rooms, at: 0..now]
               T == [room: Rooms, at: 0..now + 1]
    <3>2. log \in Seq(S) /\ S \subseteq T
      BY <1>0, <3>1
    <3> HIDE DEF S, T
    <3>3. log \in Seq(T)
      BY <3>2
    <3> QED BY <3>3 DEF T
  <2>3. evidence \in [Rooms -> [top: Nat, through: 0..now + 1, done: BOOLEAN]]
    BY <1>0, <2>1 DEF WorldSound
  <2> QED BY <1>0, <1>2, <2>1, <2>2, <2>3 DEF WorldSound, Tick
<1>3. ASSUME NEW r \in Rooms, Send(r) PROVE WorldSound'
  <2> DEFINE S == [room: Rooms, at: 0..now]
             new == [room |-> r, at |-> now]
  <2>1. new \in S /\ log \in Seq(S) /\ log' = Append(log, new) /\ chat' = chat \cup {Len(log) + 1}
    BY <1>0, <1>3 DEF Send
  <2> HIDE DEF S, new
  <2>2. log' \in Seq(S) /\ DOMAIN log' = 1..Len(log) + 1 /\ DOMAIN log = 1..Len(log)
        /\ Len(log) \in Nat
    BY <2>1
  <2>3. chat' \subseteq DOMAIN log'
    BY <1>0, <2>1, <2>2 DEF WorldSound
  <2> QED BY <1>0, <1>3, <2>2, <2>3 DEF WorldSound, Send, S
<1>4. ASSUME NEW r \in Rooms, MarkTop(r) PROVE WorldSound'
  <2>1. Max(RoomMessages(r)) \in Nat
    <3>1. RoomMessages(r) \in SUBSET DOMAIN log
      BY <1>0 DEF RoomMessages, WorldSound
    <3>2. /\ RoomMessages(r) \in SUBSET Nat /\ Len(log) \in Nat
          /\ \A i \in RoomMessages(r) : i <= Len(log)
      BY <1>0, <3>1, IdsAreFinite
    <3> QED BY <1>4, <3>2, MaxIsHighest DEF MarkTop
  <2>2. [top |-> Max(RoomMessages(r)), through |-> now, done |-> FALSE]
          \in [top: Nat, through: 0..now, done: BOOLEAN]
    BY <1>0, <2>1
  <2>3. evidence' \in [Rooms -> [top: Nat, through: 0..now, done: BOOLEAN]]
    BY <1>0, <1>4, <2>2 DEF MarkTop, WorldSound
  <2> QED BY <1>0, <1>4, <2>3 DEF WorldSound, MarkTop
<1>5. ASSUME NEW r \in Rooms, FinishEvidence(r) PROVE WorldSound'
  <2>1. evidence \in [Rooms -> [top: Nat, through: 0..now, done: BOOLEAN]]
    BY <1>0 DEF WorldSound
  <2>2. [top |-> evidence[r].top, through |-> now, done |-> TRUE]
          \in [top: Nat, through: 0..now, done: BOOLEAN]
    BY <1>0, <2>1
  <2>3. evidence' \in [Rooms -> [top: Nat, through: 0..now, done: BOOLEAN]]
    BY <1>5, <2>1, <2>2 DEF FinishEvidence
  <2> QED BY <1>0, <1>5, <2>3 DEF WorldSound, FinishEvidence
<1>6. ASSUME NEW r \in Rooms, AdoptScope(r) PROVE WorldSound'
  BY <1>0, <1>6 DEF WorldSound, AdoptScope
<1>7. ASSUME NEW enabled \in BOOLEAN, SetControl(enabled) PROVE WorldSound'
  <2>1. control \in [enabled: BOOLEAN, generation: 0..MaxGeneration]
    BY <1>0 DEF WorldSound
  <2>2. control' = [enabled |-> enabled, generation |-> control.generation + 1]
        /\ control.generation < MaxGeneration
    BY <1>7 DEF SetControl
  <2>3. control' \in [enabled: BOOLEAN, generation: 0..MaxGeneration] /\ control'.generation # 0
    BY <2>1, <2>2, ConstantsTyped
  <2> QED BY <1>0, <1>7, <2>3 DEF WorldSound, SetControl
<1>8. ASSUME NEW hold \in Rooms \cup Tenants, PlaceHold(hold) \/ ReleaseHold(hold) PROVE WorldSound'
  BY <1>0, <1>8 DEF WorldSound, PlaceHold, ReleaseHold
<1>9. ASSUME NEW k, Rewritten(k) PROVE WorldSound'
  BY <1>1, <1>9 DEF Rewritten
<1>10. ASSUME NEW w \in Workers, Work(w) PROVE WorldSound'
  <2>1. CASE Abandon(w)
    BY <1>1, <2>1 DEF Abandon
  <2> QED BY <1>9, <1>10, <2>1, ClaimRewrites, BatchRewrites, CompleteReleases, YieldReleases,
          FailReleases DEF Work, Released
<1>11. ASSUME NEW r \in Rooms, NEW mode \in Modes, Enqueue(r, mode) PROVE WorldSound'
  BY <1>1, <1>11 DEF Enqueue
<1>12. ASSUME NEW k \in DOMAIN runs, Replay(k) PROVE WorldSound'
  BY <1>9, <1>12, ReplayReleases DEF Released
<1>13. CASE UNCHANGED vars
  BY <1>1, <1>13 DEF vars
<1> QED BY <1>2, <1>3, <1>4, <1>5, <1>6, <1>7, <1>8, <1>10, <1>11, <1>12, <1>13 DEF Next, Operator

-----------------------------------------------------------------------------
(* Holds, the switch and what a completed purge left.                        *)

LEMMA HeldMeansCovered ==
  ASSUME NEW r
  PROVE  Held(r) <=> \E hold \in holds : Covers(hold, r)
BY DEF Held, Covers

LEMMA HeldMeansCoveredNext ==
  ASSUME NEW r
  PROVE  Held(r)' <=> \E hold \in holds' : Covers(hold, r)
BY DEF Held, Covers

LEMMA HoldsAgreeStep == ASSUME Inv, [Next]_vars PROVE HoldsAndRunsAgree'
<1>0. /\ \A k \in DOMAIN runs :
           /\ Held(k.room) => runs[k].status \in {"held", "completed", "dead_letter"}
           /\ runs[k].status = "held" => Held(k.room)
           /\ runs[k] \in Run /\ k \in Keys
  BY DEF Inv, RunsSound, RunSound, RetentionIsExact, HoldsAndRunsAgree
<1>1. CASE UNCHANGED <<runs, holds>>
  BY <1>0, <1>1 DEF HoldsAndRunsAgree, Held
<1>2. ASSUME NEW k, Rewritten(k) PROVE HoldsAndRunsAgree'
  BY <1>0, <1>2 DEF HoldsAndRunsAgree, Held, Rewritten
<1>3. ASSUME NEW r \in Rooms, NEW mode \in Modes, Enqueue(r, mode) PROVE HoldsAndRunsAgree'
  <2>1. UNCHANGED holds
    BY <1>3 DEF Enqueue
  <2> QED BY <1>0, <1>3, <2>1, EnqueueEffect DEF HoldsAndRunsAgree, Held
<1>4. ASSUME NEW enabled \in BOOLEAN, SetControl(enabled) PROVE HoldsAndRunsAgree'
  <2>1. UNCHANGED holds /\ DOMAIN runs' = DOMAIN runs
    BY <1>4 DEF SetControl
  <2> QED BY <1>0, <1>4, <2>1, ControlEffect DEF HoldsAndRunsAgree, Held
<1>5. ASSUME NEW hold \in Rooms \cup Tenants, PlaceHold(hold) PROVE HoldsAndRunsAgree'
  <2>1. holds' = holds \cup {hold} /\ DOMAIN runs' = DOMAIN runs
    BY <1>5 DEF PlaceHold
  <2> SUFFICES ASSUME NEW k \in DOMAIN runs
               PROVE  /\ Held(k.room)' => runs'[k].status \in {"held", "completed", "dead_letter"}
                      /\ runs'[k].status = "held" => Held(k.room)'
    BY <2>1 DEF HoldsAndRunsAgree
  <2>2. Held(k.room)' <=> Held(k.room) \/ Covers(hold, k.room)
    BY <2>1, HeldMeansCovered, HeldMeansCoveredNext
  <2>3. runs[k].status \in Statuses
    BY <1>0, RunFields
  <2> QED BY <1>0, <1>5, <2>2, <2>3, HoldEffect DEF Statuses
<1>6. ASSUME NEW hold \in Rooms \cup Tenants, ReleaseHold(hold) PROVE HoldsAndRunsAgree'
  <2>1. holds' = holds \ {hold} /\ DOMAIN runs' = DOMAIN runs
    BY <1>6 DEF ReleaseHold
  <2> SUFFICES ASSUME NEW k \in DOMAIN runs
               PROVE  /\ Held(k.room)' => runs'[k].status \in {"held", "completed", "dead_letter"}
                      /\ runs'[k].status = "held" => Held(k.room)'
    BY <2>1 DEF HoldsAndRunsAgree
  <2>2. /\ Held(k.room) <=> \E left \in holds : Covers(left, k.room)
        /\ Held(k.room)' <=> \E left \in holds' : Covers(left, k.room)
    BY HeldMeansCovered, HeldMeansCoveredNext
  <2> QED BY <1>0, <1>6, <2>1, <2>2, ReleaseEffect
<1>7. ASSUME NEW k \in DOMAIN runs, Replay(k) PROVE HoldsAndRunsAgree'
  BY <1>2, <1>7, ReplayReleases DEF Released
<1>8. ASSUME NEW w \in Workers, Work(w) PROVE HoldsAndRunsAgree'
  <2>1. CASE Abandon(w)
    BY <1>1, <2>1 DEF Abandon
  <2> QED BY <1>2, <1>8, <2>1, ClaimRewrites, BatchRewrites, CompleteReleases, YieldReleases,
          FailReleases DEF Work, Released
<1> QED BY <1>1, <1>3, <1>4, <1>5, <1>6, <1>7, <1>8 DEF Next, Operator, vars, Tick, Send, MarkTop,
     FinishEvidence, AdoptScope

LEMMA SwitchStep == ASSUME Inv, [Next]_vars PROVE DisabledMeansIdle'
<1>0. \A k \in DOMAIN runs : runs[k].status = "processing" => control.enabled
  BY DEF Inv, RetentionIsExact, DisabledMeansIdle
<1>1. CASE UNCHANGED <<runs, control>>
  BY <1>0, <1>1 DEF DisabledMeansIdle
<1>2. ASSUME NEW k, Rewritten(k) PROVE DisabledMeansIdle'
  BY <1>0, <1>2 DEF DisabledMeansIdle, Rewritten
<1>3. ASSUME NEW r \in Rooms, NEW mode \in Modes, Enqueue(r, mode) PROVE DisabledMeansIdle'
  <2>1. UNCHANGED control
    BY <1>3 DEF Enqueue
  <2> QED BY <1>0, <1>3, <2>1, EnqueueEffect DEF DisabledMeansIdle
<1>4. ASSUME NEW enabled \in BOOLEAN, SetControl(enabled) PROVE DisabledMeansIdle'
  <2>1. control'.enabled = enabled /\ DOMAIN runs' = DOMAIN runs
    BY <1>4 DEF SetControl
  <2> QED BY <1>0, <1>4, <2>1, ControlEffect DEF DisabledMeansIdle
<1>5. ASSUME NEW hold \in Rooms \cup Tenants, PlaceHold(hold) PROVE DisabledMeansIdle'
  <2>1. UNCHANGED control /\ DOMAIN runs' = DOMAIN runs
    BY <1>5 DEF PlaceHold
  <2> QED BY <1>0, <1>5, <2>1, HoldEffect DEF DisabledMeansIdle
<1>6. ASSUME NEW hold \in Rooms \cup Tenants, ReleaseHold(hold) PROVE DisabledMeansIdle'
  <2>1. UNCHANGED control /\ DOMAIN runs' = DOMAIN runs
    BY <1>6 DEF ReleaseHold
  <2> QED BY <1>0, <1>6, <2>1, ReleaseEffect DEF DisabledMeansIdle
<1>7. ASSUME NEW k \in DOMAIN runs, Replay(k) PROVE DisabledMeansIdle'
  BY <1>2, <1>7, ReplayReleases DEF Released
<1>8. ASSUME NEW w \in Workers, Work(w) PROVE DisabledMeansIdle'
  <2>1. CASE Abandon(w)
    BY <1>1, <2>1 DEF Abandon
  <2> QED BY <1>2, <1>8, <2>1, ClaimRewrites, BatchRewrites, CompleteReleases, YieldReleases,
          FailReleases DEF Work, Released
<1> QED BY <1>1, <1>3, <1>4, <1>5, <1>6, <1>7, <1>8 DEF Next, Operator, vars, Tick, Send, MarkTop,
     FinishEvidence, AdoptScope

(* No message enters the scope of a run any more: what is sent now is        *)
(* younger than its cutoff.                                                  *)
LEMMA ScopeDoesNotGrow ==
  ASSUME Inv, [Next]_vars, NEW k \in DOMAIN runs, NEW top \in Nat
  PROVE  InScope(k, top)' \cap chat' \subseteq InScope(k, top) \cap chat
<1>0. /\ WorldSound /\ k \in Keys /\ k.cutoff \in Nat /\ k.cutoff <= now /\ now \in Nat
  BY ConstantsTyped DEF Inv, RunsSound, RunSound, WorldSound, Keys
<1>1. CASE UNCHANGED log /\ chat' \subseteq chat
  BY <1>1 DEF InScope
<1>2. ASSUME NEW r \in Rooms, Send(r)
      PROVE  InScope(k, top)' \cap chat' \subseteq InScope(k, top) \cap chat
  <2> DEFINE new == [room |-> r, at |-> now]
  <2>1. log \in Seq([room: Rooms, at: 0..now]) /\ new \in [room: Rooms, at: 0..now]
        /\ log' = Append(log, new) /\ chat' = chat \cup {Len(log) + 1} /\ chat \subseteq DOMAIN log
    BY <1>0, <1>2 DEF Send, WorldSound
  <2>2. new.at = now
    OBVIOUS
  <2> DEFINE S == [room: Rooms, at: 0..now]
  <2> HIDE DEF new, S
  <2>3. /\ Len(log) \in Nat /\ DOMAIN log' = 1..Len(log) + 1 /\ DOMAIN log = 1..Len(log)
        /\ \A i \in DOMAIN log : log'[i] = log[i]
        /\ log'[Len(log) + 1] = new
    <3>1. log \in Seq(S) /\ new \in S /\ log' = Append(log, new)
      BY <2>1 DEF S
    <3> QED BY <3>1
  <2>4. SUFFICES ASSUME NEW i \in InScope(k, top)' \cap chat'
                 PROVE  i \in InScope(k, top) \cap chat
    OBVIOUS
  <2>5. i \in DOMAIN log' /\ log'[i].room = k.room /\ i <= top /\ log'[i].at < k.cutoff
    BY DEF InScope
  <2>6. i # Len(log) + 1
    BY <1>0, <2>2, <2>3, <2>5
  <2>7. i \in DOMAIN log /\ i \in chat
    BY <2>1, <2>3, <2>5, <2>6
  <2> QED BY <2>3, <2>5, <2>7 DEF InScope
<1>3. ASSUME NEW w \in Workers, Work(w)
      PROVE  InScope(k, top)' \cap chat' \subseteq InScope(k, top) \cap chat
  BY <1>1, <1>3 DEF Work, Claim, ProcessBatch, Complete, YieldRun, FailRun, Abandon
<1>4. CASE Operator
  BY <1>1, <1>4 DEF Operator, MarkTop, FinishEvidence, AdoptScope, Enqueue, SetControl, PlaceHold,
     ReleaseHold, Replay
<1> QED BY <1>1, <1>2, <1>3, <1>4 DEF Next, Tick, vars

LEMMA PurgedStep == ASSUME Inv, [Next]_vars PROVE CompletedMeansPurged'
<1>0. \A k \in DOMAIN runs :
        /\ k.mode = "purge" /\ runs[k].status = "completed"
             => InScope(k, runs[k].top) \cap chat = {}
        /\ runs[k].top \in Nat /\ k \in Keys
  BY RunFields DEF Inv, RunsSound, RunSound, RetentionIsExact, CompletedMeansPurged
<1>1. ASSUME \A k \in DOMAIN runs' :
               runs'[k].status = "completed" =>
                 /\ k \in DOMAIN runs /\ runs'[k].top = runs[k].top
                 /\ runs[k].status = "completed" \/ Candidates(k) = {}
      PROVE  CompletedMeansPurged'
  <2> SUFFICES ASSUME NEW k \in DOMAIN runs', k.mode = "purge", runs'[k].status = "completed"
               PROVE  (InScope(k, runs[k].top) \cap chat = {})'
    BY DEF CompletedMeansPurged
  <2>1. k \in DOMAIN runs /\ runs'[k].top = runs[k].top
    BY <1>1
  <2>2. InScope(k, runs[k].top) \cap chat = {}
    BY <1>0, <1>1, <2>1 DEF Candidates
  <2>3. PICK top \in Nat : top = runs[k].top
    BY <1>0, <2>1
  <2>4. InScope(k, top)' \cap chat' \subseteq InScope(k, top) \cap chat
    BY <2>1, ScopeDoesNotGrow
  <2>5. InScope(k, top)' \cap chat' = {}
    BY <2>2, <2>3, <2>4
  <2> QED BY <2>1, <2>3, <2>5 DEF InScope
<1>2. CASE UNCHANGED runs
  BY <1>1, <1>2
<1>3. ASSUME NEW k, Rewritten(k) PROVE CompletedMeansPurged'
  BY <1>1, <1>3 DEF Rewritten
<1>4. ASSUME NEW r \in Rooms, NEW mode \in Modes, Enqueue(r, mode) PROVE CompletedMeansPurged'
  BY <1>1, <1>4, EnqueueEffect
<1>5. ASSUME NEW enabled \in BOOLEAN, SetControl(enabled) PROVE CompletedMeansPurged'
  <2>1. DOMAIN runs' = DOMAIN runs
    BY <1>5 DEF SetControl
  <2> QED BY <1>1, <1>5, <2>1, ControlEffect
<1>6. ASSUME NEW hold \in Rooms \cup Tenants, PlaceHold(hold) PROVE CompletedMeansPurged'
  <2>1. DOMAIN runs' = DOMAIN runs
    BY <1>6 DEF PlaceHold
  <2> QED BY <1>1, <1>6, <2>1, HoldEffect
<1>7. ASSUME NEW hold \in Rooms \cup Tenants, ReleaseHold(hold) PROVE CompletedMeansPurged'
  <2>1. DOMAIN runs' = DOMAIN runs
    BY <1>7 DEF ReleaseHold
  <2> QED BY <1>1, <1>7, <2>1, ReleaseEffect
<1>8. ASSUME NEW k \in DOMAIN runs, Replay(k) PROVE CompletedMeansPurged'
  BY <1>3, <1>8, ReplayReleases DEF Released
<1>9. ASSUME NEW w \in Workers, Work(w) PROVE CompletedMeansPurged'
  <2>1. CASE Abandon(w)
    BY <1>2, <2>1 DEF Abandon
  <2> QED BY <1>3, <1>9, <2>1, ClaimRewrites, BatchRewrites, CompleteReleases, YieldReleases,
          FailReleases DEF Work, Released
<1> QED BY <1>2, <1>4, <1>5, <1>6, <1>7, <1>8, <1>9 DEF Next, Operator, vars, Tick, Send, MarkTop,
     FinishEvidence, AdoptScope

LEMMA StepSound == Inv /\ [Next]_vars => Inv'
BY WorldStaysSound, RunsStaySound, WorkersStaySound, HoldsAgreeStep, SwitchStep, PurgedStep
   DEF Inv, RetentionIsExact

-----------------------------------------------------------------------------
(* Every row, lease and cursor keeps its type, and a run has an owner and a  *)
(* generation exactly while it is being processed.                           *)
THEOREM TypeCorrect == Spec => []TypeOK
<1>1. Inv => TypeOK
  <2> SUFFICES ASSUME Inv PROVE TypeOK
    OBVIOUS
  <2>1. \A w \in Workers :
          Working(w) => /\ KeyOf(w) \in DOMAIN runs
                        /\ worker[w].batches \in 0..MaxBatches
                        /\ worker[w].token <= runs[KeyOf(w)].claims
    BY ConstantsTyped DEF Inv, WorkersSound, WorkerType
  <2> QED BY <2>1 DEF Inv, WorldSound, RunsSound, RunSound, TypeOK
<1> QED BY <1>1, InitSound, StepSound, PTL DEF Spec

(* A hold stops every run it covers and only those, turning retention off    *)
(* stops all, and a completed purge left no message of its scope, whatever   *)
(* crashes, lost leases, failures and holds it went through.                 *)
THEOREM RunsAreExact == Spec => []RetentionIsExact
<1>1. Inv => RetentionIsExact
  BY DEF Inv
<1> QED BY <1>1, InitSound, StepSound, PTL DEF Spec

(* Messages disappear only under the generation in force, a live lease and   *)
(* no hold, a batch at a time, and only when they are older than the period  *)
(* and below the mark of the evidence.                                       *)
THEOREM PurgesHaveLicense == Spec => PurgesAreLicensed
<1>1. Inv /\ [Next]_vars =>
        [chat \ chat' # {} => \E k \in DOMAIN runs : Licensed(k, chat \ chat')]_vars
  <2> SUFFICES ASSUME Inv, [Next]_vars, chat \ chat' # {}
               PROVE  \E k \in DOMAIN runs : Licensed(k, chat \ chat')
    OBVIOUS
  <2>1. ASSUME NEW w \in Workers, ProcessBatch(w)
        PROVE  \E k \in DOMAIN runs : Licensed(k, chat \ chat')
    <3> DEFINE k == KeyOf(w)
               removed == chat \ chat'
    <3>1. /\ k \in DOMAIN runs /\ ~Held(k.room) /\ removed \subseteq Batch(k)
          /\ runs[k].status = "processing" /\ runs[k].until > now
          /\ control.enabled /\ runs[k].generation = control.generation
          /\ k.mode = "purge"
      BY <2>1, BatchRewrites DEF Rewritten
    <3> HIDE DEF k, removed
    <3>2. WorldSound /\ k \in Keys /\ k.cutoff + Retention <= now /\ now \in Nat /\ k.cutoff \in Nat
      <4>1. RunSound(k, runs[k], now)
        BY <3>1 DEF Inv, RunsSound
      <4>2. k \in Keys /\ k.cutoff + Retention <= now /\ k.cutoff \in Nat
        BY <4>1 DEF RunSound, Keys
      <4>3. WorldSound
        BY DEF Inv
      <4>4. now \in Nat
        BY <4>3, ConstantsTyped DEF WorldSound
      <4> QED BY <4>2, <4>3, <4>4
    <3>3. Cardinality(removed) <= BatchSize
      <4>1. Batch(k) \in SUBSET DOMAIN log
        BY <3>1, BatchIsOfScope DEF InScope
      <4>2. IsFiniteSet(Batch(k)) /\ removed \in SUBSET Batch(k)
        BY <3>1, <3>2, <4>1, IdsAreFinite
      <4>3. Cardinality(removed) <= Cardinality(Batch(k)) /\ Cardinality(removed) \in Nat
            /\ Cardinality(Batch(k)) \in Nat
        BY <4>2, FS_Subset, FS_CardinalityType
      <4>4. Cardinality(Batch(k)) <= BatchSize
        BY <3>1, <3>2, BatchIsBounded
      <4> QED BY <4>3, <4>4, ConstantsTyped
    <3>4. \A i \in removed : log[i].room = k.room /\ i <= runs[k].top /\ log[i].at + Retention < now
      <4> SUFFICES ASSUME NEW i \in removed
                   PROVE  log[i].room = k.room /\ i <= runs[k].top /\ log[i].at + Retention < now
        OBVIOUS
      <4>1. i \in DOMAIN log /\ log[i].room = k.room /\ i <= runs[k].top /\ log[i].at < k.cutoff
        BY <3>1, BatchIsOfScope DEF InScope
      <4>2. log[i].at \in Nat
        <5> DEFINE S == [room: Rooms, at: 0..now]
        <5>1. log \in Seq(S)
          BY <3>2 DEF WorldSound
        <5>2. log[i] \in S
          <6> HIDE DEF S
          <6> QED BY <4>1, <5>1
        <5> QED BY <3>2, <5>2
      <4> QED BY <3>2, <4>1, <4>2, ConstantsTyped
    <3>5. Licensed(k, removed)
      BY <3>1, <3>3, <3>4 DEF Licensed
    <3> QED BY <3>1, <3>5 DEF removed
  <2>2. ~(\E w \in Workers : ProcessBatch(w)) => chat \subseteq chat'
    BY DEF Next, Operator, Work, vars, Tick, Send, MarkTop, FinishEvidence, AdoptScope, Enqueue,
       SetControl, PlaceHold, ReleaseHold, Replay, Claim, Complete, YieldRun, FailRun, Abandon
  <2> QED BY <2>1, <2>2
<1> QED BY <1>1, InitSound, StepSound, PTL DEF Spec, PurgesAreLicensed

(* ----------------------- The session of a pair -------------------------- *)

(* What a page shows of the three parts.                                     *)
ShownShape == \A u \in Users :
  view[u] = [completion |-> view[u].completion, controls |-> view[u].controls, link |-> view[u].link]

LinkRows == [time : Instants \cup {Circle!Room!NoTime}, url : Urls \cup {Circle!Room!NoUrl}, revision : 0..MaxRevision]

(* One that confirmed last, so that CompletedAt is a time.                   *)
SomebodyIsLast == Circle!Room!Completed =>
  \E w \in Users : \A u \in Users : receipt[u] <= receipt[w]

SessionTyped ==
  /\ now \in 0..MaxNow /\ receipt \in [Users -> {Circle!Room!Never} \cup 0..MaxNow]
  /\ \A u \in Users : receipt[u] <= now
  /\ controls \in [candidate : Users, state : {"paused", "running"}, remaining : 0..Duration,
                   anchor : {Circle!Room!Never} \cup 0..MaxNow, revision : 0..MaxRevision, updated : 0..MaxNow]
  /\ agreed \in Instants \cup {Circle!Room!NoTime} /\ scheduled \in 0..MaxRevision
  /\ link \in LinkRows
  /\ DOMAIN view = Users /\ view = [u \in Users |-> view[u]] /\ ShownShape
  /\ overtaken \subseteq Users \X {"completion", "controls", "link"}
  /\ ran \in 0..now
  /\ SomebodyIsLast

LEMMA ClockIsTime ==
  ASSUME Circle!Room!RoomConstants, SessionTyped
  PROVE  /\ Circle!Room!Clock \in 0..now
         /\ ~Circle!Room!Completed => Circle!Room!Clock = now
         /\ \A w \in Users : Circle!Room!Completed /\ (\A u \in Users : receipt[u] <= receipt[w]) => Circle!Room!Clock = receipt[w]
<1>1. ASSUME Circle!Room!Completed, NEW w \in Users, \A u \in Users : receipt[u] <= receipt[w]
      PROVE  Circle!Room!Clock = receipt[w] /\ receipt[w] \in 0..now
  <2>1. receipt[w] \in {receipt[u] : u \in Users} /\ \A u \in Users : receipt[u] <= receipt[w]
    BY <1>1
  <2>2. Circle!Room!CompletedAt \in {receipt[u] : u \in Users} /\ \A u \in Users : receipt[u] <= Circle!Room!CompletedAt
    BY <2>1 DEF Circle!Room!CompletedAt
  <2>3. \A u \in Users : receipt[u] \in 0..now
    BY <1>1 DEF SessionTyped, Circle!Room!Completed, Circle!Room!Confirmed, Circle!Room!RoomConstants
  <2>4. Circle!Room!CompletedAt = receipt[w]
    BY <2>1, <2>2, <2>3 DEF SessionTyped, Circle!Room!RoomConstants
  <2> QED BY <1>1, <2>3, <2>4 DEF Circle!Room!Clock
<1>2. now \in 0..now
  BY DEF SessionTyped, Circle!Room!RoomConstants
<1> QED BY <1>1, <1>2 DEF Circle!Room!Clock, SessionTyped, SomebodyIsLast

(* The timer in full: what is left, and since when it counts.                *)
TimerCounts ==
  /\ controls.anchor = Circle!Room!Never <=> controls.state = "paused"
  /\ controls.state = "running" => controls.remaining > 0 /\ controls.anchor <= Circle!Room!Clock
  /\ controls.updated <= Circle!Room!Clock
  /\ Circle!Room!Remaining = Circle!Room!Left(Duration, ran)

LEMMA RemainingBounded ==
  ASSUME Circle!Room!RoomConstants, SessionTyped, TimerCounts PROVE Circle!Room!Remaining \in 0..Duration
BY DEF TimerCounts, Circle!Room!Left, Circle!Room!RoomConstants, SessionTyped

(* The effect of an answer on what the pages show.                           *)
LEMMA AnswerEffect ==
  ASSUME SessionTyped, NEW u \in Users, NEW part \in {"completion", "controls", "link"}, Circle!Room!Answered(u, part)
  PROVE  /\ DOMAIN view' = Users /\ view' = [x \in Users |-> view'[x]] /\ ShownShape'
         /\ overtaken' \subseteq Users \X {"completion", "controls", "link"}
         /\ \A x \in Users, other \in {"completion", "controls", "link"} \ {part} :
              /\ view'[x][other] = view[x][other]
              /\ <<x, other>> \in overtaken' <=> <<x, other>> \in overtaken
         /\ \A x \in Users : \/ view'[x][part] = view[x][part]
                             \/ x = u /\ view'[x][part] = Circle!Room!Version'[part] /\ <<x, part>> \notin overtaken'
<1>1. CASE UNCHANGED view /\ overtaken' = overtaken \cup (Users \X {part})
  BY <1>1 DEF SessionTyped, ShownShape
<1>2. CASE /\ view' = [view EXCEPT ![u][part] = Circle!Room!Version'[part]]
           /\ overtaken' = (overtaken \cup (Users \X {part})) \ {<<u, part>>}
  <2> DEFINE shown == Circle!Room!Version'[part]
             leaf == [view[u] EXCEPT ![part] = shown]
  <2>1. view' = [view EXCEPT ![u] = leaf]
    BY <1>2
  <2>2. /\ leaf = [completion |-> leaf.completion, controls |-> leaf.controls, link |-> leaf.link]
        /\ leaf[part] = shown
        /\ \A other \in {"completion", "controls", "link"} \ {part} : leaf[other] = view[u][other]
    BY DEF SessionTyped, ShownShape
  <2> HIDE DEF leaf, shown
  <2>3. view' = [x \in Users |-> IF x = u THEN leaf ELSE view[x]]
    BY <2>1 DEF SessionTyped
  <2>4. DOMAIN view' = Users /\ view' = [x \in Users |-> view'[x]] /\ ShownShape'
    BY <2>2, <2>3 DEF SessionTyped, ShownShape
  <2>5. /\ \A x \in Users, other \in {"completion", "controls", "link"} \ {part} : view'[x][other] = view[x][other]
        /\ \A x \in Users : view'[x][part] = IF x = u THEN Circle!Room!Version'[part] ELSE view[x][part]
    BY <2>2, <2>3 DEF shown
  <2> QED BY <1>2, <2>4, <2>5 DEF SessionTyped
<1> QED BY <1>1, <1>2 DEF Circle!Room!Answered

SomeParts == {"completion", "controls", "link"}

(* A step of the session, in a room of either kind of circle.                *)
RoomStep ==
  \/ \E u \in Users : Circle!Room!Confirm(u) \/ Circle!Room!Withdraw(u) \/ Circle!Room!Control(u) \/ Circle!Room!SetLink(u)
  \/ \E u \in Users, part \in SomeParts : Circle!Room!Look(u, part)
  \/ Circle!Room!Reschedule \/ Circle!Room!Tick \/ UNCHANGED Circle!Room!vars

LEMMA NextIsRoomStep == [Circle!Room!Next]_(Circle!Room!vars) => RoomStep
BY DEF Circle!Room!Next, RoomStep, Circle!Room!Parts, SomeParts

(* The kinds of steps, by what becomes of the stored parts.                  *)
Receipted == \E u \in Users, t \in {Circle!Room!Never, now} :
  /\ ~Circle!Room!Completed /\ (receipt[u] = Circle!Room!Never \/ t = Circle!Room!Never)
  /\ receipt' = [receipt EXCEPT ![u] = t]
  /\ UNCHANGED <<now, controls, agreed, scheduled, link, ran>> /\ Circle!Room!Answered(u, "completion")
Looked == \E u \in Users, part \in SomeParts : Circle!Room!Look(u, part)
Linked == \E u \in Users : Circle!Room!SetLink(u)
Controlled == \E u \in Users : Circle!Room!Control(u)

LEMMA RoomStepKinds ==
  ASSUME RoomStep
  PROVE  Receipted \/ Looked \/ Linked \/ Controlled \/ Circle!Room!Reschedule \/ Circle!Room!Tick \/ UNCHANGED Circle!Room!vars
<1>1. ASSUME NEW u \in Users, Circle!Room!Confirm(u) PROVE Receipted
  <2>1. ~Circle!Room!Completed
    BY <1>1 DEF Circle!Room!Confirm, Circle!Room!Completed, Circle!Room!Confirmed
  <2> QED BY <1>1, <2>1 DEF Circle!Room!Confirm, Receipted
<1>2. ASSUME NEW u \in Users, Circle!Room!Withdraw(u) PROVE Receipted
  BY <1>2 DEF Circle!Room!Withdraw, Receipted
<1> QED BY <1>1, <1>2 DEF RoomStep, Looked, Linked, Controlled

(* What a page shows after Look.                                             *)
LEMMA LookEffect ==
  ASSUME SessionTyped, NEW u \in Users, NEW part \in SomeParts, Circle!Room!Look(u, part)
  PROVE  /\ DOMAIN view' = Users /\ view' = [x \in Users |-> view'[x]] /\ ShownShape'
         /\ overtaken' \subseteq overtaken
         /\ \A x \in Users, other \in SomeParts :
              \/ view'[x][other] = view[x][other]
              \/ x = u /\ other = part /\ view'[x][other] = Circle!Room!Version[part] /\ <<x, part>> \notin overtaken'
<1> DEFINE shown == Circle!Room!Version[part]
           changed == [view[u] EXCEPT ![part] = shown]
<1>1. view' = [view EXCEPT ![u] = changed]
  BY DEF Circle!Room!Look
<1>2. /\ changed = [completion |-> changed.completion, controls |-> changed.controls, link |-> changed.link]
      /\ changed[part] = shown
      /\ \A other \in SomeParts \ {part} : changed[other] = view[u][other]
  BY DEF SessionTyped, ShownShape, SomeParts
<1> HIDE DEF changed, shown
<1>3. view' = [x \in Users |-> IF x = u THEN changed ELSE view[x]]
  BY <1>1 DEF SessionTyped
<1>4. DOMAIN view' = Users /\ view' = [x \in Users |-> view'[x]] /\ ShownShape'
  BY <1>2, <1>3 DEF SessionTyped, ShownShape
<1>5. overtaken' \subseteq overtaken /\ <<u, part>> \notin overtaken'
  BY DEF Circle!Room!Look
<1>6. \A x \in Users, other \in SomeParts :
              \/ view'[x][other] = view[x][other]
              \/ x = u /\ other = part /\ view'[x][other] = shown
  BY <1>2, <1>3
<1> QED BY <1>4, <1>5, <1>6 DEF shown

(* Receipts do not move the clock of the timer.                              *)
LEMMA ReceiptsTyped ==
  ASSUME Circle!Room!RoomConstants, SessionTyped, Receipted
  PROVE  SessionTyped' /\ Circle!Room!Clock' = Circle!Room!Clock
<1> PICK u \in Users, t \in {Circle!Room!Never, now} :
      /\ ~Circle!Room!Completed /\ (receipt[u] = Circle!Room!Never \/ t = Circle!Room!Never)
      /\ receipt' = [receipt EXCEPT ![u] = t]
      /\ UNCHANGED <<now, controls, agreed, scheduled, link, ran>> /\ Circle!Room!Answered(u, "completion")
  BY DEF Receipted
<1>1. now \in 0..MaxNow /\ MaxNow \in Nat /\ now \in Nat
  BY DEF SessionTyped, Circle!Room!RoomConstants
<1>2. receipt' \in [Users -> {Circle!Room!Never} \cup 0..MaxNow]
  BY <1>1 DEF SessionTyped
<1>3. \A x \in Users : receipt'[x] <= now' /\ receipt'[x] = IF x = u THEN t ELSE receipt[x]
  BY <1>1 DEF SessionTyped, Circle!Room!Never
<1>4. /\ DOMAIN view' = Users /\ view' = [x \in Users |-> view'[x]] /\ ShownShape'
      /\ overtaken' \subseteq Users \X {"completion", "controls", "link"}
  BY AnswerEffect
<1>5. ASSUME Circle!Room!Completed' PROVE receipt'[u] = now /\ \A x \in Users : receipt'[x] <= receipt'[u]
  <2>1. receipt'[u] # Circle!Room!Never
    BY <1>5 DEF Circle!Room!Completed, Circle!Room!Confirmed
  <2> QED BY <2>1, <1>3
<1>6. SomebodyIsLast'
  BY <1>5 DEF SomebodyIsLast
<1>7. SessionTyped'
  BY <1>2, <1>3, <1>4, <1>6 DEF SessionTyped
<1>8. Circle!Room!Clock' = now
  <2>1. CASE Circle!Room!Completed'
    <3>1. \A w \in Users : (\A x \in Users : receipt'[x] <= receipt'[w]) => Circle!Room!CompletedAt' = receipt'[w]
      <4> SUFFICES ASSUME NEW w \in Users, \A x \in Users : receipt'[x] <= receipt'[w]
                   PROVE  Circle!Room!CompletedAt' = receipt'[w]
        OBVIOUS
      <4>1. receipt'[w] \in {receipt'[x] : x \in Users} /\ \A x \in Users : receipt'[x] <= receipt'[w]
        OBVIOUS
      <4>2. Circle!Room!CompletedAt' \in {receipt'[x] : x \in Users} /\ \A x \in Users : receipt'[x] <= Circle!Room!CompletedAt'
        BY <4>1 DEF Circle!Room!CompletedAt
      <4>3. \A x \in Users : receipt'[x] \in Int
        BY <1>1, <1>2 DEF Circle!Room!Never
      <4> QED BY <4>1, <4>2, <4>3
    <3>2. Circle!Room!CompletedAt' = receipt'[u]
      BY <1>5, <2>1, <3>1
    <3> QED BY <1>5, <2>1, <3>2 DEF Circle!Room!Clock
  <2>2. CASE ~Circle!Room!Completed'
    BY <2>2 DEF Circle!Room!Clock
  <2> QED BY <2>1, <2>2
<1> QED BY <1>7, <1>8, ClockIsTime

(* The other steps leave the receipts, so the clock stands or goes with now. *)
LEMMA ClockOtherwise ==
  ASSUME Circle!Room!RoomConstants, SessionTyped, UNCHANGED receipt, now' \in {now, now + 1}
  PROVE  /\ Circle!Room!Completed' <=> Circle!Room!Completed
         /\ SomebodyIsLast'
         /\ Circle!Room!Clock' = IF Circle!Room!Completed THEN Circle!Room!Clock ELSE Circle!Room!Clock + (now' - now)
<1>1. Circle!Room!Completed' <=> Circle!Room!Completed
  BY DEF Circle!Room!Completed, Circle!Room!Confirmed
<1>2. SomebodyIsLast'
  BY <1>1 DEF SomebodyIsLast, SessionTyped
<1>3. Circle!Room!CompletedAt' = Circle!Room!CompletedAt
  BY DEF Circle!Room!CompletedAt
<1>4. now \in Int
  BY DEF SessionTyped, Circle!Room!RoomConstants
<1> QED BY <1>1, <1>2, <1>3, <1>4 DEF Circle!Room!Clock

(* The row that a member writes, and what it leaves of the timer.            *)
LEMMA ControlsEffect ==
  ASSUME Circle!Room!RoomConstants, SessionTyped, TimerCounts, NEW u \in Users, Circle!Room!Control(u)
  PROVE  /\ controls' \in [candidate : Users, state : {"paused", "running"}, remaining : 0..Duration,
                            anchor : {Circle!Room!Never} \cup 0..MaxNow, revision : 0..MaxRevision, updated : 0..MaxNow]
         /\ controls'.revision = controls.revision + 1
         /\ ran' \in 0..now /\ UNCHANGED <<now, receipt, agreed, scheduled, link>> /\ ~Circle!Room!Completed
         /\ Circle!Room!Answered(u, "controls")
         /\ TimerCounts'
<1> PICK next \in Circle!Room!Transitions :
      /\ Controls /\ ~Circle!Room!Completed /\ next # controls /\ controls.revision < MaxRevision
      /\ controls' = Circle!Room!Written(next) /\ ran' = IF next = Circle!Room!Reset THEN 0 ELSE ran
      /\ UNCHANGED <<now, receipt, agreed, scheduled, link>> /\ Circle!Room!Answered(u, "controls")
  BY DEF Circle!Room!Control
<1> DEFINE left == Circle!Room!Remaining
<1>1. left \in 0..Duration
  BY RemainingBounded
<1>2. Circle!Room!Clock = now /\ Circle!Room!Clock' = now /\ now \in 0..MaxNow /\ ~Circle!Room!Completed'
  BY ClockIsTime, ClockOtherwise DEF SessionTyped
<1>3. /\ Duration \in Nat /\ Duration > 0 /\ MaxNow \in Nat /\ MaxRevision \in Nat /\ ran \in 0..now
      /\ controls.candidate \in Users /\ controls.state \in {"paused", "running"}
      /\ controls.remaining \in 0..Duration /\ controls.anchor \in {Circle!Room!Never} \cup 0..MaxNow
      /\ controls.revision \in 0..MaxRevision
      /\ controls = [candidate |-> controls.candidate, state |-> controls.state,
                     remaining |-> controls.remaining, anchor |-> controls.anchor,
                     revision |-> controls.revision, updated |-> controls.updated]
  BY DEF SessionTyped, Circle!Room!RoomConstants
<1>4. left = Circle!Room!Left(Duration, ran)
  BY DEF TimerCounts
<1>r. controls \in [candidate : Users, state : {"paused", "running"}, remaining : 0..Duration,
                    anchor : {Circle!Room!Never} \cup 0..MaxNow, revision : 0..MaxRevision, updated : 0..MaxNow]
  BY DEF SessionTyped
<1>s. ASSUME NEW a, NEW b, NEW c
      PROVE  [controls EXCEPT !.state = a, !.remaining = b, !.anchor = c]
               = [candidate |-> controls.candidate, state |-> a, remaining |-> b, anchor |-> c,
                  revision |-> controls.revision, updated |-> controls.updated]
  <2> DEFINE m == [controls EXCEPT !.state = a, !.remaining = b, !.anchor = c]
  <2>1. m = [i \in {"candidate", "state", "remaining", "anchor", "revision", "updated"} |-> m[i]]
    BY <1>r
  <2>2. /\ m.candidate = controls.candidate /\ m.state = a /\ m.remaining = b /\ m.anchor = c
        /\ m.revision = controls.revision /\ m.updated = controls.updated
    BY <1>r
  <2>3. m \in [candidate : Users, state : {a}, remaining : {b}, anchor : {c},
               revision : 0..MaxRevision, updated : 0..MaxNow]
    BY <1>r, <2>1, <2>2
  <2> HIDE DEF m
  <2>4. m = [candidate |-> m.candidate, state |-> m.state, remaining |-> m.remaining,
             anchor |-> m.anchor, revision |-> m.revision, updated |-> m.updated]
    BY <2>3
  <2> QED BY <2>2, <2>4 DEF m
<1> DEFINE row(c, s, r, a) == [candidate |-> c, state |-> s, remaining |-> r, anchor |-> a,
                                revision |-> controls.revision, updated |-> controls.updated]
<1>5. \/ \E c \in Users : next = row(c, controls.state, controls.remaining, controls.anchor)
                          /\ c # controls.candidate
      \/ next = row(controls.candidate, "running", left, now) /\ left > 0 /\ controls.state = "paused"
      \/ next = row(controls.candidate, "paused", left, Circle!Room!Never) /\ controls.state = "running"
      \/ next = row(controls.candidate, "paused", Duration, Circle!Room!Never)
  <2>1. ASSUME NEW c \in Users, next = Circle!Room!Switched(c)
        PROVE  next = row(c, controls.state, controls.remaining, controls.anchor) /\ c # controls.candidate
    BY <2>1, <1>3 DEF Circle!Room!Switched
  <2>2. Circle!Room!Started = row(controls.candidate, "running", left, now)
    BY <1>s DEF Circle!Room!Started
  <2>3. Circle!Room!Paused = row(controls.candidate, "paused", left, Circle!Room!Never)
    BY <1>s DEF Circle!Room!Paused
  <2>4. Circle!Room!Reset = row(controls.candidate, "paused", Duration, Circle!Room!Never)
    BY <1>s DEF Circle!Room!Reset
  <2>5. Circle!Room!TimerState # "running" /\ left > 0 => controls.state = "paused"
    BY <1>3 DEF Circle!Room!TimerState
  <2>6. Circle!Room!TimerState = "running" => controls.state = "running"
    BY DEF Circle!Room!TimerState
  <2> HIDE DEF left
  <2> QED BY <2>1, <2>2, <2>3, <2>4, <2>5, <2>6 DEF Circle!Room!Transitions, left
<1>6. Circle!Room!Reset = row(controls.candidate, "paused", Duration, Circle!Room!Never)
  BY <1>s DEF Circle!Room!Reset
<1>7. controls.state = "running" => controls.remaining > 0 /\ controls.anchor <= now /\ controls.anchor # Circle!Room!Never
  BY <1>2, <1>3 DEF TimerCounts
<1>8. controls.state = "paused" => controls.anchor = Circle!Room!Never
  BY DEF TimerCounts
<1>9. left = IF controls.state = "running" THEN Circle!Room!Left(controls.remaining, now - controls.anchor) ELSE controls.remaining
  BY <1>2 DEF Circle!Room!Remaining
<1>10. Circle!Room!Remaining' = IF controls'.state = "running" THEN Circle!Room!Left(controls'.remaining, now - controls'.anchor)
                    ELSE controls'.remaining
  BY <1>2 DEF Circle!Room!Remaining, Circle!Room!Left
<1> HIDE DEF left
<1>11. next.candidate \in Users /\ next.state \in {"paused", "running"} /\ next.remaining \in 0..Duration
       /\ next.anchor \in {Circle!Room!Never} \cup 0..MaxNow
  BY <1>1, <1>2, <1>3, <1>5
<1>12. controls' = [candidate |-> next.candidate, state |-> next.state, remaining |-> next.remaining,
                    anchor |-> next.anchor, revision |-> controls.revision + 1, updated |-> now]
  BY <1>5 DEF Circle!Room!Written
<1>13. /\ next.anchor = Circle!Room!Never <=> next.state = "paused"
       /\ next.state = "running" => next.remaining > 0 /\ next.anchor <= now
  BY <1>2, <1>3, <1>5, <1>7, <1>8 DEF Circle!Room!Never
<1>14. Circle!Room!Remaining' = Circle!Room!Left(Duration, ran')
  <2>1. CASE \E c \in Users : next = row(c, controls.state, controls.remaining, controls.anchor)
                              /\ c # controls.candidate
    <3>1. next # Circle!Room!Reset
      BY <2>1, <1>6
    <3>2. Circle!Room!Remaining' = left
      BY <2>1, <1>9, <1>10, <1>12
    <3> QED BY <3>1, <3>2, <1>4
  <2>2. CASE next = row(controls.candidate, "running", left, now) /\ left > 0
    <3>1. next # Circle!Room!Reset
      BY <2>2, <1>6
    <3>2. Circle!Room!Remaining' = left
      BY <2>2, <1>10, <1>12, <1>2, <1>1, <1>3 DEF Circle!Room!Left
    <3> QED BY <3>1, <3>2, <1>4
  <2>3. CASE next = row(controls.candidate, "paused", left, Circle!Room!Never)
    <3>1. Circle!Room!Remaining' = left
      BY <2>3, <1>10, <1>12
    <3>2. CASE left = Duration
      <4>1. ran = 0
        BY <3>2, <1>2, <1>3, <1>4 DEF Circle!Room!Left
      <4> QED BY <3>1, <1>4, <4>1
    <3>3. CASE left # Duration
      <4>1. next # Circle!Room!Reset
        BY <2>3, <3>3, <1>6
      <4> QED BY <3>1, <1>4, <4>1
    <3> QED BY <3>2, <3>3
  <2>4. CASE next = row(controls.candidate, "paused", Duration, Circle!Room!Never)
    <3>1. Circle!Room!Remaining' = Duration /\ ran' = 0
      BY <2>4, <1>6, <1>10, <1>12
    <3> QED BY <3>1, <1>3 DEF Circle!Room!Left
  <2> QED BY <1>5, <2>1, <2>2, <2>3, <2>4
<1>15. TimerCounts'
  BY <1>2, <1>12, <1>13, <1>14, <1>3 DEF TimerCounts
<1>16. ran' \in 0..now
  BY <1>3, <1>2
<1> QED BY <1>2, <1>3, <1>11, <1>12, <1>15, <1>16

(* How the link and the agreed time change.                                  *)
LEMMA LinkTyped ==
  ASSUME Circle!Room!RoomConstants, SessionTyped, NEW u \in Users, Circle!Room!SetLink(u)
  PROVE  /\ link' \in LinkRows /\ link'.revision = link.revision + 1
         /\ Circle!Room!Answered(u, "link") /\ UNCHANGED <<now, receipt, controls, agreed, scheduled, ran>>
         /\ Circle!Room!Lifecycle = "active" /\ ~Controls
<1>1. link.revision \in 0..MaxRevision /\ MaxRevision \in Nat /\ agreed \in Instants \cup {Circle!Room!NoTime}
  BY DEF SessionTyped, LinkRows, Circle!Room!RoomConstants
<1> PICK url \in Urls \cup {Circle!Room!NoUrl} :
      /\ ~Controls /\ Circle!Room!Lifecycle = "active" /\ link.revision < MaxRevision
      /\ link' = [time |-> agreed, url |-> url, revision |-> link.revision + 1]
      /\ UNCHANGED <<now, receipt, controls, agreed, scheduled, ran>> /\ Circle!Room!Answered(u, "link")
  BY DEF Circle!Room!SetLink
<1>2. link.revision + 1 \in 0..MaxRevision
  BY <1>1
<1> QED BY <1>1, <1>2 DEF LinkRows

LEMMA RescheduleTyped ==
  ASSUME Circle!Room!RoomConstants, SessionTyped, Circle!Room!Reschedule
  PROVE  /\ link' \in LinkRows /\ link' \in {link, Circle!Room!NoLink}
         /\ agreed' \in Instants \cup {Circle!Room!NoTime} /\ scheduled' \in 0..MaxRevision /\ scheduled' = scheduled + 1
BY DEF Circle!Room!Reschedule, Circle!Room!Invalidated, Circle!Room!NoLink, LinkRows, SessionTyped, Circle!Room!RoomConstants

LEMMA TickCounts ==
  ASSUME Circle!Room!RoomConstants, SessionTyped, TimerCounts, Circle!Room!Tick
  PROVE  ran' \in 0..now' /\ now' \in 0..MaxNow /\ TimerCounts'
<1>1. /\ now' = now + 1 /\ now < MaxNow /\ now \in 0..MaxNow /\ MaxNow \in Nat /\ ran \in 0..now
      /\ ran' = IF ~Circle!Room!Completed /\ Circle!Room!TimerState = "running" THEN ran + 1 ELSE ran
      /\ UNCHANGED <<receipt, controls>>
  BY DEF Circle!Room!Tick, SessionTyped, Circle!Room!RoomConstants
<1>2. Circle!Room!Clock \in 0..now /\ Circle!Room!Clock' = IF Circle!Room!Completed THEN Circle!Room!Clock ELSE Circle!Room!Clock + 1
  BY <1>1, ClockIsTime, ClockOtherwise
<1>3. /\ controls.remaining \in 0..Duration /\ Duration \in Nat /\ controls.state \in {"paused", "running"}
      /\ controls.anchor \in {Circle!Room!Never} \cup 0..MaxNow /\ controls.updated \in 0..MaxNow
  BY DEF SessionTyped, Circle!Room!RoomConstants
<1>4. /\ controls.anchor = Circle!Room!Never <=> controls.state = "paused"
      /\ controls.state = "running" => controls.remaining > 0 /\ controls.anchor <= Circle!Room!Clock
      /\ controls.updated <= Circle!Room!Clock
      /\ Circle!Room!Remaining = Circle!Room!Left(Duration, ran)
  BY DEF TimerCounts
<1>5. Circle!Room!Remaining' = IF controls.state = "running" THEN Circle!Room!Left(controls.remaining, Circle!Room!Clock' - controls.anchor)
                   ELSE controls.remaining
  BY <1>1 DEF Circle!Room!Remaining, Circle!Room!Left
<1>6. Circle!Room!Remaining = IF controls.state = "running" THEN Circle!Room!Left(controls.remaining, Circle!Room!Clock - controls.anchor)
                   ELSE controls.remaining
  BY DEF Circle!Room!Remaining
<1>7. Circle!Room!TimerState = IF Circle!Room!Remaining = 0 THEN "expired" ELSE controls.state
  BY DEF Circle!Room!TimerState
<1>8. Circle!Room!Remaining' = Circle!Room!Left(Duration, ran')
  <2>1. CASE Circle!Room!Completed
    BY <2>1, <1>1, <1>2, <1>4, <1>5, <1>6
  <2>2. CASE ~Circle!Room!Completed /\ controls.state = "paused"
    <3>1. ran' = ran
      BY <2>2, <1>1, <1>7
    <3> QED BY <3>1, <2>2, <1>4, <1>5, <1>6
  <2>3. CASE ~Circle!Room!Completed /\ controls.state = "running" /\ Circle!Room!Remaining = 0
    <3>1. ran' = ran
      BY <2>3, <1>1, <1>7
    <3>2. Circle!Room!Remaining' = 0
      BY <2>3, <1>2, <1>3, <1>4, <1>5, <1>6 DEF Circle!Room!Left, Circle!Room!Never
    <3> QED BY <3>1, <3>2, <2>3, <1>4
  <2>4. CASE ~Circle!Room!Completed /\ controls.state = "running" /\ Circle!Room!Remaining # 0
    <3>1. ran' = ran + 1
      BY <2>4, <1>1, <1>7
    <3> DEFINE spent == Circle!Room!Clock - controls.anchor
               left  == Circle!Room!Remaining
    <3>2. spent \in Nat /\ Circle!Room!Clock' - controls.anchor = spent + 1
      BY <2>4, <1>2, <1>3, <1>4 DEF Circle!Room!Never
    <3>3. left = Circle!Room!Left(controls.remaining, spent) /\ left = Circle!Room!Left(Duration, ran) /\ left # 0
      BY <2>4, <1>4, <1>6
    <3>4. Circle!Room!Remaining' = Circle!Room!Left(controls.remaining, spent + 1)
      BY <2>4, <1>5, <3>2
    <3> HIDE DEF spent, left
    <3> QED BY <3>1, <3>2, <3>3, <3>4, <1>1, <1>3 DEF Circle!Room!Left
  <2> QED BY <1>3, <2>1, <2>2, <2>3, <2>4
<1>9. ran' \in 0..now' /\ now' \in 0..MaxNow
  BY <1>1
<1>10. controls.updated <= Circle!Room!Clock' /\ (controls.state = "running" => controls.anchor <= Circle!Room!Clock')
  BY <1>2, <1>3, <1>4 DEF Circle!Room!Never
<1> QED BY <1>1, <1>4, <1>8, <1>9, <1>10 DEF TimerCounts

LEMMA TimerStep ==
  ASSUME Circle!Room!RoomConstants, SessionTyped, TimerCounts, RoomStep
  PROVE  SessionTyped' /\ TimerCounts'
<1>1. ASSUME UNCHANGED <<controls, ran>>, Circle!Room!Clock' = Circle!Room!Clock PROVE TimerCounts'
  BY <1>1 DEF TimerCounts, Circle!Room!Remaining, Circle!Room!Left
<1>2. CASE Receipted
  <2>1. UNCHANGED <<controls, ran>>
    BY <1>2 DEF Receipted
  <2> QED BY <1>1, <1>2, <2>1, ReceiptsTyped
<1>3. CASE Looked
  <2> PICK u \in Users, part \in SomeParts : Circle!Room!Look(u, part)
    BY <1>3 DEF Looked
  <2>1. UNCHANGED <<now, receipt, controls, agreed, scheduled, link, ran>>
    BY DEF Circle!Room!Look
  <2>2. Circle!Room!Clock' = Circle!Room!Clock /\ SomebodyIsLast'
    BY <2>1, ClockOtherwise, ClockIsTime DEF SessionTyped, Circle!Room!RoomConstants
  <2>3. /\ DOMAIN view' = Users /\ view' = [x \in Users |-> view'[x]] /\ ShownShape'
        /\ overtaken' \subseteq overtaken
    BY LookEffect
  <2> QED BY <1>1, <2>1, <2>2, <2>3 DEF SessionTyped
<1>4. CASE Linked
  <2> PICK u \in Users : Circle!Room!SetLink(u)
    BY <1>4 DEF Linked
  <2>1. UNCHANGED <<now, receipt, controls, agreed, scheduled, ran>> /\ link' \in LinkRows /\ Circle!Room!Answered(u, "link")
    BY LinkTyped
  <2>2. Circle!Room!Clock' = Circle!Room!Clock /\ SomebodyIsLast'
    BY <2>1, ClockOtherwise, ClockIsTime DEF SessionTyped, Circle!Room!RoomConstants
  <2>3. /\ DOMAIN view' = Users /\ view' = [x \in Users |-> view'[x]] /\ ShownShape'
        /\ overtaken' \subseteq Users \X {"completion", "controls", "link"}
    BY <2>1, AnswerEffect
  <2> QED BY <1>1, <2>1, <2>2, <2>3 DEF SessionTyped
<1>5. CASE Controlled
  <2> PICK u \in Users : Circle!Room!Control(u)
    BY <1>5 DEF Controlled
  <2>1. /\ controls' \in [candidate : Users, state : {"paused", "running"}, remaining : 0..Duration,
                            anchor : {Circle!Room!Never} \cup 0..MaxNow, revision : 0..MaxRevision, updated : 0..MaxNow]
        /\ ran' \in 0..now /\ UNCHANGED <<now, receipt, agreed, scheduled, link>>
        /\ Circle!Room!Answered(u, "controls") /\ TimerCounts'
    BY ControlsEffect
  <2>2. SomebodyIsLast'
    BY <2>1, ClockOtherwise DEF SessionTyped, Circle!Room!RoomConstants
  <2>3. /\ DOMAIN view' = Users /\ view' = [x \in Users |-> view'[x]] /\ ShownShape'
        /\ overtaken' \subseteq Users \X {"completion", "controls", "link"}
    BY <2>1, AnswerEffect
  <2> QED BY <2>1, <2>2, <2>3 DEF SessionTyped
<1>6. CASE Circle!Room!Reschedule
  <2>1. /\ UNCHANGED <<now, receipt, controls, view, ran>>
        /\ overtaken' = overtaken \cup (Users \X {"link"})
    BY <1>6 DEF Circle!Room!Reschedule
  <2>2. Circle!Room!Clock' = Circle!Room!Clock /\ SomebodyIsLast'
    BY <2>1, ClockOtherwise, ClockIsTime DEF SessionTyped, Circle!Room!RoomConstants
  <2>3. link' \in LinkRows /\ agreed' \in Instants \cup {Circle!Room!NoTime} /\ scheduled' \in 0..MaxRevision
    BY <1>6, RescheduleTyped
  <2>4. SessionTyped'
    BY <2>1, <2>2, <2>3 DEF SessionTyped, ShownShape
  <2> QED BY <1>1, <2>1, <2>2, <2>4
<1>7. CASE Circle!Room!Tick
  <2>1. UNCHANGED <<receipt, controls, agreed, scheduled, link, view, overtaken>> /\ now' = now + 1
    BY <1>7 DEF Circle!Room!Tick
  <2>2. SomebodyIsLast'
    BY <2>1, ClockOtherwise
  <2>3. ran' \in 0..now' /\ now' \in 0..MaxNow /\ TimerCounts'
    BY <1>7, TickCounts
  <2>4. \A u \in Users : receipt'[u] <= now'
    BY <2>1, <2>3 DEF SessionTyped, Circle!Room!Never, Circle!Room!RoomConstants
  <2> QED BY <2>1, <2>2, <2>3, <2>4 DEF SessionTyped, ShownShape
<1>8. CASE UNCHANGED Circle!Room!vars
  <2>1. UNCHANGED <<now, receipt, controls, agreed, scheduled, link, view, overtaken, ran>>
    BY <1>8 DEF Circle!Room!vars
  <2>2. Circle!Room!Clock' = Circle!Room!Clock /\ SomebodyIsLast'
    BY <2>1, ClockOtherwise, ClockIsTime DEF SessionTyped, Circle!Room!RoomConstants
  <2>3. SessionTyped'
    BY <2>1, <2>2 DEF SessionTyped, ShownShape
  <2> QED BY <1>1, <2>1, <2>2, <2>3
<1> QED BY <1>2, <1>3, <1>4, <1>5, <1>6, <1>7, <1>8, RoomStepKinds

(* The revision of the controls that a page shows; a page that was overtaken *)
(* shows an earlier one.                                                     *)
ControlsViews == Controls => \A u \in Users :
  /\ view[u].controls[5] \in 0..controls.revision
  /\ <<u, "controls">> \in overtaken => view[u].controls[5] < controls.revision

(* What a page shows of the link: an earlier schedule, or of this schedule   *)
(* an earlier row or none, and a completed session if it is completed.       *)
Shows(v, passed) ==
  /\ v.scheduled \in 0..scheduled /\ v.row.revision \in Nat
  /\ passed => \/ v.scheduled < scheduled
               \/ v.lifecycle = "active" /\ v.row.revision < link.revision
  /\ v.scheduled = scheduled =>
       /\ v.lifecycle = "active" => v.row.revision <= link.revision
       /\ agreed # Circle!Room!NoTime => v.lifecycle \in {"active", "completed"}
  /\ v.lifecycle = "completed" => Circle!Room!Completed
LinkViews == \A u \in Users : Shows(view[u].link, <<u, "link">> \in overtaken)

LEMMA ControlsShown ==
  ASSUME Circle!Room!RoomConstants, SessionTyped, TimerCounts, ControlsViews, RoomStep PROVE ControlsViews'
<1>1. controls.revision \in Nat
  BY DEF SessionTyped, Circle!Room!RoomConstants
<1> SUFFICES ASSUME Controls, NEW x \in Users
             PROVE  /\ view'[x].controls[5] \in 0..controls'.revision
                    /\ <<x, "controls">> \in overtaken' => view'[x].controls[5] < controls'.revision
  BY DEF ControlsViews
<1>2. /\ view[x].controls[5] \in 0..controls.revision
      /\ <<x, "controls">> \in overtaken => view[x].controls[5] < controls.revision
  BY DEF ControlsViews
<1>3. Circle!Room!Version["controls"] = Circle!Room!ControlsVersion /\ Circle!Room!ControlsVersion[5] = controls.revision
  BY DEF Circle!Room!Version, Circle!Room!ControlsVersion
<1>4. ASSUME UNCHANGED controls, view'[x].controls = view[x].controls,
             <<x, "controls">> \in overtaken' => <<x, "controls">> \in overtaken
      PROVE  /\ view'[x].controls[5] \in 0..controls'.revision
             /\ <<x, "controls">> \in overtaken' => view'[x].controls[5] < controls'.revision
  BY <1>2, <1>4
<1>5. CASE Receipted
  BY <1>4, <1>5, AnswerEffect DEF Receipted
<1>6. CASE Looked
  <2> PICK u \in Users, part \in SomeParts : Circle!Room!Look(u, part)
    BY <1>6 DEF Looked
  <2>1. UNCHANGED controls
    BY DEF Circle!Room!Look
  <2>2. overtaken' \subseteq overtaken /\ "controls" \in SomeParts
    BY LookEffect DEF SomeParts
  <2>c. \A other \in SomeParts :
          \/ view'[x][other] = view[x][other]
          \/ other = part /\ view'[x][other] = Circle!Room!Version[part] /\ <<x, part>> \notin overtaken'
    BY LookEffect
  <2>3. \/ view'[x].controls = view[x].controls
        \/ view'[x].controls = Circle!Room!Version["controls"] /\ <<x, "controls">> \notin overtaken'
    BY <2>2, <2>c
  <2> QED BY <1>1, <1>3, <1>4, <2>1, <2>2, <2>3
<1>7. CASE Linked
  <2> PICK u \in Users : Circle!Room!SetLink(u)
    BY <1>7 DEF Linked
  <2>1. UNCHANGED controls /\ Circle!Room!Answered(u, "link")
    BY LinkTyped
  <2> QED BY <1>4, <2>1, AnswerEffect
<1>8. CASE Controlled
  <2> PICK u \in Users : Circle!Room!Control(u)
    BY <1>8 DEF Controlled
  <2>1. controls'.revision = controls.revision + 1 /\ Circle!Room!Answered(u, "controls")
    BY ControlsEffect
  <2>2. Circle!Room!Version'["controls"][5] = controls'.revision
    BY DEF Circle!Room!Version, Circle!Room!ControlsVersion
  <2>3. \/ view'[x].controls = view[x].controls
        \/ view'[x].controls = Circle!Room!Version'["controls"] /\ <<x, "controls">> \notin overtaken'
    BY <2>1, AnswerEffect
  <2> QED BY <1>1, <1>2, <2>1, <2>2, <2>3
<1>9. CASE Circle!Room!Reschedule
  BY <1>4, <1>9 DEF Circle!Room!Reschedule
<1>10. CASE Circle!Room!Tick
  BY <1>4, <1>10 DEF Circle!Room!Tick
<1>11. CASE UNCHANGED Circle!Room!vars
  BY <1>4, <1>11 DEF Circle!Room!vars
<1> QED BY <1>5, <1>6, <1>7, <1>8, <1>9, <1>10, <1>11, RoomStepKinds

(* Nothing undoes the completion.                                            *)
LEMMA CompletionStays ==
  ASSUME RoomStep, Circle!Room!Completed
  PROVE  UNCHANGED <<receipt, controls>> /\ Circle!Room!Completed' /\ link' \in {link, Circle!Room!NoLink}
<1>1. ~Receipted /\ ~Linked /\ ~Controlled
  BY DEF Receipted, Linked, Circle!Room!SetLink, Circle!Room!Lifecycle, Controlled, Circle!Room!Control
<1>2. UNCHANGED <<receipt, controls>> /\ link' \in {link, Circle!Room!NoLink}
  BY <1>1, RoomStepKinds DEF Looked, Circle!Room!Look, Circle!Room!Reschedule, Circle!Room!Invalidated, Circle!Room!Tick, Circle!Room!vars
<1> QED BY <1>2 DEF Circle!Room!Completed, Circle!Room!Confirmed

LEMMA LinkShown ==
  ASSUME Circle!Room!RoomConstants, SessionTyped, TimerCounts, LinkViews, RoomStep PROVE LinkViews'
<1>1. scheduled \in Nat /\ link.revision \in Nat
  BY DEF SessionTyped, LinkRows, Circle!Room!RoomConstants
<1>2. Circle!Room!Version["link"] = Circle!Room!LinkVersion
  BY DEF Circle!Room!Version
<1>3. Circle!Room!LinkVersion.scheduled = scheduled /\ Circle!Room!LinkVersion.lifecycle = Circle!Room!Lifecycle
      /\ Circle!Room!LinkVersion.row = IF Circle!Room!Lifecycle = "active" THEN link ELSE Circle!Room!NoLink
  BY DEF Circle!Room!LinkVersion
<1>4. Shows(Circle!Room!LinkVersion, FALSE)
  BY <1>1, <1>3 DEF Shows, Circle!Room!Lifecycle, Circle!Room!NoLink
<1>5. Circle!Room!Completed => Circle!Room!Completed'
  BY CompletionStays
<1> SUFFICES ASSUME NEW x \in Users PROVE Shows(view[x].link, <<x, "link">> \in overtaken)'
  BY DEF LinkViews
<1> DEFINE v == view[x].link
           passed == <<x, "link">> \in overtaken
<1>6. Shows(v, passed)
  BY DEF LinkViews
<1>7. ASSUME UNCHANGED <<agreed, scheduled, link>>, v' \in {v, Circle!Room!LinkVersion},
             <<x, "link">> \in overtaken' => v' = v /\ <<x, "link">> \in overtaken
      PROVE  Shows(v, passed)'
  BY <1>1, <1>4, <1>5, <1>6, <1>7 DEF Shows
<1>8. CASE Receipted
  <2>1. UNCHANGED <<agreed, scheduled, link>> /\ v' = v
        /\ (<<x, "link">> \in overtaken' <=> <<x, "link">> \in overtaken)
    BY <1>8, AnswerEffect DEF Receipted
  <2> QED BY <1>7, <2>1
<1>9. CASE Looked
  <2> PICK u \in Users, part \in SomeParts : Circle!Room!Look(u, part)
    BY <1>9 DEF Looked
  <2>1. UNCHANGED <<agreed, scheduled, link>>
    BY DEF Circle!Room!Look
  <2>2. overtaken' \subseteq overtaken /\ "link" \in SomeParts
    BY LookEffect DEF SomeParts
  <2>c. \A other \in SomeParts :
          \/ view'[x][other] = view[x][other]
          \/ other = part /\ view'[x][other] = Circle!Room!Version[part] /\ <<x, part>> \notin overtaken'
    BY LookEffect
  <2>3. \/ view'[x].link = view[x].link
        \/ view'[x].link = Circle!Room!Version["link"] /\ <<x, "link">> \notin overtaken'
    BY <2>2, <2>c
  <2> QED BY <1>2, <1>7, <2>1, <2>2, <2>3
<1>10. CASE Linked
  <2> PICK u \in Users : Circle!Room!SetLink(u)
    BY <1>10 DEF Linked
  <2>1. /\ link'.revision = link.revision + 1 /\ Circle!Room!Answered(u, "link")
        /\ UNCHANGED <<now, receipt, controls, agreed, scheduled, ran>> /\ Circle!Room!Lifecycle = "active"
    BY LinkTyped
  <2>2. ~Circle!Room!Completed /\ agreed # Circle!Room!NoTime
    BY <2>1 DEF Circle!Room!Lifecycle
  <2>3. v.lifecycle = "completed" => Circle!Room!Completed
    BY <1>6 DEF Shows
  <2>4. Circle!Room!Lifecycle' = "active" /\ ~Circle!Room!Completed'
    BY <2>1, <2>2 DEF Circle!Room!Lifecycle, Circle!Room!Completed, Circle!Room!Confirmed
  <2>5. Circle!Room!LinkVersion'.scheduled = scheduled /\ Circle!Room!LinkVersion'.lifecycle = "active" /\ Circle!Room!LinkVersion'.row = link'
    BY <2>1, <2>4 DEF Circle!Room!LinkVersion
  <2>6. Circle!Room!Version'["link"] = Circle!Room!LinkVersion'
    BY DEF Circle!Room!Version
  <2>7. \/ v' = v
        \/ v' = Circle!Room!LinkVersion' /\ <<x, "link">> \notin overtaken'
    BY <2>1, <2>6, AnswerEffect
  <2>8. CASE v' = v
    BY <2>8, <1>1, <1>6, <2>1, <2>2, <2>3 DEF Shows
  <2>9. CASE v' = Circle!Room!LinkVersion' /\ <<x, "link">> \notin overtaken'
    BY <2>9, <1>1, <2>1, <2>5 DEF Shows
  <2> QED BY <2>7, <2>8, <2>9
<1>11. CASE Controlled
  <2> PICK u \in Users : Circle!Room!Control(u)
    BY <1>11 DEF Controlled
  <2>1. UNCHANGED <<agreed, scheduled, link>> /\ Circle!Room!Answered(u, "controls")
    BY DEF Circle!Room!Control
  <2>2. v' = v /\ (<<x, "link">> \in overtaken' <=> <<x, "link">> \in overtaken)
    BY <2>1, AnswerEffect
  <2> QED BY <1>7, <2>1, <2>2
<1>12. CASE Circle!Room!Reschedule
  <2>1. v' = v /\ scheduled' = scheduled + 1
    BY <1>12, RescheduleTyped DEF Circle!Room!Reschedule
  <2> QED BY <1>1, <1>5, <1>6, <2>1 DEF Shows
<1>13. CASE Circle!Room!Tick
  BY <1>7, <1>13 DEF Circle!Room!Tick
<1>14. CASE UNCHANGED Circle!Room!vars
  BY <1>7, <1>14 DEF Circle!Room!vars
<1> QED BY <1>8, <1>9, <1>10, <1>11, <1>12, <1>13, <1>14, RoomStepKinds

SessionInv == SessionTyped /\ TimerCounts /\ ControlsViews /\ LinkViews

LEMMA SessionStarts == ASSUME Circle!Room!RoomConstants, Circle!Room!Init PROVE SessionInv
<1>1. /\ MaxNow \in Nat /\ MaxRevision \in Nat /\ Duration \in Nat /\ Duration > 0 /\ First \in Users
  BY DEF Circle!Room!RoomConstants
<1>2. \A u \in Users : receipt[u] = Circle!Room!Never
  BY DEF Circle!Room!Init
<1>3. ~Circle!Room!Completed
  BY <1>1, <1>2 DEF Circle!Room!Completed, Circle!Room!Confirmed
<1>4. \A u \in Users : view[u] = Circle!Room!Version
  BY DEF Circle!Room!Init
<1>5. Circle!Room!Version = [completion |-> Circle!Room!Version.completion, controls |-> Circle!Room!Version.controls, link |-> Circle!Room!Version.link]
  BY DEF Circle!Room!Version
<1>6. receipt \in [Users -> {Circle!Room!Never} \cup 0..MaxNow] /\ \A u \in Users : receipt[u] <= now
  BY <1>1 DEF Circle!Room!Init, Circle!Room!Never
<1>7. controls \in [candidate : Users, state : {"paused", "running"}, remaining : 0..Duration,
                   anchor : {Circle!Room!Never} \cup 0..MaxNow, revision : 0..MaxRevision, updated : 0..MaxNow]
  BY <1>1 DEF Circle!Room!Init, Circle!Room!NoControls
<1>8. link \in LinkRows
  BY <1>1 DEF Circle!Room!Init, Circle!Room!NoLink, LinkRows
<1>9. SessionTyped
  <2>1. DOMAIN view = Users /\ view = [u \in Users |-> view[u]] /\ overtaken = {}
    BY DEF Circle!Room!Init
  <2>2. ShownShape
    BY <1>4, <1>5 DEF ShownShape
  <2>3. now \in 0..MaxNow /\ ran \in 0..now /\ agreed \in Instants \cup {Circle!Room!NoTime} /\ scheduled \in 0..MaxRevision
    BY <1>1 DEF Circle!Room!Init
  <2> QED BY <1>3, <1>6, <1>7, <1>8, <2>1, <2>2, <2>3 DEF SessionTyped, SomebodyIsLast
<1>10. TimerCounts
  BY <1>1, <1>3 DEF TimerCounts, Circle!Room!Remaining, Circle!Room!Left, Circle!Room!Clock, Circle!Room!Init, Circle!Room!NoControls, Circle!Room!Never
<1>11. ControlsViews
  BY <1>1, <1>4 DEF ControlsViews, Circle!Room!Version, Circle!Room!ControlsVersion, Circle!Room!Init, Circle!Room!NoControls
<1>12. LinkViews
  <2>1. Circle!Room!Lifecycle = "unscheduled"
    BY <1>3 DEF Circle!Room!Lifecycle, Circle!Room!Init
  <2> QED BY <1>1, <1>4, <2>1 DEF LinkViews, Shows, Circle!Room!Version, Circle!Room!LinkVersion, Circle!Room!Init, Circle!Room!NoLink
<1> QED BY <1>9, <1>10, <1>11, <1>12 DEF SessionInv

LEMMA SessionInvKept == ASSUME Circle!Room!RoomConstants, SessionInv, RoomStep PROVE SessionInv'
BY TimerStep, ControlsShown, LinkShown DEF SessionInv

LEMMA SessionFacts ==
  ASSUME Circle!Room!RoomConstants, SessionInv PROVE Circle!Room!TypeOK /\ Circle!Room!TimerIsConserved /\ Circle!Room!CurrentIsFresh
<1>1. Circle!Room!TypeOK
  <2>1. ran \in 0..MaxNow
    BY DEF SessionInv, SessionTyped, Circle!Room!RoomConstants
  <2> QED BY <2>1 DEF Circle!Room!TypeOK, SessionInv, SessionTyped, LinkRows
<1>2. Circle!Room!TimerIsConserved
  BY DEF Circle!Room!TimerIsConserved, SessionInv, TimerCounts
<1>3. Circle!Room!CurrentIsFresh
  <2> SUFFICES ASSUME NEW u \in Users, NEW part \in Circle!Room!Parts \ {"completion"}, view[u][part] = Circle!Room!Version[part],
                      <<u, part>> \in overtaken
               PROVE  FALSE
    BY DEF Circle!Room!CurrentIsFresh
  <2>1. CASE part = "controls"
    <3>1. Controls /\ view[u].controls = Circle!Room!ControlsVersion
      BY <2>1 DEF Circle!Room!Parts, Circle!Room!Version
    <3>2. view[u].controls[5] = controls.revision
      BY <3>1 DEF Circle!Room!ControlsVersion
    <3> QED BY <2>1, <3>1, <3>2 DEF SessionInv, ControlsViews, SessionTyped
  <2>2. CASE part = "link"
    <3>1. view[u].link = Circle!Room!LinkVersion
      BY <2>2 DEF Circle!Room!Version
    <3>2. Circle!Room!LinkVersion.scheduled = scheduled /\ Circle!Room!LinkVersion.lifecycle = Circle!Room!Lifecycle
          /\ Circle!Room!LinkVersion.row = IF Circle!Room!Lifecycle = "active" THEN link ELSE Circle!Room!NoLink
      BY DEF Circle!Room!LinkVersion
    <3>3. scheduled \in Nat /\ link.revision \in Nat
      BY DEF SessionInv, SessionTyped, LinkRows, Circle!Room!RoomConstants
    <3> QED BY <2>2, <3>1, <3>2, <3>3 DEF SessionInv, LinkViews, Shows
  <2> QED BY <2>1, <2>2 DEF Circle!Room!Parts
<1> QED BY <1>1, <1>2, <1>3

LEMMA SessionIsFinal == ASSUME RoomStep PROVE Circle!Room!CompletionIsFinal
BY CompletionStays DEF Circle!Room!CompletionIsFinal, Circle!Room!LinkVersion, Circle!Room!Lifecycle

(* The session of a pair: the timer shows what is left of its duration after *)
(* all the time that it ran, and no version of the controls or of the link   *)
(* that a page shows becomes current again, for any pair, duration, links    *)
(* and loss of answers (api/_session-controls.js:155, api/_meeting-link.js). *)
THEOREM SessionSafe ==
  ASSUME Circle!Room!RoomConstants PROVE Circle!Room!Spec => [](Circle!Room!TypeOK /\ Circle!Room!TimerIsConserved /\ Circle!Room!CurrentIsFresh)
<1>1. Circle!Room!Init => SessionInv
  BY SessionStarts
<1>2. SessionInv /\ [Circle!Room!Next]_(Circle!Room!vars) => SessionInv'
  BY NextIsRoomStep, SessionInvKept
<1>3. SessionInv => Circle!Room!TypeOK /\ Circle!Room!TimerIsConserved /\ Circle!Room!CurrentIsFresh
  BY SessionFacts
<1> QED BY <1>1, <1>2, <1>3, PTL DEF Circle!Room!Spec

(* Once both have confirmed, receipts and controls stay, and a link is       *)
(* neither shown nor written (api/_session-completion.js).                   *)
THEOREM SessionsEnd == ASSUME Circle!Room!RoomConstants PROVE Circle!Room!Spec => [][Circle!Room!CompletionIsFinal]_(Circle!Room!vars)
<1>1. [Circle!Room!Next]_(Circle!Room!vars) => [Circle!Room!CompletionIsFinal]_(Circle!Room!vars)
  BY NextIsRoomStep, SessionIsFinal
<1> QED BY <1>1, PTL DEF Circle!Room!Spec

(* ----------------------- A room of a secondary circle -------------------- *)

(* The kinds of requests and other steps.                                    *)
Admitting == /\ \E u \in Users : Circle!Prepare(u) \/ Circle!Refuse(u) \/ Circle!Switch(u) \/ Circle!LeaveCircle(u)
             /\ UNCHANGED <<Circle!roomVars, Circle!codeVars, Circle!chatVars>>
Served(kind) == \E u \in Users : Circle!Serve(u, kind)
InRoom == /\ RoomStep /\ UNCHANGED <<Circle!codeVars, Circle!chatVars>>
          /\ (\E kind \in Kinds : Served(kind)) \/ UNCHANGED <<member, context, held>>
          /\ UNCHANGED <<receipt, controls>> \/ \E kind \in Kinds : Served(kind)
InCode == /\ UNCHANGED <<Circle!roomVars, Circle!chatVars>>
          /\ \/ Served("code") /\ \E u \in Users : Circle!ReadDocument(u) \/ Circle!MutateDocument(u) \/ Circle!ReadSnapshot(u) \/ Circle!WriteSnapshot(u)
             \/ Circle!Age /\ UNCHANGED <<member, context, held>>
InChat == /\ Served("chat") /\ UNCHANGED <<Circle!roomVars, Circle!codeVars>>
          /\ \E u \in Users : Circle!SendMessage(u) \/ Circle!SendSignal(u) \/ Circle!PurgeSignals(u)

LEMMA CircleSteps ==
  ASSUME [Circle!Next]_(Circle!vars) PROVE Admitting \/ InRoom \/ InCode \/ InChat \/ UNCHANGED Circle!vars
<1>1. ASSUME NEW u \in Users, Circle!Prepare(u) \/ Circle!Refuse(u) \/ Circle!Switch(u) \/ Circle!LeaveCircle(u) PROVE Admitting
  BY <1>1 DEF Admitting, Circle!Prepare, Circle!Refuse, Circle!Switch, Circle!LeaveCircle
<1>2. ASSUME NEW u \in Users, Circle!MutateCompletion(u) \/ Circle!MutateControls(u) \/ Circle!MutateMeetingLink(u) PROVE InRoom
  <2>1. RoomStep
    BY <1>2 DEF Circle!MutateCompletion, Circle!MutateControls, Circle!MutateMeetingLink, RoomStep
  <2> QED BY <1>2, <2>1 DEF Circle!MutateCompletion, Circle!MutateControls, Circle!MutateMeetingLink, InRoom, Served, Circle!Serve
<1>3. ASSUME NEW u \in Users, NEW part \in {"completion", "controls", "link"}, Circle!ReadPart(u, part) PROVE InRoom
  <2>1. RoomStep
    BY <1>3 DEF Circle!ReadPart, RoomStep, SomeParts
  <2> QED BY <1>3, <2>1 DEF Circle!ReadPart, InRoom, Served, Circle!Serve
<1>4. ASSUME Circle!Reschedule \/ Circle!Tick PROVE InRoom
  <2>1. RoomStep
    BY <1>4 DEF Circle!Reschedule, Circle!Tick, RoomStep
  <2>2. UNCHANGED <<receipt, controls>>
    BY <1>4 DEF Circle!Reschedule, Circle!Tick, Circle!Room!Reschedule, Circle!Room!Tick
  <2> QED BY <1>4, <2>1, <2>2 DEF Circle!Reschedule, Circle!Tick, InRoom
<1>5. ASSUME NEW u \in Users, Circle!ReadDocument(u) \/ Circle!MutateDocument(u) \/ Circle!ReadSnapshot(u) \/ Circle!WriteSnapshot(u) PROVE InCode
  BY <1>5 DEF InCode, Served, Circle!ReadDocument, Circle!MutateDocument, Circle!ReadSnapshot, Circle!WriteSnapshot
<1>6. Circle!Age => InCode
  BY DEF Circle!Age, InCode, Circle!chatVars
<1>7. ASSUME NEW u \in Users, Circle!SendMessage(u) \/ Circle!SendSignal(u) \/ Circle!PurgeSignals(u) PROVE InChat
  BY <1>7 DEF InChat, Served, Circle!SendMessage, Circle!SendSignal, Circle!PurgeSignals
<1> QED BY <1>1, <1>2, <1>3, <1>4, <1>5, <1>6, <1>7 DEF Circle!Next

LEMMA RoomOfTheCircle == ASSUME UNCHANGED Circle!roomVars PROVE RoomStep
BY DEF Circle!roomVars, RoomStep, Circle!Room!vars

(* ------------------------------- Its types ------------------------------- *)

AccessTyped ==
  /\ member \in [Users -> BOOLEAN] /\ context \in [Users -> [here : BOOLEAN, version : 1..MaxContext]]
  /\ held \in [Users -> {Circle!NoRequest} \cup 1..MaxContext]
CodeTyped ==
  /\ document \in [revision : Nat, edits : SUBSET Circle!Made] /\ snapshot \in [revision : Nat, code : SUBSET Circle!Made]
  /\ aged \in BOOLEAN /\ seen \in [Users -> Nat] /\ edits \in 0..MaxEdits
ChatTyped ==
  /\ registered \in BOOLEAN
  /\ messages \in Seq([by : Users, at : 0..MaxNow]) /\ Len(messages) <= PerRoom
  /\ signals \in Seq(0..MaxNow) /\ Len(signals) <= SignalsKept
  /\ messages # <<>> => registered

LEMMA ServedAccess ==
  ASSUME AccessTyped, NEW kind \in {"completion", "controls", "link", "code", "chat"}, Served(kind)
  PROVE  AccessTyped' /\ \E u \in Users : member[u] /\ Circle!SessionHolds(u)
BY DEF AccessTyped, Served, Circle!Serve, Circle!Access

LEMMA AccessStep ==
  ASSUME Circle!SecondaryRoomConstants, AccessTyped, [Circle!Next]_(Circle!vars) PROVE AccessTyped'
<1>1. CASE Admitting
  <2> PICK u \in Users : Circle!Prepare(u) \/ Circle!Refuse(u) \/ Circle!Switch(u) \/ Circle!LeaveCircle(u)
    BY <1>1 DEF Admitting
  <2>1. CASE Circle!Prepare(u)
    BY <2>1 DEF AccessTyped, Circle!Prepare
  <2>2. CASE Circle!Refuse(u)
    BY <2>2 DEF AccessTyped, Circle!Refuse
  <2>3. CASE Circle!Switch(u)
    <3>1. context[u].version + 1 \in 1..MaxContext
      BY <2>3 DEF AccessTyped, Circle!Switch, Circle!SecondaryRoomConstants
    <3> QED BY <2>3, <3>1 DEF AccessTyped, Circle!Switch
  <2>4. CASE Circle!LeaveCircle(u)
    BY <2>4 DEF AccessTyped, Circle!LeaveCircle
  <2> QED BY <2>1, <2>2, <2>3, <2>4
<1>2. UNCHANGED <<member, context, held>> => AccessTyped'
  BY DEF AccessTyped
<1>3. CASE InRoom
  BY <1>2, <1>3, ServedAccess DEF InRoom, Circle!SecondaryRoomConstants
<1>4. CASE InCode
  BY <1>2, <1>4, ServedAccess DEF InCode
<1>5. CASE InChat
  BY <1>5, ServedAccess DEF InChat
<1>6. CASE UNCHANGED Circle!vars
  BY <1>2, <1>6 DEF Circle!vars
<1> QED BY <1>1, <1>3, <1>4, <1>5, <1>6, CircleSteps

(* What the present document and the scrubbed snapshot are made of.          *)
LEMMA PresentCode ==
  ASSUME CodeTyped
  PROVE  /\ Circle!Present \in [revision : Nat, edits : SUBSET Circle!Made]
         /\ Circle!Scrubbed \in [revision : Nat, code : SUBSET Circle!Made]
         /\ Circle!Scrubbed.revision > 0 <=> snapshot.revision > 0
         /\ (Circle!Exists /\ ~aged /\ snapshot.revision > 0 => snapshot.code = document.edits)
              => (Circle!Scrubbed.revision > 0 => Circle!Scrubbed.code = Circle!Present.edits)
BY DEF CodeTyped, Circle!Present, Circle!Scrubbed, Circle!Expired, Circle!Exists

LEMMA CodeStep ==
  ASSUME Circle!SecondaryRoomConstants, CodeTyped, Circle!SnapshotFollows, Circle!Exists => Circle!Paired, InCode
  PROVE  CodeTyped' /\ Circle!SnapshotFollows' /\ (Circle!Exists' => Circle!Paired')
<1>1. MaxEdits \in Nat /\ edits \in Nat /\ edits <= MaxEdits /\ Circle!Made' = 1..edits'
  BY DEF CodeTyped, Circle!SecondaryRoomConstants, Circle!Made
<1>2. /\ Circle!Present \in [revision : Nat, edits : SUBSET Circle!Made] /\ Circle!Scrubbed \in [revision : Nat, code : SUBSET Circle!Made]
      /\ Circle!Scrubbed.revision > 0 => Circle!Scrubbed.code = Circle!Present.edits
  BY PresentCode DEF Circle!SnapshotFollows
<1>3. Circle!Paired' = Circle!Paired
  BY DEF Circle!Paired
<1>4. CASE Circle!Age
  BY <1>4 DEF Circle!Age, CodeTyped, Circle!SnapshotFollows, Circle!Exists, Circle!Made, Circle!Paired
<1>5. ASSUME NEW u \in Users, Circle!ReadDocument(u) PROVE CodeTyped' /\ Circle!SnapshotFollows' /\ (Circle!Exists' => Circle!Paired')
  <2>1. CASE UNCHANGED Circle!codeVars
    BY <2>1 DEF Circle!codeVars, CodeTyped, Circle!SnapshotFollows, Circle!Exists, Circle!Made, Circle!Paired
  <2>2. CASE /\ document' = Circle!Present /\ snapshot' = Circle!Scrubbed /\ aged' = FALSE
             /\ UNCHANGED <<seen, edits>>
    <3>1. CodeTyped'
      BY <2>2, <1>2 DEF CodeTyped, Circle!Made
    <3>2. Circle!SnapshotFollows'
      BY <2>2, <1>2 DEF Circle!SnapshotFollows
    <3> QED BY <3>1, <3>2, <1>3, <1>5 DEF Circle!ReadDocument
  <2> QED BY <1>5, <2>1, <2>2 DEF Circle!ReadDocument
<1>6. ASSUME NEW u \in Users, Circle!MutateDocument(u) PROVE CodeTyped' /\ Circle!SnapshotFollows' /\ (Circle!Exists' => Circle!Paired')
  <2> PICK e \in 1..(edits + 1) :
        /\ Circle!Paired /\ e <= MaxEdits
        /\ edits' = IF e > edits THEN e ELSE edits
        /\ IF Circle!Present.edits \cup {e} = Circle!Present.edits
           THEN document' = Circle!Present /\ snapshot' = Circle!Scrubbed
           ELSE /\ document' = [revision |-> Circle!Present.revision + 1, edits |-> Circle!Present.edits \cup {e}]
                /\ snapshot' = Circle!Projected(Circle!Scrubbed, Circle!Present.edits \cup {e})
        /\ aged' = FALSE /\ UNCHANGED seen
    BY <1>6 DEF Circle!MutateDocument
  <2>1. edits' \in 0..MaxEdits /\ Circle!Made \subseteq Circle!Made' /\ e \in Circle!Made'
    BY <1>1 DEF Circle!Made
  <2>2. CASE document' = Circle!Present /\ snapshot' = Circle!Scrubbed
    <3>1. CodeTyped'
      BY <2>1, <2>2, <1>2 DEF CodeTyped
    <3>2. Circle!SnapshotFollows'
      BY <2>2, <1>2 DEF Circle!SnapshotFollows
    <3> QED BY <3>1, <3>2, <1>3
  <2>3. CASE /\ document' = [revision |-> Circle!Present.revision + 1, edits |-> Circle!Present.edits \cup {e}]
             /\ snapshot' = Circle!Projected(Circle!Scrubbed, Circle!Present.edits \cup {e})
    <3> DEFINE merged == Circle!Present.edits \cup {e}
    <3>1. merged \subseteq Circle!Made'
      BY <1>2, <2>1
    <3>2. document' \in [revision : Nat, edits : SUBSET Circle!Made'] /\ document'.edits = merged
      BY <2>3, <1>2, <3>1
    <3>3. snapshot' = IF Circle!Scrubbed.revision = 0 THEN Circle!Scrubbed ELSE [revision |-> Circle!Scrubbed.revision + 1, code |-> merged]
      BY <2>3 DEF Circle!Projected
    <3> HIDE DEF merged
    <3>4. snapshot' \in [revision : Nat, code : SUBSET Circle!Made'] /\ (snapshot'.revision > 0 => snapshot'.code = merged)
      <4>1. CASE Circle!Scrubbed.revision = 0
        <5>1. snapshot' = Circle!Scrubbed /\ SUBSET Circle!Made \subseteq SUBSET Circle!Made'
          BY <4>1, <3>3, <2>1
        <5>2. snapshot' \in [revision : Nat, code : SUBSET Circle!Made']
          BY <5>1, <1>2
        <5> QED BY <4>1, <5>1, <5>2
      <4>2. CASE Circle!Scrubbed.revision # 0
        BY <4>2, <3>1, <3>3, <1>2
      <4> QED BY <4>1, <4>2
    <3> QED BY <2>1, <3>2, <3>4, <1>3 DEF CodeTyped, Circle!SnapshotFollows
  <2> QED BY <2>2, <2>3
<1>7. ASSUME NEW u \in Users, Circle!ReadSnapshot(u) PROVE CodeTyped' /\ Circle!SnapshotFollows' /\ (Circle!Exists' => Circle!Paired')
  BY <1>7 DEF Circle!ReadSnapshot, CodeTyped, Circle!SnapshotFollows, Circle!Exists, Circle!Made, Circle!Paired
<1>8. ASSUME NEW u \in Users, Circle!WriteSnapshot(u) PROVE CodeTyped' /\ Circle!SnapshotFollows' /\ (Circle!Exists' => Circle!Paired')
  <2> PICK text \in Circle!StoredCodes :
        /\ snapshot' = [revision |-> snapshot.revision + 1, code |-> text]
        /\ seen' = [seen EXCEPT ![u] = snapshot.revision + 1]
        /\ edits' = IF edits + 1 \in text THEN edits + 1 ELSE edits
        /\ UNCHANGED <<document, aged>>
    BY <1>8 DEF Circle!WriteSnapshot
  <2>1. CASE Circle!Paired /\ Circle!Exists /\ ~aged /\ text = document.edits
    <3>1. edits' = edits
      BY <2>1, <1>1 DEF CodeTyped, Circle!Made
    <3>2. Circle!Made' = Circle!Made /\ edits' = edits
      BY <3>1, <1>1 DEF Circle!Made
    <3>3. snapshot' \in [revision : Nat, code : SUBSET Circle!Made] /\ seen' \in [Users -> Nat]
      BY <2>1 DEF CodeTyped
    <3> QED BY <2>1, <3>2, <3>3 DEF CodeTyped, Circle!SnapshotFollows, Circle!Exists, Circle!Paired
  <2>2. CASE ~(Circle!Paired /\ Circle!Exists /\ ~aged) /\ text \in Circle!SentCodes
    <3>1. text = snapshot.code \/ (text = snapshot.code \cup {edits + 1} /\ edits + 1 <= MaxEdits)
      BY <2>2, <1>1 DEF Circle!SentCodes
    <3>2. snapshot.code \subseteq 1..edits /\ document.edits \subseteq 1..edits
      BY DEF CodeTyped, Circle!Made
    <3>3. edits' \in 0..MaxEdits /\ text \subseteq 1..edits' /\ edits <= edits'
      BY <1>1, <3>1, <3>2
    <3>4. document.edits \subseteq Circle!Made' /\ text \subseteq Circle!Made'
      BY <1>1, <3>2, <3>3
    <3> QED BY <2>2, <3>3, <3>4 DEF CodeTyped, Circle!SnapshotFollows, Circle!Exists, Circle!Paired
  <2> QED BY <2>1, <2>2 DEF Circle!StoredCodes
<1> QED BY <1>4, <1>5, <1>6, <1>7, <1>8 DEF InCode

(* The parts count as this module does.                                      *)
LEMMA CircleCounts ==
  /\ Circle!RateHolds <=> \A u \in Users : \A t \in 0..now :
       Cardinality({i \in 1..Len(messages) : messages[i].by = u /\ messages[i].at \in t..(t + Minute)}) <= PerMinute
  /\ Circle!RateHolds' <=> \A u \in Users : \A t \in 0..now' :
       Cardinality({i \in 1..Len(messages') : messages'[i].by = u /\ messages'[i].at \in t..(t + Minute)}) <= PerMinute
  /\ \A u : Circle!WithinLimits(u) <=> Cardinality(Circle!RecentBy(u)) < PerMinute /\ Len(messages) < PerRoom
  /\ \A s : Circle!Trim(s) = SubSeq(s, Cardinality(Circle!Swept(s)) + 1, Len(s))
BY Zenon DEF Circle!RateHolds, Circle!WithinLimits, Circle!Trim, Circle!Cardinality, Cardinality

LEMMA WindowEnds ==
  ASSUME Circle!SecondaryRoomConstants, NEW u \in Users, ChatTyped, now \in Nat, Circle!RateHolds,
         \A i \in 1..Len(messages) : messages[i].at <= now, Circle!SendMessage(u)
  PROVE  Circle!RateHolds'
<1>1. /\ messages \in Seq([by : Users, at : 0..MaxNow]) /\ Len(messages) \in Nat
      /\ Minute \in Nat /\ PerMinute \in Nat /\ now' = now /\ Cardinality(Circle!RecentBy(u)) < PerMinute
      /\ messages' = Append(messages, [by |-> u, at |-> now])
  BY CircleCounts DEF ChatTyped, Circle!SecondaryRoomConstants, Circle!SendMessage, Circle!roomVars
<1>2. /\ Len(messages') = Len(messages) + 1 /\ messages'[Len(messages) + 1] = [by |-> u, at |-> now]
      /\ \A i \in 1..Len(messages) : messages'[i] = messages[i]
  BY <1>1
<1> SUFFICES ASSUME NEW x \in Users, NEW t \in 0..now
             PROVE  Cardinality({i \in 1..Len(messages') :
                                   messages'[i].by = x /\ messages'[i].at \in t..(t + Minute)}) <= PerMinute
  BY <1>1, CircleCounts
<1> DEFINE before == {i \in 1..Len(messages) : messages[i].by = x /\ messages[i].at \in t..(t + Minute)}
           after  == {i \in 1..Len(messages') : messages'[i].by = x /\ messages'[i].at \in t..(t + Minute)}
           new    == Len(messages) + 1
<1>a. IsFiniteSet(1..Len(messages))
  BY <1>1, FS_Interval
<1>b. before \subseteq 1..Len(messages)
  OBVIOUS
<1>c. Circle!RecentBy(u) \subseteq 1..Len(messages)
  BY DEF Circle!RecentBy
<1>3. Cardinality(before) <= PerMinute
  BY CircleCounts
<1>4. IsFiniteSet(before) /\ IsFiniteSet(Circle!RecentBy(u)) /\ Cardinality(before) <= PerMinute
  <2> HIDE DEF before
  <2> QED BY <1>3, <1>a, <1>b, <1>c, FS_Subset
<1>5. CASE x # u \/ ~(now \in t..(t + Minute))
  <2>1. after = before
    BY <1>1, <1>2, <1>5
  <2> QED BY <1>4, <2>1
<1>6. CASE x = u /\ now \in t..(t + Minute)
  <2>1. before \subseteq Circle!RecentBy(u)
    BY <1>1, <1>6 DEF Circle!RecentBy
  <2>2. Cardinality(before) <= Cardinality(Circle!RecentBy(u))
    BY <1>4, <2>1, FS_Subset
  <2>3. after = before \cup {new} /\ new \notin before
    BY <1>1, <1>2, <1>6
  <2> HIDE DEF before, after, new
  <2>4. Cardinality(after) = Cardinality(before) + 1
    BY <1>4, <2>3, FS_AddElement
  <2>5. Cardinality(before) \in Nat /\ Cardinality(Circle!RecentBy(u)) \in Nat
    BY <1>4, FS_CardinalityType
  <2>6. Cardinality(after) <= PerMinute
    BY <1>1, <2>2, <2>4, <2>5
  <2> QED BY <2>6 DEF after
<1> QED BY <1>5, <1>6

LEMMA SweptTyped ==
  ASSUME Circle!SecondaryRoomConstants, NEW s \in Seq(0..MaxNow)
  PROVE  Circle!Trim(s) \in Seq(0..MaxNow) /\ Len(Circle!Trim(s)) <= SignalsKept
<1>1. Len(s) \in Nat /\ SignalsKept \in Nat
  BY DEF Circle!SecondaryRoomConstants
<1>2. IsFiniteSet(1..Len(s)) /\ Cardinality(1..Len(s)) = Len(s)
  BY <1>1, FS_Interval
<1>3. Circle!Swept(s) \subseteq 1..Len(s)
  BY DEF Circle!Swept
<1>4. IsFiniteSet(Circle!Swept(s)) /\ Cardinality(Circle!Swept(s)) <= Len(s)
  BY <1>2, <1>3, FS_Subset
<1>5. Cardinality(Circle!Swept(s)) \in Nat
  BY <1>4, FS_CardinalityType
<1>6. Cardinality(Circle!Swept(s)) >= Len(s) - SignalsKept
  <2>1. CASE Len(s) <= SignalsKept
    BY <2>1, <1>1, <1>5
  <2>2. CASE Len(s) > SignalsKept
    <3>1. 1..(Len(s) - SignalsKept) \subseteq Circle!Swept(s)
      BY <1>1, <2>2 DEF Circle!Swept
    <3> DEFINE m == Len(s) - SignalsKept
    <3>2. Cardinality(1..m) = m
      <4>1. m \in Nat /\ m >= 1
        BY <1>1, <2>2
      <4> HIDE DEF m
      <4> QED BY <4>1, FS_Interval
    <3> HIDE DEF m
    <3>3. Cardinality(1..m) <= Cardinality(Circle!Swept(s))
      BY <1>4, <3>1, FS_Subset DEF m
    <3> QED BY <3>2, <3>3 DEF m
  <2> QED BY <1>1, <2>1, <2>2
<1> DEFINE n == Cardinality(Circle!Swept(s))
<1> HIDE DEF n
<1>7. n \in Nat /\ n <= Len(s) /\ n >= Len(s) - SignalsKept /\ Circle!Trim(s) = SubSeq(s, n + 1, Len(s))
  BY <1>4, <1>5, <1>6, CircleCounts DEF n
<1>8. SubSeq(s, n + 1, Len(s)) \in Seq(0..MaxNow)
        /\ Len(SubSeq(s, n + 1, Len(s))) = IF n + 1 <= Len(s) THEN Len(s) - (n + 1) + 1 ELSE 0
  <2>1. \A i \in (n + 1)..Len(s) : s[i] \in 0..MaxNow
    <3>1. \A i \in 1..Len(s) : s[i] \in 0..MaxNow
      BY ElementOfSeq
    <3>2. (n + 1)..Len(s) \subseteq 1..Len(s)
      BY <1>1, <1>7
    <3> QED BY <3>1, <3>2
  <2> DEFINE S == 0..MaxNow
             l == Len(s)
  <2> HIDE DEF S, l
  <2>2. n + 1 \in Int /\ l \in Int /\ \A i \in (n + 1)..l : s[i] \in S
    BY <1>1, <1>7, <2>1 DEF S, l
  <2>3. SubSeq(s, n + 1, l) \in Seq(S) /\ Len(SubSeq(s, n + 1, l)) = IF n + 1 <= l THEN l - (n + 1) + 1 ELSE 0
    BY <2>2, SubSeqProperties
  <2> QED BY <2>3 DEF S, l
<1> QED BY <1>1, <1>7, <1>8

LEMMA ChatStep ==
  ASSUME Circle!SecondaryRoomConstants, now \in 0..MaxNow, ChatTyped, Circle!RateHolds,
         \A i \in 1..Len(messages) : messages[i].at <= now, InChat
  PROVE  ChatTyped' /\ Circle!RateHolds' /\ \A i \in 1..Len(messages') : messages'[i].at <= now'
<1>1. now' = now /\ now \in Nat /\ PerRoom \in Nat /\ MaxNow \in Nat
  BY DEF InChat, Circle!roomVars, Circle!SecondaryRoomConstants, Circle!Room!RoomConstants
<1> PICK u \in Users : Circle!SendMessage(u) \/ Circle!SendSignal(u) \/ Circle!PurgeSignals(u)
  BY DEF InChat
<1>2. CASE Circle!SendMessage(u)
  <2>1. /\ messages \in Seq([by : Users, at : 0..MaxNow]) /\ Len(messages) \in Nat /\ Len(messages) < PerRoom
        /\ messages' = Append(messages, [by |-> u, at |-> now]) /\ registered' = TRUE /\ signals' = signals
    BY <1>2 DEF ChatTyped, Circle!SendMessage, Circle!WithinLimits
  <2>2. messages' \in Seq([by : Users, at : 0..MaxNow]) /\ Len(messages') = Len(messages) + 1
        /\ \A i \in 1..Len(messages') : messages'[i] = IF i = Len(messages) + 1 THEN [by |-> u, at |-> now]
                                                       ELSE messages[i]
    BY <2>1
  <2>3. ChatTyped'
    BY <1>1, <2>1, <2>2 DEF ChatTyped
  <2>4. \A i \in 1..Len(messages') : messages'[i].at <= now'
    BY <1>1, <2>1, <2>2
  <2> QED BY <1>1, <1>2, <2>3, <2>4, WindowEnds
<1>3. CASE Circle!SendSignal(u)
  <2>1. Append(signals, now) \in Seq(0..MaxNow)
    BY DEF ChatTyped
  <2>2. signals' = Circle!Trim(Append(signals, now)) /\ UNCHANGED <<messages, registered>>
    BY <1>3 DEF Circle!SendSignal
  <2>3. signals' \in Seq(0..MaxNow) /\ Len(signals') <= SignalsKept
    BY <2>1, <2>2, SweptTyped
  <2> QED BY <1>1, <2>2, <2>3 DEF ChatTyped, Circle!RateHolds
<1>4. CASE Circle!PurgeSignals(u)
  <2>1. SignalsKept \in Nat
    BY DEF Circle!SecondaryRoomConstants
  <2>2. messages' = messages /\ registered' = registered
    BY <1>4 DEF Circle!PurgeSignals
  <2>3. signals' \in Seq(0..MaxNow) /\ Len(signals') <= SignalsKept
    BY <1>4, <2>1 DEF Circle!PurgeSignals, ChatTyped
  <2> QED BY <1>1, <2>2, <2>3 DEF ChatTyped, Circle!RateHolds
<1> QED BY <1>2, <1>3, <1>4

CircleInv ==
  /\ SessionInv /\ AccessTyped /\ CodeTyped /\ ChatTyped
  /\ Circle!Exists => Circle!Paired
  /\ Circle!SnapshotFollows /\ Circle!RateHolds /\ \A i \in 1..Len(messages) : messages[i].at <= now

LEMMA CircleStarts == ASSUME Circle!SecondaryRoomConstants, Circle!Init PROVE CircleInv
<1>1. Circle!Room!RoomConstants /\ Circle!Room!Init
  BY DEF Circle!SecondaryRoomConstants, Circle!Init
<1>2. SessionInv
  BY <1>1, SessionStarts
<1>3. AccessTyped
  BY DEF Circle!SecondaryRoomConstants, Circle!Init, AccessTyped
<1>4. CodeTyped /\ Circle!SnapshotFollows /\ (Circle!Exists => Circle!Paired)
  <2>1. document = Circle!NoDoc /\ snapshot = Circle!NoCode /\ aged = FALSE /\ edits = 0 /\ seen = [u \in Users |-> 0]
    BY DEF Circle!Init
  <2>2. Circle!NoDoc \in [revision : Nat, edits : SUBSET Circle!Made] /\ Circle!NoCode \in [revision : Nat, code : SUBSET Circle!Made]
    BY DEF Circle!NoDoc, Circle!NoCode
  <2>3. edits \in 0..MaxEdits
    BY <2>1 DEF Circle!SecondaryRoomConstants
  <2>4. ~Circle!Exists
    BY <2>1 DEF Circle!Exists, Circle!NoDoc
  <2> QED BY <2>1, <2>2, <2>3, <2>4 DEF CodeTyped, Circle!SnapshotFollows
<1>5. ChatTyped
  <2>1. messages = <<>> /\ registered = FALSE /\ signals = <<>> /\ PerRoom \in Nat /\ SignalsKept \in Nat
    BY DEF Circle!Init, Circle!SecondaryRoomConstants
  <2>2. messages \in Seq([by : Users, at : 0..MaxNow]) /\ signals \in Seq(0..MaxNow)
        /\ Len(messages) = 0 /\ Len(signals) = 0
    BY <2>1, EmptySeq
  <2>3. registered \in BOOLEAN /\ (messages # <<>> => registered)
    BY <2>1
  <2>4. Len(messages) <= PerRoom /\ Len(signals) <= SignalsKept
    BY <2>1, <2>2
  <2> QED BY <2>2, <2>3, <2>4, Zenon DEF ChatTyped
<1>6. messages = <<>> /\ PerMinute \in Nat
  BY DEF Circle!Init, Circle!SecondaryRoomConstants
<1>7. Circle!RateHolds
  <2> SUFFICES ASSUME NEW u \in Users, NEW t \in 0..now
               PROVE  Cardinality({i \in 1..Len(messages) : messages[i].by = u
                                   /\ messages[i].at \in t..(t + Minute)}) <= PerMinute
    BY CircleCounts
  <2>1. {i \in 1..Len(messages) : messages[i].by = u /\ messages[i].at \in t..(t + Minute)} = {}
    BY <1>6
  <2> QED BY <1>6, <2>1, FS_EmptySet
<1> QED BY <1>2, <1>3, <1>4, <1>5, <1>6, <1>7 DEF CircleInv

LEMMA RateWithTime ==
  ASSUME Circle!SecondaryRoomConstants, now \in Nat, Circle!RateHolds, ChatTyped,
         \A i \in 1..Len(messages) : messages[i].at <= now,
         UNCHANGED messages, now' \in {now, now + 1}
  PROVE  Circle!RateHolds' /\ \A i \in 1..Len(messages') : messages'[i].at <= now'
<1>1. Len(messages) \in Nat /\ \A i \in 1..Len(messages) : messages[i].at \in Nat
  <2>1. MaxNow \in Nat /\ messages \in Seq([by : Users, at : 0..MaxNow])
    BY DEF ChatTyped, Circle!SecondaryRoomConstants, Circle!Room!RoomConstants
  <2>2. \A i \in 1..Len(messages) : messages[i] \in [by : Users, at : 0..MaxNow]
    BY <2>1, ElementOfSeq
  <2> QED BY <2>1, <2>2
<1>2. PerMinute \in Nat /\ Minute \in Nat
  BY DEF Circle!SecondaryRoomConstants
<1>3. Circle!RateHolds'
  <2> SUFFICES ASSUME NEW u \in Users, NEW t \in 0..now'
               PROVE  Cardinality({i \in 1..Len(messages) : messages[i].by = u
                                   /\ messages[i].at \in t..(t + Minute)}) <= PerMinute
    BY CircleCounts
  <2>1. CASE t \in 0..now
    BY <2>1, CircleCounts
  <2>2. CASE t = now + 1
    <3> DEFINE window == {i \in 1..Len(messages) : messages[i].by = u /\ messages[i].at \in t..(t + Minute)}
    <3>1. window = {}
      <4>1. \A i \in 1..Len(messages) : messages[i].at \notin t..(t + Minute)
        BY <1>1, <1>2, <2>2
      <4> QED BY <4>1
    <3> HIDE DEF window
    <3>2. Cardinality(window) <= PerMinute
      BY <1>2, <3>1, FS_EmptySet
    <3> QED BY <3>2 DEF window
  <2> QED BY <2>1, <2>2
<1>4. \A i \in 1..Len(messages) : messages[i].at <= now'
  BY <1>1
<1> QED BY <1>3, <1>4

LEMMA CircleKept == ASSUME Circle!SecondaryRoomConstants, CircleInv, [Circle!Next]_(Circle!vars) PROVE CircleInv'
<1>1. AccessTyped'
  BY AccessStep DEF CircleInv
<1>2. Circle!Room!RoomConstants
  BY DEF Circle!SecondaryRoomConstants
<1>3. RoomStep => SessionInv'
  BY <1>2, SessionInvKept DEF CircleInv
<1>4. now \in 0..MaxNow /\ now \in Nat
  BY DEF CircleInv, SessionInv, SessionTyped, Circle!SecondaryRoomConstants, Circle!Room!RoomConstants
<1>5. UNCHANGED Circle!codeVars => CodeTyped' /\ Circle!SnapshotFollows' /\ (Circle!Exists' => Circle!Paired')
  BY DEF Circle!codeVars, CircleInv, CodeTyped, Circle!SnapshotFollows, Circle!Exists, Circle!Paired, Circle!Made
<1>6. UNCHANGED Circle!chatVars => ChatTyped'
  BY DEF Circle!chatVars, CircleInv, ChatTyped
<1>7. UNCHANGED Circle!chatVars /\ now' \in {now, now + 1} =>
        Circle!RateHolds' /\ \A i \in 1..Len(messages') : messages'[i].at <= now'
  BY <1>4, RateWithTime DEF Circle!chatVars, CircleInv
<1>8. UNCHANGED Circle!roomVars => now' = now
  BY DEF Circle!roomVars
<1>9. ASSUME RoomStep PROVE now' \in {now, now + 1}
  BY <1>9, RoomStepKinds DEF Receipted, Looked, Circle!Room!Look, Linked, Circle!Room!SetLink, Controlled, Circle!Room!Control,
     Circle!Room!Reschedule, Circle!Room!Tick, Circle!Room!vars
<1>10. CASE Admitting
  BY <1>1, <1>3, <1>5, <1>6, <1>7, <1>8, <1>10, RoomOfTheCircle DEF Admitting, CircleInv
<1>11. CASE InRoom
  BY <1>1, <1>3, <1>5, <1>6, <1>7, <1>9, <1>11 DEF InRoom, CircleInv
<1>12. CASE InCode
  <2>1. UNCHANGED Circle!roomVars /\ UNCHANGED Circle!chatVars
    BY <1>12 DEF InCode
  <2>2. CodeTyped' /\ Circle!SnapshotFollows' /\ (Circle!Exists' => Circle!Paired')
    BY <1>12, CodeStep DEF CircleInv
  <2> QED BY <1>1, <1>3, <1>6, <1>7, <1>8, <2>1, <2>2, RoomOfTheCircle DEF CircleInv
<1>13. CASE InChat
  <2>1. UNCHANGED Circle!roomVars /\ UNCHANGED Circle!codeVars
    BY <1>13 DEF InChat
  <2>2. ChatTyped' /\ Circle!RateHolds' /\ \A i \in 1..Len(messages') : messages'[i].at <= now'
    BY <1>4, <1>13, ChatStep DEF CircleInv
  <2> QED BY <1>1, <1>3, <1>5, <2>1, <2>2, RoomOfTheCircle DEF CircleInv
<1>14. CASE UNCHANGED Circle!vars
  <2>1. UNCHANGED Circle!roomVars /\ UNCHANGED Circle!codeVars /\ UNCHANGED Circle!chatVars
    BY <1>14 DEF Circle!vars
  <2> QED BY <1>1, <1>3, <1>5, <1>6, <1>7, <1>8, <2>1, RoomOfTheCircle DEF CircleInv
<1> QED BY <1>10, <1>11, <1>12, <1>13, <1>14, CircleSteps

CircleSafe == Circle!TypeOK /\ Circle!SnapshotFollows /\ Circle!RateHolds /\ Circle!Room!TimerIsConserved /\ Circle!Room!CurrentIsFresh

LEMMA CircleFacts == ASSUME Circle!SecondaryRoomConstants, CircleInv PROVE CircleSafe
<1>1. Circle!Room!TypeOK /\ Circle!Room!TimerIsConserved /\ Circle!Room!CurrentIsFresh
  BY SessionFacts DEF CircleInv, Circle!SecondaryRoomConstants
<1>2. Circle!TypeOK
  BY <1>1 DEF Circle!TypeOK, CircleInv, AccessTyped, CodeTyped, ChatTyped
<1> QED BY <1>1, <1>2 DEF CircleSafe, CircleInv

LEMMA CircleStepsKeep ==
  ASSUME Circle!SecondaryRoomConstants, AccessTyped, [Circle!Next]_(Circle!vars)
  PROVE  [Circle!CompletionIsFinal]_(Circle!vars) /\ [Circle!NothingFromOutside]_(Circle!vars)
<1>1. ASSUME NEW kind \in {"completion", "controls", "link", "code", "chat"}, Served(kind)
      PROVE  ~(\A u \in Users : ~member[u] \/ ~Circle!SessionHolds(u))
  BY <1>1, ServedAccess
<1>2. UNCHANGED <<receipt, controls, document, snapshot, messages, signals, registered>> => Circle!NothingFromOutside
  BY DEF Circle!NothingFromOutside
<1>3. RoomStep => Circle!Room!CompletionIsFinal /\ (Circle!Room!Completed => UNCHANGED <<receipt, controls>>)
  BY SessionIsFinal, CompletionStays
<1>4. RoomStep /\ UNCHANGED <<document, snapshot>> => Circle!CompletionIsFinal
  BY <1>3 DEF Circle!CompletionIsFinal
<1>5. CASE Admitting
  BY <1>2, <1>4, <1>5, RoomOfTheCircle DEF Admitting, Circle!roomVars, Circle!codeVars, Circle!chatVars
<1>6. CASE InRoom
  <2>1. UNCHANGED <<document, snapshot, messages, signals, registered>>
    BY <1>6 DEF InRoom, Circle!codeVars, Circle!chatVars
  <2>2. Circle!CompletionIsFinal
    BY <1>4, <1>6, <2>1 DEF InRoom
  <2>3. Circle!NothingFromOutside
    BY <1>1, <1>2, <1>6, <2>1 DEF InRoom, Circle!NothingFromOutside, Circle!SecondaryRoomConstants
  <2> QED BY <2>2, <2>3
<1>7. CASE InCode
  <2>1. UNCHANGED Circle!roomVars /\ UNCHANGED Circle!chatVars
    BY <1>7 DEF InCode
  <2>2. Circle!Room!Completed => UNCHANGED <<document, snapshot>>
    BY <1>7 DEF InCode, Circle!ReadDocument, Circle!codeVars, Circle!MutateDocument, Circle!Open, Circle!ReadSnapshot, Circle!WriteSnapshot, Circle!Age
  <2>3. Circle!Age => UNCHANGED <<document, snapshot>>
    BY DEF Circle!Age
  <2>4. Circle!NothingFromOutside
    BY <1>1, <1>2, <1>7, <2>1, <2>3 DEF InCode, Circle!NothingFromOutside, Circle!roomVars, Circle!chatVars
  <2>5. Circle!CompletionIsFinal
    BY <1>3, <2>1, <2>2, RoomOfTheCircle DEF Circle!CompletionIsFinal
  <2> QED BY <2>4, <2>5
<1>8. CASE InChat
  <2>1. UNCHANGED Circle!roomVars /\ UNCHANGED <<document, snapshot>>
    BY <1>8 DEF InChat, Circle!codeVars
  <2>2. Circle!NothingFromOutside
    BY <1>1, <1>8 DEF InChat, Circle!NothingFromOutside
  <2> QED BY <1>4, <2>1, <2>2, RoomOfTheCircle
<1>9. CASE UNCHANGED Circle!vars
  BY <1>9
<1> QED BY <1>5, <1>6, <1>7, <1>8, <1>9, CircleSteps

(* The room of a secondary circle: its snapshot follows its document, nobody *)
(* sends more messages a minute than the limit, and the timer and the        *)
(* versions are as in the session of a primary pair, while its members       *)
(* change circles, leave and sign in again (api/_secondary-workspace.js:109, *)
(* :248).                                                                    *)
THEOREM CirclesAreSafe == ASSUME Circle!SecondaryRoomConstants PROVE Circle!Spec => []CircleSafe
<1>1. Circle!Init => CircleInv
  BY CircleStarts
<1>2. CircleInv /\ [Circle!Next]_(Circle!vars) => CircleInv'
  BY CircleKept
<1>3. CircleInv => CircleSafe
  BY CircleFacts
<1> QED BY <1>1, <1>2, <1>3, PTL DEF Circle!Spec

(* In the room of a secondary circle nothing of a completed session changes, *)
(* and whoever is not in the circle, or whose session has gone on to         *)
(* another, writes nothing, with a request from before a return to it        *)
(* neither (api/_workspace-access.js).                                       *)
THEOREM CircleStepsHold ==
  ASSUME Circle!SecondaryRoomConstants PROVE Circle!Spec => [][Circle!CompletionIsFinal]_(Circle!vars) /\ [][Circle!NothingFromOutside]_(Circle!vars)
<1>1. Circle!Init => CircleInv
  BY CircleStarts
<1>2. CircleInv /\ [Circle!Next]_(Circle!vars) => CircleInv'
  BY CircleKept
<1>3. CircleInv /\ [Circle!Next]_(Circle!vars) => [Circle!CompletionIsFinal]_(Circle!vars) /\ [Circle!NothingFromOutside]_(Circle!vars)
  BY CircleStepsKeep DEF CircleInv
<1> QED BY <1>1, <1>2, <1>3, PTL DEF Circle!Spec

(* ------------------------- A time, and its letters ----------------------- *)

LetterKinds == Schedule!Outcomes \cup {"proposal", "removed", "reminder"}
Telling == Schedule!Outcomes \cup {"reminder"}

(* A sequence of letters of one kind, one to each watched member of S.       *)
Each(s, S, kind, instant) ==
  /\ s \in Seq(Schedule!LetterType)
  /\ \A k \in 1..Len(s) : /\ s[k].kind = kind /\ s[k].instant = instant /\ s[k].to \in S
                          /\ s[k].status = "queued" /\ s[k].revision = version + 1
  /\ \A j, k \in 1..Len(s) : s[j].to = s[k].to => j = k
  /\ \A p \in S \cap Watched : \E k \in 1..Len(s) : s[k].to = p

LEMMA ScheduleCounts ==
  /\ Schedule!SchedulingConstants => IsFiniteSet(Users)
  /\ \A T : Schedule!SetToSeq(T) = CHOOSE f \in [1..Cardinality(T) -> T] : IsInjective(f)
<1>1. Schedule!SchedulingConstants => IsFiniteSet(Users)
  BY Zenon DEF Schedule!SchedulingConstants, Schedule!IsFiniteSet, IsFiniteSet
<1>2. ASSUME NEW T PROVE Schedule!SetToSeq(T) = CHOOSE f \in [1..Cardinality(T) -> T] : IsInjective(f)
  BY Zenon DEF Schedule!SetToSeq, Schedule!Cardinality, Cardinality, Schedule!IsInjective, IsInjective
<1> QED BY <1>1, <1>2

(* A finite set in some order.                                               *)
LEMMA InOrder ==
  ASSUME NEW T, IsFiniteSet(T)
  PROVE  /\ Schedule!SetToSeq(T) \in Seq(T)
         /\ \A j, k \in 1..Len(Schedule!SetToSeq(T)) : Schedule!SetToSeq(T)[j] = Schedule!SetToSeq(T)[k] => j = k
         /\ \A x \in T : \E k \in 1..Len(Schedule!SetToSeq(T)) : Schedule!SetToSeq(T)[k] = x
<1> DEFINE n == Cardinality(T)
<1>1. n \in Nat /\ ExistsBijection(1..n, T)
  BY FS_CardinalityType
<1>2. IsFiniteSet(1..n) /\ Cardinality(1..n) = n
  <2>1. IsFiniteSet(1..n) /\ Cardinality(1..n) = IF 1 > n THEN 0 ELSE n - 1 + 1
    BY <1>1, FS_Interval
  <2> QED BY <1>1, <2>1
<1>3. \E f \in [1..n -> T] : IsInjective(f)
  BY <1>1 DEF ExistsBijection, Bijection, Injection
<1> PICK s : s = Schedule!SetToSeq(T)
  OBVIOUS
<1>4. s \in [1..n -> T] /\ IsInjective(s)
  BY <1>3, ScheduleCounts
<1>5. s \in Injection(1..n, T)
  BY <1>4 DEF Injection
<1>6. s \in Surjection(1..n, T)
  <2>1. Cardinality(1..n) = Cardinality(T) <=> s \in Surjection(1..n, T)
    BY <1>5, FS_Injection
  <2> QED BY <1>2, <2>1
<1> HIDE DEF n
<1>7. s \in Seq(T) /\ Len(s) = n
  BY <1>1, <1>4
<1>8. \A x \in T : \E k \in 1..n : s[k] = x
  BY <1>6 DEF Surjection
<1>9. \A j, k \in 1..n : s[j] = s[k] => j = k
  BY <1>4 DEF IsInjective
<1> QED BY <1>7, <1>8, <1>9

(* What is drawn from a finite set by a function is finite.                  *)
LEMMA DrawnFinite ==
  ASSUME NEW S, IsFiniteSet(S), NEW f, DOMAIN f = S, f = [x \in S |-> f[x]] PROVE IsFiniteSet({f[x] : x \in S})
<1>1. f \in Surjection(S, {f[x] : x \in S})
  BY DEF Surjection
<1> QED BY <1>1, FS_Surjection

LEMMA EachGets ==
  ASSUME Schedule!SchedulingConstants, version \in Nat, NEW S \in SUBSET Users, NEW kind \in LetterKinds, NEW by \in Users,
         NEW instant \in Times \cup {Schedule!NoTime}, NEW due \in Nat
  PROVE  Each(Schedule!ToEach(S, kind, by, instant, due), S, kind, instant)
<1> DEFINE W == S \cap Watched
<1> DEFINE f == [p \in W |-> Schedule!Letter(kind, p, by, instant, version + 1, due)]
<1>1. W \subseteq Users /\ W \subseteq Watched /\ W \subseteq S /\ IsFiniteSet(Users)
  BY ScheduleCounts DEF Schedule!SchedulingConstants
<1>2. IsFiniteSet(W)
  BY <1>1, FS_Subset
<1>3. \A p \in W : /\ f[p].kind = kind /\ f[p].instant = instant /\ f[p].to = p /\ f[p].status = "queued"
                   /\ f[p].revision = version + 1 /\ f[p] \in Schedule!LetterType
  <2> SUFFICES ASSUME NEW p \in W
               PROVE  /\ f[p].kind = kind /\ f[p].instant = instant /\ f[p].to = p /\ f[p].status = "queued"
                      /\ f[p].revision = version + 1 /\ f[p] \in Schedule!LetterType
    OBVIOUS
  <2>1. f[p] = [kind |-> kind, to |-> p, by |-> by, instant |-> instant,
                revision |-> version + 1, due |-> due, status |-> "queued", fate |-> "unsent"]
    BY DEF Schedule!Letter
  <2>2. p \in Watched
    OBVIOUS
  <2> HIDE DEF f, W
  <2> QED BY <2>1, <2>2 DEF Schedule!LetterType, LetterKinds
<1> DEFINE T == {f[p] : p \in W}
<1>4. T = {Schedule!Letter(kind, p, by, instant, version + 1, due) : p \in W}
  OBVIOUS
<1>5. Schedule!ToEach(S, kind, by, instant, due) = Schedule!SetToSeq(T)
  BY <1>4 DEF Schedule!ToEach
<1>6. DOMAIN f = W /\ f = [x \in W |-> f[x]]
  OBVIOUS
<1> HIDE DEF f, W
<1>7. IsFiniteSet(T)
  BY <1>2, <1>6, DrawnFinite
<1>8. \A x \in T : x \in Schedule!LetterType /\ x.kind = kind /\ x.instant = instant /\ x.to \in W /\ x.status = "queued"
                   /\ x.revision = version + 1 /\ x = f[x.to]
  BY <1>3
<1>9. \A p \in W : f[p] \in T
  OBVIOUS
<1> HIDE DEF T
<1> PICK s : s = Schedule!SetToSeq(T)
  OBVIOUS
<1>10. /\ s \in Seq(T)
       /\ \A j, k \in 1..Len(s) : s[j] = s[k] => j = k
       /\ \A x \in T : \E k \in 1..Len(s) : s[k] = x
  BY <1>7, InOrder
<1>11. \A k \in 1..Len(s) : s[k] \in T
  BY <1>10, ElementOfSeq
<1>12. s \in Seq(Schedule!LetterType)
  BY <1>8, <1>10, <1>11
<1>13. \A p \in W : \E k \in 1..Len(s) : s[k].to = p
  BY <1>3, <1>9, <1>10
<1>14. \A j, k \in 1..Len(s) : s[j].to = s[k].to => j = k
  BY <1>8, <1>10, <1>11
<1>15. \A k \in 1..Len(s) : /\ s[k].kind = kind /\ s[k].instant = instant /\ s[k].to \in S
                            /\ s[k].status = "queued" /\ s[k].revision = version + 1
  BY <1>1, <1>8, <1>11
<1>16. Each(s, S, kind, instant)
  BY <1>12, <1>13, <1>14, <1>15 DEF Each, W
<1> QED BY <1>5, <1>16

(* ----------------------- What a mutation queues -------------------------- *)

(* Letters that the next version of the schedule brings.                     *)
Fresh(L) ==
  /\ L \in Seq(Schedule!LetterType)
  /\ \A k \in 1..Len(L) : L[k].status = "queued" /\ L[k].revision = version + 1

(* In the primary circle whoever is told anything of the agreed time is told *)
(* the new one, and everybody is told once, when it changes.                 *)
PrimaryTells(L, before, after) ==
  /\ \A k \in 1..Len(L) : L[k].kind \in Telling => after # before /\ L[k].instant = after
  /\ after # before => \A p \in Watched : \E k \in 1..Len(L) :
       /\ L[k].to = p /\ L[k].kind \in Schedule!Outcomes
       /\ \A j \in 1..Len(L) : j # k /\ L[j].to = p => L[j].kind \notin Schedule!Outcomes

(* In a secondary one everybody is reminded anew of what is still agreed.    *)
SecondaryTells(L, after) ==
  /\ \A k \in 1..Len(L) : L[k].kind \in Telling => L[k].instant = after
  /\ after # Schedule!NoTime => \A p \in Watched : \E k \in 1..Len(L) : L[k].to = p /\ L[k].kind = "reminder"

LEMMA Joined ==
  ASSUME NEW a \in Seq(Schedule!LetterType), NEW b \in Seq(Schedule!LetterType)
  PROVE  /\ a \o b \in Seq(Schedule!LetterType) /\ Len(a \o b) = Len(a) + Len(b) /\ Len(a) \in Nat /\ Len(b) \in Nat
         /\ \A k \in 1..Len(a) : k \in 1..Len(a \o b) /\ (a \o b)[k] = a[k]
         /\ \A k \in 1..Len(b) : Len(a) + k \in 1..Len(a \o b) /\ (a \o b)[Len(a) + k] = b[k]
         /\ \A k \in 1..Len(a \o b) : (k \in 1..Len(a) /\ (a \o b)[k] = a[k])
                                      \/ (k - Len(a) \in 1..Len(b) /\ (a \o b)[k] = b[k - Len(a)])
<1> PICK m, n : m = Len(a) /\ n = Len(b)
  OBVIOUS
<1>1. m \in Nat /\ n \in Nat
  BY LenProperties
<1> PICK c : c = a \o b
  OBVIOUS
<1>2. /\ c \in Seq(Schedule!LetterType) /\ Len(c) = m + n
      /\ \A i \in 1 .. m + n : c[i] = IF i <= m THEN a[i] ELSE b[i - m]
  BY ConcatProperties
<1>3. \A k \in 1..n : c[m + k] = b[k]
  <2> SUFFICES ASSUME NEW k \in 1..n PROVE c[m + k] = b[k]
    OBVIOUS
  <2>1. m + k \in 1..m + n /\ ~(m + k <= m) /\ (m + k) - m = k
    BY <1>1
  <2> QED BY <1>2, <2>1
<1>4. \A k \in 1..m + n : (k \in 1..m /\ c[k] = a[k]) \/ (k - m \in 1..n /\ c[k] = b[k - m])
  BY <1>1, <1>2
<1> QED BY <1>1, <1>2, <1>3, <1>4

LEMMA EmptyTells ==
  /\ \A k \in 1..Len(<<>>) : FALSE
  /\ <<>> \in Seq(Schedule!LetterType)
BY EmptySeq

LEMMA TimesAreNumbers ==
  Schedule!SchedulingConstants => Lead \in Nat /\ Schedule!NoTime \in Nat /\ \A i \in Times \cup {Schedule!NoTime} : i \in Nat
<1> SUFFICES ASSUME Schedule!SchedulingConstants
             PROVE  Lead \in Nat /\ Schedule!NoTime \in Nat /\ \A i \in Times \cup {Schedule!NoTime} : i \in Nat
  OBVIOUS
<1>1. Schedule!NoTime = 0
  BY DEF Schedule!NoTime
<1>2. Lead \in Nat
  BY DEF Schedule!SchedulingConstants
<1>3. Times \subseteq Nat
  <2>1. Times \subseteq Nat \ {0}
    BY DEF Schedule!SchedulingConstants
  <2>2. Nat \ {0} \subseteq Nat
    OBVIOUS
  <2> QED BY <2>1, <2>2, Zenon
<1>4. 0 \in Nat
  OBVIOUS
<1> QED BY <1>1, <1>2, <1>3, <1>4, Zenon

LEMMA NewsAndReminders ==
  ASSUME Schedule!SchedulingConstants, Schedule!TypeOK, NEW u \in Users, NEW before, NEW after \in Times \cup {Schedule!NoTime}
  PROVE  /\ \E kind \in Schedule!Outcomes : Each(Schedule!News(u, before, after), Users, kind, after)
         /\ Each(Schedule!Reminder(u, after), Users, "reminder", after)
<1>1. version \in Nat /\ now \in Nat /\ Users \in SUBSET Users
  BY DEF Schedule!TypeOK, Schedule!SchedulingConstants
<1>2. Schedule!Due(after) \in Nat
  <2>1. after \in Nat /\ Lead \in Nat
    BY TimesAreNumbers
  <2> QED BY <2>1 DEF Schedule!Due
<1>3. "reminder" \in LetterKinds /\ "accepted" \in Schedule!Outcomes /\ "changed" \in Schedule!Outcomes /\ Schedule!Outcomes \subseteq LetterKinds
  BY DEF LetterKinds, Schedule!Outcomes
<1>4. Each(Schedule!Reminder(u, after), Users, "reminder", after)
  BY <1>1, <1>2, <1>3, EachGets DEF Schedule!Reminder
<1> PICK kind : kind = IF before = Schedule!NoTime THEN "accepted" ELSE "changed"
  OBVIOUS
<1>5. kind \in Schedule!Outcomes
  BY <1>3
<1>6. Each(Schedule!ToEach(Users, kind, u, after, now), Users, kind, after)
  BY <1>1, <1>3, <1>5, EachGets
<1>7. Each(Schedule!News(u, before, after), Users, kind, after)
  BY <1>6 DEF Schedule!News
<1> QED BY <1>4, <1>5, <1>7

LEMMA PrimaryLettersTell ==
  ASSUME Schedule!SchedulingConstants, Schedule!TypeOK, NEW u \in Users, NEW instant \in Times \cup {Schedule!NoTime},
         NEW before, NEW after \in Times \cup {Schedule!NoTime}, NEW kind \in {"propose", "remove", "accept", "clear"},
         kind \in {"propose", "remove"} => after = before, kind = "clear" => after = Schedule!NoTime
  PROVE  Fresh(Schedule!PrimaryLetters(kind, u, instant, before, after))
         /\ PrimaryTells(Schedule!PrimaryLetters(kind, u, instant, before, after), before, after)
<1> PICK L : L = Schedule!PrimaryLetters(kind, u, instant, before, after)
  OBVIOUS
<1>1. version \in Nat /\ now \in Nat /\ Users \ {u} \in SUBSET Users
  BY DEF Schedule!TypeOK, Schedule!SchedulingConstants
<1>2. "proposal" \in LetterKinds /\ "proposal" \notin Telling /\ Schedule!Outcomes \subseteq Telling /\ "reminder" \notin Schedule!Outcomes
      /\ "reminder" \in Telling
  BY DEF LetterKinds, Telling, Schedule!Outcomes
<1>3. Watched \subseteq Users
  BY DEF Schedule!SchedulingConstants
<1>4. CASE kind = "propose"
  <2>1. Each(L, Users \ {u}, "proposal", instant)
    BY <1>1, <1>2, <1>4, EachGets DEF Schedule!PrimaryLetters
  <2>2. after = before
    BY <1>4
  <2>3. Fresh(L)
    BY <2>1 DEF Each, Fresh
  <2>4. PrimaryTells(L, before, after)
    BY <1>2, <2>1, <2>2 DEF Each, PrimaryTells
  <2> QED BY <2>3, <2>4
<1>5. ASSUME L = <<>>, after = before PROVE Fresh(L) /\ PrimaryTells(L, before, after)
  BY <1>5, EmptyTells DEF Fresh, PrimaryTells
<1>6. CASE kind = "accept" /\ after # before
  <2> PICK a, b : a = Schedule!News(u, before, after) /\ b = Schedule!Reminder(u, after)
    OBVIOUS
  <2>1. PICK word \in Schedule!Outcomes : Each(a, Users, word, after)
    BY NewsAndReminders
  <2>2. Each(b, Users, "reminder", after)
    BY NewsAndReminders
  <2>3. L = a \o b
    BY <1>6 DEF Schedule!PrimaryLetters
  <2>4. a \in Seq(Schedule!LetterType) /\ b \in Seq(Schedule!LetterType)
    BY <2>1, <2>2 DEF Each
  <2>5. /\ L \in Seq(Schedule!LetterType) /\ Len(a) \in Nat /\ Len(b) \in Nat
        /\ \A k \in 1..Len(a) : k \in 1..Len(L) /\ L[k] = a[k]
        /\ \A k \in 1..Len(L) : (k \in 1..Len(a) /\ L[k] = a[k])
                                  \/ (k - Len(a) \in 1..Len(b) /\ L[k] = b[k - Len(a)])
    BY <2>3, <2>4, Joined
  <2>6. Fresh(L)
    BY <2>1, <2>2, <2>5 DEF Each, Fresh
  <2>7. \A k \in 1..Len(L) : L[k].instant = after
    BY <2>1, <2>2, <2>5 DEF Each
  <2>8. ASSUME NEW p \in Watched
        PROVE  \E k \in 1..Len(L) : /\ L[k].to = p /\ L[k].kind \in Schedule!Outcomes
                                    /\ \A j \in 1..Len(L) : j # k /\ L[j].to = p => L[j].kind \notin Schedule!Outcomes
    <3>1. PICK k \in 1..Len(a) : a[k].to = p
      BY <1>3, <2>1 DEF Each
    <3>2. L[k].to = p /\ L[k].kind \in Schedule!Outcomes /\ k \in 1..Len(L)
      BY <2>1, <2>5, <3>1 DEF Each
    <3>3. ASSUME NEW j \in 1..Len(L), j # k, L[j].to = p PROVE L[j].kind \notin Schedule!Outcomes
      <4>1. CASE j \in 1..Len(a) /\ L[j] = a[j]
        BY <2>1, <3>1, <3>3, <4>1 DEF Each
      <4>2. CASE j - Len(a) \in 1..Len(b) /\ L[j] = b[j - Len(a)]
        BY <1>2, <2>2, <4>2 DEF Each
      <4> QED BY <2>5, <4>1, <4>2
    <3> QED BY <3>2, <3>3
  <2>9. PrimaryTells(L, before, after)
    BY <1>6, <2>7, <2>8 DEF PrimaryTells
  <2> QED BY <2>6, <2>9
<1>7. CASE kind = "clear" /\ before # Schedule!NoTime
  <2>1. L = Schedule!News(u, before, after) /\ after = Schedule!NoTime
    BY <1>7 DEF Schedule!PrimaryLetters
  <2>2. PICK word \in Schedule!Outcomes : Each(L, Users, word, after)
    BY <2>1, NewsAndReminders
  <2>3. Fresh(L)
    BY <2>2 DEF Each, Fresh
  <2>4. ASSUME NEW p \in Watched
        PROVE  \E k \in 1..Len(L) : /\ L[k].to = p /\ L[k].kind \in Schedule!Outcomes
                                    /\ \A j \in 1..Len(L) : j # k /\ L[j].to = p => L[j].kind \notin Schedule!Outcomes
    <3>1. PICK k \in 1..Len(L) : L[k].to = p
      BY <1>3, <2>2 DEF Each
    <3> QED BY <2>2, <3>1 DEF Each
  <2>5. \A k \in 1..Len(L) : L[k].instant = after
    BY <2>2 DEF Each
  <2>6. PrimaryTells(L, before, after)
    BY <1>7, <2>1, <2>4, <2>5 DEF PrimaryTells
  <2> QED BY <2>3, <2>6
<1>8. CASE \/ kind = "remove"
           \/ kind = "accept" /\ after = before
           \/ kind = "clear" /\ before = Schedule!NoTime
  <2>1. L = <<>> /\ after = before
    BY <1>8 DEF Schedule!PrimaryLetters
  <2> QED BY <1>5, <2>1
<1> QED BY <1>4, <1>6, <1>7, <1>8

LEMMA SecondaryLettersTell ==
  ASSUME Schedule!SchedulingConstants, Schedule!TypeOK, NEW u \in Users, NEW instant \in Times \cup {Schedule!NoTime},
         NEW before, NEW after \in Times \cup {Schedule!NoTime}, NEW kind \in {"propose", "remove", "accept", "clear"},
         kind = "clear" => after = Schedule!NoTime
  PROVE  /\ Fresh(Schedule!SecondaryLetters(kind, u, instant, before, after))
         /\ kind \in {"accept", "clear"} /\ after = before =>
              Schedule!SecondaryLetters(kind, u, instant, before, after) = <<>>
         /\ ~(kind \in {"accept", "clear"} /\ after = before) =>
              SecondaryTells(Schedule!SecondaryLetters(kind, u, instant, before, after), after)
<1> PICK L : L = Schedule!SecondaryLetters(kind, u, instant, before, after)
  OBVIOUS
<1>1. version \in Nat /\ now \in Nat /\ Users \ {u} \in SUBSET Users /\ Users \in SUBSET Users
      /\ Schedule!NoTime \in Times \cup {Schedule!NoTime}
  BY DEF Schedule!TypeOK, Schedule!SchedulingConstants
<1>2. {"proposal", "removed", "cleared"} \subseteq LetterKinds /\ {"proposal", "removed"} \cap Telling = {}
      /\ Schedule!Outcomes \subseteq Telling /\ "cleared" \in Schedule!Outcomes
  BY DEF LetterKinds, Telling, Schedule!Outcomes
<1>3. Watched \subseteq Users
  BY DEF Schedule!SchedulingConstants
<1> PICK renewed : renewed = IF after = Schedule!NoTime THEN <<>> ELSE Schedule!Reminder(u, after)
  OBVIOUS
<1>4. /\ renewed \in Seq(Schedule!LetterType)
      /\ \A k \in 1..Len(renewed) : /\ renewed[k].status = "queued" /\ renewed[k].revision = version + 1
                                    /\ renewed[k].instant = after
      /\ after # Schedule!NoTime => \A p \in Watched : \E k \in 1..Len(renewed) : renewed[k].to = p /\ renewed[k].kind = "reminder"
  <2>1. CASE after = Schedule!NoTime
    BY <2>1, EmptyTells
  <2>2. CASE after # Schedule!NoTime
    <3>1. Each(renewed, Users, "reminder", after)
      BY <2>2, NewsAndReminders
    <3>2. \A p \in Watched : p \in Users \cap Watched
      BY <1>3
    <3> QED BY <3>1, <3>2 DEF Each
  <2> QED BY <2>1, <2>2
<1>5. ASSUME NEW a, NEW S, NEW word, NEW i, Each(a, S, word, i), word \in Telling => i = after, L = a \o renewed
      PROVE  Fresh(L) /\ SecondaryTells(L, after)
  <2>1. a \in Seq(Schedule!LetterType)
    BY <1>5 DEF Each
  <2>2. /\ L \in Seq(Schedule!LetterType) /\ Len(a) \in Nat
        /\ \A k \in 1..Len(renewed) : Len(a) + k \in 1..Len(L) /\ L[Len(a) + k] = renewed[k]
        /\ \A k \in 1..Len(L) : (k \in 1..Len(a) /\ L[k] = a[k])
                                  \/ (k - Len(a) \in 1..Len(renewed) /\ L[k] = renewed[k - Len(a)])
    BY <1>4, <1>5, <2>1, Joined
  <2>3. Fresh(L)
    BY <1>4, <1>5, <2>2 DEF Each, Fresh
  <2>4. \A k \in 1..Len(L) : L[k].kind \in Telling => L[k].instant = after
    BY <1>4, <1>5, <2>2 DEF Each
  <2>5. ASSUME NEW p \in Watched, after # Schedule!NoTime PROVE \E k \in 1..Len(L) : L[k].to = p /\ L[k].kind = "reminder"
    <3>1. PICK k \in 1..Len(renewed) : renewed[k].to = p /\ renewed[k].kind = "reminder"
      BY <1>4, <2>5
    <3> QED BY <2>2, <3>1
  <2> QED BY <2>3, <2>4, <2>5 DEF SecondaryTells
<1>6. CASE kind = "propose"
  <2>1. L = Schedule!ToEach(Users \ {u}, "proposal", u, instant, now) \o renewed
    BY <1>6 DEF Schedule!SecondaryLetters
  <2>2. Each(Schedule!ToEach(Users \ {u}, "proposal", u, instant, now), Users \ {u}, "proposal", instant)
    BY <1>1, <1>2, EachGets
  <2> QED BY <1>2, <1>5, <1>6, <2>1, <2>2
<1>7. CASE kind = "remove"
  <2>1. L = Schedule!ToEach(Users \ {u}, "removed", u, Schedule!NoTime, now) \o renewed
    BY <1>7 DEF Schedule!SecondaryLetters
  <2>2. Each(Schedule!ToEach(Users \ {u}, "removed", u, Schedule!NoTime, now), Users \ {u}, "removed", Schedule!NoTime)
    BY <1>1, <1>2, EachGets
  <2> QED BY <1>2, <1>5, <1>7, <2>1, <2>2
<1>8. CASE kind = "accept" /\ after # before
  <2>1. L = Schedule!News(u, before, after) \o renewed
    BY <1>8 DEF Schedule!SecondaryLetters
  <2>2. \E word \in Schedule!Outcomes : Each(Schedule!News(u, before, after), Users, word, after)
    BY NewsAndReminders
  <2> QED BY <1>5, <1>8, <2>1, <2>2
<1>9. CASE kind = "clear" /\ after # before
  <2>1. L = Schedule!ToEach(Users, "cleared", u, Schedule!NoTime, now) /\ after = Schedule!NoTime
    BY <1>9 DEF Schedule!SecondaryLetters
  <2>2. Each(L, Users, "cleared", Schedule!NoTime)
    BY <1>1, <1>2, <2>1, EachGets
  <2>3. Fresh(L) /\ SecondaryTells(L, after)
    BY <2>1, <2>2 DEF Each, Fresh, SecondaryTells
  <2> QED BY <1>9, <2>3
<1>10. CASE kind \in {"accept", "clear"} /\ after = before
  <2>1. L = <<>>
    BY <1>10 DEF Schedule!SecondaryLetters
  <2> QED BY <1>10, <2>1, EmptyTells DEF Fresh
<1> QED BY <1>6, <1>7, <1>8, <1>9, <1>10

(* ---------------------- The steps, and the types ------------------------- *)

(* A mutation by a member whose page shows the current version.              *)
Mutated(L) ==
  /\ (\E u \in Acting : view[u].version = version
                        /\ (view' = view \/ view' = [view EXCEPT ![u] = Schedule!Current']))
  /\ proposals' \subseteq [instant : Times, by : Users \cup {Nobody}]
  /\ agreed' \in Times \cup {Schedule!NoTime} /\ version < MaxVersion
  /\ mail' = mail \o L /\ Fresh(L) /\ UNCHANGED <<now, away, silent, told>>
  /\ \/ version' = version + 1
     \/ Secondary /\ UNCHANGED <<proposals, agreed, version>> /\ L = <<>>
  /\ IF Secondary THEN version' # version => SecondaryTells(L, agreed')
                  ELSE PrimaryTells(L, agreed, agreed')
  /\ agreed' \notin {agreed, Schedule!NoTime} =>
       agreed' > now /\ \E p \in proposals : p.instant = agreed' /\ p.by \in Users

LEMMA WriteMutates ==
  ASSUME Schedule!SchedulingConstants, Schedule!TypeOK, NEW u \in Acting, view[u].version = version,
         NEW kind \in {"propose", "remove", "accept", "clear"}, NEW instant \in Times \cup {Schedule!NoTime},
         NEW listed \in SUBSET [instant : Times, by : Users \cup {Nobody}], NEW time \in Times \cup {Schedule!NoTime},
         kind \in {"propose", "remove"} => time = agreed /\ listed # proposals,
         kind \in {"accept", "clear"} => listed = proposals,
         kind = "clear" => time = Schedule!NoTime,
         time \notin {agreed, Schedule!NoTime} => time > now /\ \E p \in proposals : p.instant = time /\ p.by \in Users,
         Schedule!Write(u, kind, instant, listed, time)
  PROVE  \E L : Mutated(L)
<1> PICK L : L = IF Secondary THEN Schedule!SecondaryLetters(kind, u, instant, agreed, time)
                              ELSE Schedule!PrimaryLetters(kind, u, instant, agreed, time)
  OBVIOUS
<1>1. /\ version < MaxVersion /\ proposals' = listed /\ agreed' = time /\ mail' = mail \o L
      /\ version' = IF Schedule!Changes(listed, time) THEN version + 1 ELSE version
      /\ view' = [view EXCEPT ![u] = Schedule!Current'] \/ view' = view
      /\ UNCHANGED <<now, away, silent, told>>
  BY DEF Schedule!Write, Schedule!NextVersion
<1>2. u \in Users /\ Secondary \in BOOLEAN /\ agreed \in Times \cup {Schedule!NoTime} /\ version \in Nat
  BY DEF Schedule!SchedulingConstants, Schedule!TypeOK
<1>3. Schedule!Changes(listed, time) <=> ~Secondary \/ listed # proposals \/ time # agreed
  BY DEF Schedule!Changes
<1>4. CASE ~Secondary
  <2>1. L = Schedule!PrimaryLetters(kind, u, instant, agreed, time)
    BY <1>4
  <2>2. Fresh(L) /\ PrimaryTells(L, agreed, time)
    BY <1>2, <2>1, PrimaryLettersTell
  <2>3. version' = version + 1
    BY <1>1, <1>3, <1>4
  <2> QED BY <1>1, <1>4, <2>2, <2>3 DEF Mutated
<1>5. CASE Secondary
  <2>1. L = Schedule!SecondaryLetters(kind, u, instant, agreed, time)
    BY <1>5
  <2>2. /\ Fresh(L)
        /\ kind \in {"accept", "clear"} /\ time = agreed => L = <<>>
        /\ ~(kind \in {"accept", "clear"} /\ time = agreed) => SecondaryTells(L, time)
    <3> PICK before : before = agreed
      OBVIOUS
    <3>1. /\ Fresh(Schedule!SecondaryLetters(kind, u, instant, before, time))
          /\ kind \in {"accept", "clear"} /\ time = before =>
               Schedule!SecondaryLetters(kind, u, instant, before, time) = <<>>
          /\ ~(kind \in {"accept", "clear"} /\ time = before) =>
               SecondaryTells(Schedule!SecondaryLetters(kind, u, instant, before, time), time)
      <4>1. kind = "clear" => time = Schedule!NoTime
        OBVIOUS
      <4> QED BY <1>2, <4>1, SecondaryLettersTell
    <3> QED BY <2>1, <3>1
  <2>3. CASE kind \in {"accept", "clear"} /\ time = agreed
    <3>1. version' = version /\ proposals' = proposals /\ agreed' = agreed /\ L = <<>>
      BY <1>1, <1>3, <1>5, <2>2, <2>3
    <3> QED BY <1>1, <1>5, <2>2, <3>1 DEF Mutated
  <2>4. CASE ~(kind \in {"accept", "clear"} /\ time = agreed)
    <3>1. version' = version + 1
      BY <1>1, <1>3, <2>4
    <3> QED BY <1>1, <1>5, <2>2, <2>4, <3>1 DEF Mutated
  <2> QED BY <2>3, <2>4
<1> QED BY <1>2, <1>4, <1>5

LEMMA MutationMutates ==
  ASSUME Schedule!SchedulingConstants, Schedule!TypeOK, NEW u \in Acting, Schedule!Propose(u) \/ Schedule!Withdraw(u) \/ Schedule!Accept(u) \/ Schedule!Clear(u)
  PROVE  \E L : Mutated(L)
<1>1. /\ proposals \subseteq [instant : Times, by : Users \cup {Nobody}] /\ agreed \in Times \cup {Schedule!NoTime}
      /\ u \in Users /\ Schedule!NoTime \in Times \cup {Schedule!NoTime}
  BY DEF Schedule!TypeOK, Schedule!SchedulingConstants
<1>2. CASE Schedule!Propose(u)
  <2> PICK i \in Times : /\ Schedule!Based(u) /\ \A p \in proposals : p.instant # i
                         /\ Schedule!Write(u, "propose", i, proposals \cup {[instant |-> i, by |-> u]}, agreed)
    BY <1>2 DEF Schedule!Propose
  <2> PICK listed : listed = proposals \cup {[instant |-> i, by |-> u]}
    OBVIOUS
  <2>1. listed \in SUBSET [instant : Times, by : Users \cup {Nobody}]
    BY <1>1
  <2>2. listed # proposals
    <3>1. [instant |-> i, by |-> u].instant = i
      OBVIOUS
    <3> QED BY <3>1
  <2> QED BY <1>1, <2>1, <2>2, WriteMutates DEF Schedule!Based
<1>3. CASE Schedule!Withdraw(u)
  <2> PICK p \in view[u].proposals : /\ Schedule!Based(u) /\ p \in proposals
                                     /\ Schedule!Write(u, "remove", p.instant, proposals \ {p}, agreed)
    BY <1>3 DEF Schedule!Withdraw
  <2>1. proposals \ {p} \in SUBSET [instant : Times, by : Users \cup {Nobody}]
        /\ proposals \ {p} # proposals /\ p.instant \in Times
    BY <1>1
  <2> QED BY <1>1, <2>1, WriteMutates DEF Schedule!Based
<1>4. CASE Schedule!Accept(u)
  <2> PICK p \in view[u].proposals : /\ Schedule!Based(u) /\ p \in proposals /\ p.by # Nobody /\ Schedule!Future(p.instant)
                                     /\ Schedule!Write(u, "accept", p.instant, proposals, p.instant)
    BY <1>4 DEF Schedule!Accept
  <2>1. p.instant \in Times /\ p.by \in Users /\ p.instant > now
    BY <1>1 DEF Schedule!Future
  <2> QED BY <1>1, <2>1, WriteMutates DEF Schedule!Based
<1>5. CASE Schedule!Clear(u)
  <2>1. Schedule!Based(u) /\ Schedule!Write(u, "clear", Schedule!NoTime, proposals, Schedule!NoTime)
    BY <1>5 DEF Schedule!Clear
  <2> QED BY <1>1, <2>1, WriteMutates DEF Schedule!Based
<1> QED BY <1>2, <1>3, <1>4, <1>5

(* One letter changes, in its status or fate.                                *)
Marked(e, status) ==
  /\ Len(mail') = Len(mail) /\ mail' \in Seq(Schedule!LetterType)
  /\ mail'[e].status = status /\ (status = "sent" => mail'[e].fate = "reached")
  /\ \A f \in 1..Len(mail) : /\ mail'[f].kind = mail[f].kind /\ mail'[f].to = mail[f].to
                             /\ mail'[f].instant = mail[f].instant /\ mail'[f].revision = mail[f].revision
                             /\ f # e => mail'[f] = mail[f]

LEMMA MarkMarks ==
  ASSUME mail \in Seq(Schedule!LetterType), NEW e \in 1..Len(mail), NEW letter \in Schedule!LetterType, NEW status, letter.status = status,
         letter.kind = mail[e].kind, letter.to = mail[e].to,
         letter.instant = mail[e].instant, letter.revision = mail[e].revision,
         status = "sent" => letter.fate = "reached",
         mail' = [mail EXCEPT ![e] = letter]
  PROVE  Marked(e, status)
<1>1. mail' \in Seq(Schedule!LetterType) /\ Len(mail') = Len(mail) /\ \A f \in 1..Len(mail) : mail'[f] = IF f = e THEN letter ELSE mail[f]
  BY ExceptSeq
<1> QED BY <1>1 DEF Marked

(* Every step is one of these.                                               *)
LEMMA ScheduleSteps ==
  ASSUME Schedule!SchedulingConstants, Schedule!TypeOK, [Schedule!Next]_(Schedule!vars)
  PROVE  \/ \E L : Mutated(L)
         \/ \E u \in Acting : /\ view' = [view EXCEPT ![u] = Schedule!Current]
                              /\ UNCHANGED <<now, proposals, agreed, version, away, silent, mail, told>>
         \/ \E e \in 1..Len(mail) :
              /\ UNCHANGED <<now, proposals, agreed, version, view, away, silent>>
              /\ \/ /\ mail[e].status = "queued" /\ Schedule!Goes(e) /\ Marked(e, "sending")
                    /\ told' = IF Schedule!Tells(e) THEN [told EXCEPT ![mail[e].to] = e] ELSE told
                 \/ ~Schedule!Goes(e) /\ Marked(e, "suppressed") /\ UNCHANGED told
                 \/ mail[e].status = "sending" /\ UNCHANGED told /\ \E status \in {"sent", "queued"} : Marked(e, status)
                 \/ Marked(e, mail[e].status) /\ UNCHANGED told
         \/ /\ now' \in Nat /\ now <= now' /\ now' <= LastTime /\ away \subseteq away' /\ silent \subseteq silent'
            /\ away' \cup silent' \subseteq Users
            /\ UNCHANGED <<proposals, agreed, version, view, mail, told>>
<1>1. /\ mail \in Seq(Schedule!LetterType) /\ DOMAIN mail = 1..Len(mail) /\ Len(mail) \in Nat
      /\ now \in 0..LastTime /\ LastTime \in Nat /\ Leavers \subseteq Users /\ away \cup silent \subseteq Users
      /\ \A e \in 1..Len(mail) : mail[e] \in Schedule!LetterType
  BY LenProperties, ElementOfSeq DEF Schedule!TypeOK, Schedule!SchedulingConstants
<1>2. ASSUME NEW u \in Acting, Schedule!Propose(u) \/ Schedule!Withdraw(u) \/ Schedule!Accept(u) \/ Schedule!Clear(u) PROVE \E L : Mutated(L)
  BY <1>2, MutationMutates
<1>3. ASSUME NEW u \in Acting, Schedule!Look(u)
      PROVE  /\ view' = [view EXCEPT ![u] = Schedule!Current]
             /\ UNCHANGED <<now, proposals, agreed, version, away, silent, mail, told>>
  BY <1>3 DEF Schedule!Look
<1>4. ASSUME NEW e \in 1..Len(mail), Schedule!Check(e)
      PROVE  /\ UNCHANGED <<now, proposals, agreed, version, view, away, silent>>
             /\ \/ /\ mail[e].status = "queued" /\ Schedule!Goes(e) /\ Marked(e, "sending")
                   /\ told' = IF Schedule!Tells(e) THEN [told EXCEPT ![mail[e].to] = e] ELSE told
                \/ ~Schedule!Goes(e) /\ Marked(e, "suppressed") /\ UNCHANGED told
  <2> PICK status : status = IF Schedule!Goes(e) THEN "sending" ELSE "suppressed"
    OBVIOUS
  <2>1. PICK letter \in Schedule!LetterType :
          /\ letter.status = status /\ letter.kind = mail[e].kind /\ letter.to = mail[e].to
          /\ letter.instant = mail[e].instant /\ letter.revision = mail[e].revision
          /\ mail' = [mail EXCEPT ![e] = letter]
    <3>1. PICK letter : letter = [mail[e] EXCEPT !.status = status]
      OBVIOUS
    <3>2. mail' = [mail EXCEPT ![e] = letter]
      BY <1>4, <3>1 DEF Schedule!Check
    <3>3. /\ letter \in Schedule!LetterType /\ letter.status = status /\ letter.kind = mail[e].kind /\ letter.to = mail[e].to
          /\ letter.instant = mail[e].instant /\ letter.revision = mail[e].revision
      BY <1>1, <3>1 DEF Schedule!LetterType
    <3> QED BY <3>2, <3>3
  <2>2. status # "sent"
    OBVIOUS
  <2>3. Marked(e, status)
    BY <1>1, <2>1, <2>2, MarkMarks
  <2> QED BY <1>4, <2>3 DEF Schedule!Check
<1>5. ASSUME NEW e \in 1..Len(mail), Schedule!Send(e)
      PROVE  /\ mail[e].status = "sending" /\ \E status \in {"sent", "queued"} : Marked(e, status)
             /\ UNCHANGED <<now, proposals, agreed, version, view, away, silent, told>>
  <2> PICK end \in {"sent", "refused", "unknown"} :
        /\ mail[e].status = "sending"
        /\ mail' = [mail EXCEPT
             ![e].status = IF end = "sent" THEN "sent" ELSE "queued",
             ![e].fate = CASE end = "sent" -> "reached"
                           [] end = "unknown" /\ @ = "unsent" -> "open"
                           [] OTHER -> @]
        /\ UNCHANGED <<now, proposals, agreed, version, view, away, silent, told>>
    BY <1>5 DEF Schedule!Send
  <2> PICK status \in {"sent", "queued"} : status = IF end = "sent" THEN "sent" ELSE "queued"
    OBVIOUS
  <2> PICK fate : fate = CASE end = "sent" -> "reached"
                           [] end = "unknown" /\ mail[e].fate = "unsent" -> "open"
                           [] OTHER -> mail[e].fate
    OBVIOUS
  <2>1. mail[e] \in Schedule!LetterType
    BY <1>1
  <2>2. fate \in {"unsent", "open", "reached"} /\ (status = "sent" => fate = "reached")
    <3>1. mail[e].fate \in {"unsent", "open", "reached"}
      BY <2>1 DEF Schedule!LetterType
    <3> QED BY <3>1
  <2>3. PICK letter \in Schedule!LetterType :
          /\ letter.status = status /\ letter.kind = mail[e].kind /\ letter.to = mail[e].to /\ letter.fate = fate
          /\ letter.instant = mail[e].instant /\ letter.revision = mail[e].revision
          /\ mail' = [mail EXCEPT ![e] = letter]
    <3>1. PICK letter : letter = [[mail[e] EXCEPT !.status = status] EXCEPT !.fate = fate]
      OBVIOUS
    <3>2. /\ letter \in Schedule!LetterType /\ letter.status = status /\ letter.kind = mail[e].kind /\ letter.to = mail[e].to
          /\ letter.instant = mail[e].instant /\ letter.revision = mail[e].revision /\ letter.fate = fate
      BY <2>1, <2>2, <3>1 DEF Schedule!LetterType
    <3>3. mail' = [mail EXCEPT ![e] = letter]
      <4>1. mail' = [mail EXCEPT ![e].status = status, ![e].fate = fate]
        BY <1>1, <2>1 DEF Schedule!LetterType
      <4> QED BY <1>1, <2>1, <3>1, <4>1 DEF Schedule!LetterType
    <3> QED BY <3>2, <3>3
  <2>4. mail \in Seq(Schedule!LetterType)
    BY <1>1
  <2>5. Marked(e, status)
    BY <2>2, <2>3, <2>4, MarkMarks
  <2> QED BY <2>5
<1>6. ASSUME NEW e \in 1..Len(mail), Schedule!Arrive(e)
      PROVE  Marked(e, mail[e].status) /\ UNCHANGED <<now, proposals, agreed, version, view, away, silent, told>>
  <2> PICK letter : letter = [mail[e] EXCEPT !.fate = "reached"]
    OBVIOUS
  <2>1. mail' = [mail EXCEPT ![e] = letter] /\ UNCHANGED <<now, proposals, agreed, version, view, away, silent, told>>
    BY <1>6 DEF Schedule!Arrive
  <2>2. /\ letter \in Schedule!LetterType /\ letter.status = mail[e].status /\ letter.kind = mail[e].kind /\ letter.to = mail[e].to
        /\ letter.instant = mail[e].instant /\ letter.revision = mail[e].revision /\ letter.fate = "reached"
    BY <1>1 DEF Schedule!LetterType
  <2> QED BY <1>1, <2>1, <2>2, MarkMarks
<1>7. ASSUME Schedule!Tick \/ UNCHANGED Schedule!vars \/ \E u \in Leavers : Schedule!Leave(u) \/ Schedule!Mute(u)
      PROVE  /\ now' \in Nat /\ now <= now' /\ now' <= LastTime /\ away \subseteq away' /\ silent \subseteq silent'
             /\ away' \cup silent' \subseteq Users
             /\ UNCHANGED <<proposals, agreed, version, view, mail, told>>
  BY <1>1, <1>7 DEF Schedule!Tick, Schedule!Leave, Schedule!Mute, Schedule!vars
<1>8. CASE \E e \in DOMAIN mail : Schedule!Check(e) \/ Schedule!Send(e) \/ Schedule!Arrive(e)
  <2> PICK e \in 1..Len(mail) : Schedule!Check(e) \/ Schedule!Send(e) \/ Schedule!Arrive(e)
    BY <1>1, <1>8
  <2> QED BY <1>4, <1>5, <1>6
<1> QED BY <1>2, <1>3, <1>7, <1>8 DEF Schedule!Next

(* ----------------------------- The types --------------------------------- *)

LEMMA LettersAreTyped ==
  ASSUME Schedule!TypeOK
  PROVE  /\ Len(mail) \in Nat /\ DOMAIN mail = 1..Len(mail)
         /\ \A e \in 1..Len(mail) :
              /\ mail[e] \in Schedule!LetterType /\ mail[e].to \in Watched /\ mail[e].instant \in Times \cup {Schedule!NoTime}
              /\ mail[e].revision \in Nat /\ mail[e].status \in {"queued", "sending", "sent", "suppressed"}
<1>1. mail \in Seq(Schedule!LetterType)
  BY DEF Schedule!TypeOK
<1>2. \A e \in 1..Len(mail) : mail[e] \in Schedule!LetterType
  BY <1>1, ElementOfSeq
<1>3. \A m \in Schedule!LetterType : /\ m.to \in Watched /\ m.instant \in Times \cup {Schedule!NoTime} /\ m.revision \in Nat
                                     /\ m.status \in {"queued", "sending", "sent", "suppressed"}
  BY DEF Schedule!LetterType
<1> QED BY <1>1, <1>2, <1>3, LenProperties

LEMMA MutatedMail ==
  ASSUME Schedule!TypeOK, NEW L, Mutated(L)
  PROVE  /\ Len(mail') = Len(mail) + Len(L) /\ Len(L) \in Nat /\ mail' \in Seq(Schedule!LetterType)
         /\ \A e \in 1..Len(mail) : e \in 1..Len(mail') /\ mail'[e] = mail[e]
         /\ \A k \in 1..Len(L) : Len(mail) + k \in 1..Len(mail') /\ mail'[Len(mail) + k] = L[k]
         /\ \A e \in 1..Len(mail') : (e \in 1..Len(mail) /\ mail'[e] = mail[e])
                                     \/ (e - Len(mail) \in 1..Len(L) /\ mail'[e] = L[e - Len(mail)])
<1>1. L \in Seq(Schedule!LetterType) /\ mail' = mail \o L /\ mail \in Seq(Schedule!LetterType)
  BY DEF Mutated, Fresh, Schedule!TypeOK
<1> QED BY <1>1, Joined

LEMMA ScheduleTypes == Schedule!SchedulingConstants => (Schedule!Init => Schedule!TypeOK) /\ (Schedule!TypeOK /\ [Schedule!Next]_(Schedule!vars) => Schedule!TypeOK')
<1> SUFFICES ASSUME Schedule!SchedulingConstants PROVE (Schedule!Init => Schedule!TypeOK) /\ (Schedule!TypeOK /\ [Schedule!Next]_(Schedule!vars) => Schedule!TypeOK')
  OBVIOUS
<1>1. ASSUME Schedule!Init PROVE Schedule!TypeOK
  <2>1. Listed \subseteq [instant : Times, by : Users \cup {Nobody}]
    BY DEF Schedule!SchedulingConstants, Schedule!Entries
  <2>2. {} \subseteq [instant : Times, by : Users \cup {Nobody}]
    OBVIOUS
  <2>3. 0 \in 0..LastTime /\ 0 \in 0..MaxVersion /\ 1 \in 0..MaxVersion
    BY DEF Schedule!SchedulingConstants
  <2>4. mail \in Seq(Schedule!LetterType) /\ Len(mail) = 0
    BY <1>1, EmptySeq DEF Schedule!Init
  <2>5. told \in [Watched -> 0..Len(mail)] /\ DOMAIN view = Acting
    BY <1>1, <2>4 DEF Schedule!Init
  <2> QED BY <1>1, <2>1, <2>2, <2>3, <2>4, <2>5 DEF Schedule!Init, Schedule!TypeOK
<1>2. ASSUME Schedule!TypeOK, [Schedule!Next]_(Schedule!vars) PROVE Schedule!TypeOK'
  <2>1. /\ now \in 0..LastTime /\ version \in 0..MaxVersion /\ MaxVersion \in Nat /\ DOMAIN view = Acting
        /\ told \in [Watched -> 0..Len(mail)] /\ LastTime \in Nat /\ Len(mail) \in Nat
    BY <1>2, LettersAreTyped DEF Schedule!TypeOK, Schedule!SchedulingConstants
  <2>2. ASSUME NEW L, Mutated(L) PROVE Schedule!TypeOK'
    <3>1. version' \in 0..MaxVersion /\ DOMAIN view' = Acting
      BY <2>1, <2>2 DEF Mutated
    <3>2. mail' \in Seq(Schedule!LetterType) /\ Len(mail') = Len(mail) + Len(L) /\ Len(L) \in Nat /\ told' = told
      BY <1>2, <2>2, MutatedMail DEF Mutated
    <3>3. told' \in [Watched -> 0..Len(mail')]
      BY <2>1, <3>2
    <3> QED BY <1>2, <2>2, <3>1, <3>2, <3>3 DEF Mutated, Schedule!TypeOK
  <2>3. ASSUME NEW u \in Acting, view' = [view EXCEPT ![u] = Schedule!Current],
               UNCHANGED <<now, proposals, agreed, version, away, silent, mail, told>>
        PROVE Schedule!TypeOK'
    BY <1>2, <2>3 DEF Schedule!TypeOK
  <2>4. ASSUME NEW e \in 1..Len(mail), UNCHANGED <<now, proposals, agreed, version, view, away, silent>>,
               NEW status, Marked(e, status), told' = told \/ told' = [told EXCEPT ![mail[e].to] = e]
        PROVE Schedule!TypeOK'
    <3>1. mail' \in Seq(Schedule!LetterType) /\ Len(mail') = Len(mail)
      BY <2>4 DEF Marked
    <3>2. told' \in [Watched -> 0..Len(mail)]
      BY <2>1, <2>4
    <3> QED BY <1>2, <2>4, <3>1, <3>2 DEF Schedule!TypeOK
  <2>6. ASSUME now' \in Nat, now <= now', now' <= LastTime, away' \cup silent' \subseteq Users,
               UNCHANGED <<proposals, agreed, version, view, mail, told>>
        PROVE Schedule!TypeOK'
    <3>1. now' \in 0..LastTime
      BY <2>1, <2>6
    <3> QED BY <1>2, <2>6, <3>1 DEF Schedule!TypeOK
  <2> QED BY <1>2, <2>2, <2>3, <2>4, <2>6, ScheduleSteps
<1> QED BY <1>1, <1>2

(* -------------------- A page acts on what it shows ----------------------- *)

(* One version never stands for two schedules.                               *)
PagesAreOfTheirVersions == \A u \in Acting :
  /\ view[u].version \in Nat /\ view[u].version <= version
  /\ view[u].version = version => view[u] = Schedule!Current

LEMMA PagesStayOfTheirVersions ==
  Schedule!SchedulingConstants => /\ Schedule!Init => PagesAreOfTheirVersions
                                  /\ Schedule!TypeOK /\ PagesAreOfTheirVersions /\ [Schedule!Next]_(Schedule!vars) => PagesAreOfTheirVersions'
<1> SUFFICES ASSUME Schedule!SchedulingConstants
             PROVE  /\ Schedule!Init => PagesAreOfTheirVersions
                    /\ Schedule!TypeOK /\ PagesAreOfTheirVersions /\ [Schedule!Next]_(Schedule!vars) => PagesAreOfTheirVersions'
  OBVIOUS
<1>0. Schedule!Current.version = version /\ Schedule!Current'.version = version'
  BY DEF Schedule!Current
<1>1. ASSUME Schedule!Init PROVE PagesAreOfTheirVersions
  <2>1. version \in Nat /\ \A u \in Acting : view[u] = Schedule!Current
    BY <1>1 DEF Schedule!Init
  <2> QED BY <1>0, <2>1 DEF PagesAreOfTheirVersions
<1>2. ASSUME Schedule!TypeOK, PagesAreOfTheirVersions, [Schedule!Next]_(Schedule!vars) PROVE PagesAreOfTheirVersions'
  <2>1. version \in Nat /\ DOMAIN view = Acting
    BY <1>2 DEF Schedule!TypeOK
  <2>2. PagesAreOfTheirVersions' <=> \A u \in Acting :
          /\ view'[u].version \in Nat /\ view'[u].version <= version'
          /\ view'[u].version = version' => view'[u] = Schedule!Current'
    BY DEF PagesAreOfTheirVersions
  <2>3. ASSUME NEW L, Mutated(L) PROVE PagesAreOfTheirVersions'
    <3>1. PICK u \in Acting : view' = view \/ view' = [view EXCEPT ![u] = Schedule!Current']
      BY <2>3 DEF Mutated
    <3>2. \A w \in Acting : view'[w] = view[w] \/ view'[w] = Schedule!Current'
      BY <2>1, <3>1
    <3>3. CASE version' = version + 1
      BY <1>0, <1>2, <2>1, <2>2, <3>2, <3>3 DEF PagesAreOfTheirVersions
    <3>4. CASE UNCHANGED <<proposals, agreed, version>>
      <4>1. Schedule!Current' = Schedule!Current
        BY <3>4 DEF Schedule!Current
      <4> QED BY <1>0, <1>2, <2>1, <2>2, <3>2, <3>4, <4>1 DEF PagesAreOfTheirVersions
    <3> QED BY <2>3, <3>3, <3>4 DEF Mutated
  <2>4. ASSUME UNCHANGED <<proposals, agreed, version>>,
               view' = view \/ \E u \in Acting : view' = [view EXCEPT ![u] = Schedule!Current]
        PROVE PagesAreOfTheirVersions'
    <3>1. Schedule!Current' = Schedule!Current
      BY <2>4 DEF Schedule!Current
    <3>2. \A w \in Acting : view'[w] = view[w] \/ view'[w] = Schedule!Current'
      BY <2>1, <2>4, <3>1
    <3> QED BY <1>0, <1>2, <2>1, <2>2, <2>4, <3>1, <3>2 DEF PagesAreOfTheirVersions
  <2> QED BY <1>2, <2>3, <2>4, ScheduleSteps
<1> QED BY <1>1, <1>2

LEMMA ScheduleStepsAreBased ==
  Schedule!SchedulingConstants /\ Schedule!TypeOK /\ PagesAreOfTheirVersions /\ [Schedule!Next]_(Schedule!vars) => Schedule!ActsOnWhatIsShown /\ Schedule!AgreesOnTheFuture
<1> SUFFICES ASSUME Schedule!SchedulingConstants, Schedule!TypeOK, PagesAreOfTheirVersions, [Schedule!Next]_(Schedule!vars)
             PROVE  Schedule!ActsOnWhatIsShown /\ Schedule!AgreesOnTheFuture
  OBVIOUS
<1>1. ASSUME NEW L, Mutated(L) PROVE Schedule!ActsOnWhatIsShown /\ Schedule!AgreesOnTheFuture
  <2>1. \E u \in Acting : view[u] = Schedule!Current
    BY <1>1 DEF Mutated, PagesAreOfTheirVersions
  <2> QED BY <1>1, <2>1 DEF Mutated, Schedule!ActsOnWhatIsShown, Schedule!AgreesOnTheFuture
<1>2. ASSUME UNCHANGED <<proposals, agreed>> PROVE Schedule!ActsOnWhatIsShown /\ Schedule!AgreesOnTheFuture
  BY <1>2 DEF Schedule!ActsOnWhatIsShown, Schedule!AgreesOnTheFuture
<1> QED BY <1>1, <1>2, ScheduleSteps

(* ------------------------ The last letter is true ------------------------ *)

(* In the primary circle: no later letter of the recipient makes e obsolete. *)
Newest(e) == \A f \in 1..Len(mail) : f > e /\ mail[f].to = mail[e].to =>
  /\ mail[e].kind = "reminder" => mail[f].kind # "reminder"
  /\ mail[e].kind \in Schedule!Outcomes => mail[f].kind \notin Schedule!Outcomes

(* A letter that tells p of the session, and is not obsolete.                *)
Says(e, p) ==
  /\ mail[e].to = p /\ mail[e].kind \in Telling
  /\ Secondary => mail[e].revision = version
  /\ ~Secondary => Newest(e)

(* The one that says how things are, if there is one.                        *)
Word(e, p) == Says(e, p) /\ (~Secondary => mail[e].kind \in Schedule!Outcomes)

(* What explains that e was not sent.                                        *)
Excuse(e, p) == ~Schedule!Reached(p) \/ Schedule!Elapsed(e) \/ (Secondary /\ now >= Ends)

(* It is true of the session, and sent unless something explains that.       *)
Holds(e, p) ==
  /\ Says(e, p) /\ mail[e].instant = agreed
  /\ mail[e].status = "suppressed" => Excuse(e, p)

(* Once the word is on its way the letter checked last is a true one.        *)
Settled(e, p) ==
  /\ Holds(e, p)
  /\ mail[e].status \in {"sending", "sent"} => \E t \in 1..Len(mail) : told[p] = t /\ Holds(t, p)

(* Nothing was ever agreed, or of a secondary pair it is not now.            *)
Unspoken(p) ==
  /\ agreed = Schedule!NoTime
  /\ ~Secondary => told[p] = 0 /\ \A e \in 1..Len(mail) : mail[e].to = p => mail[e].kind \notin Telling

WordsAreKept ==
  /\ \A p \in Watched : Unspoken(p) \/ \E e \in 1..Len(mail) : Word(e, p)
  /\ \A p \in Watched : \A e \in 1..Len(mail) : Word(e, p) => Settled(e, p)
  /\ Secondary => \A e \in 1..Len(mail) : mail[e].revision <= version
  /\ \A e \in 1..Len(mail) : mail[e].status = "sent" => mail[e].fate = "reached"

LEMMA TellingIsTold == Schedule!Outcomes \subseteq Telling /\ (\A e : Schedule!Tells(e) <=> mail[e].kind \in Telling)
                       /\ Telling \cap {"proposal", "removed"} = {}
BY DEF Telling, Schedule!Tells, Schedule!Outcomes

(* What is true and not obsolete goes, unless there is an excuse.            *)
LEMMA TrueGoes ==
  ASSUME Schedule!SchedulingConstants, Schedule!TypeOK, NEW e \in 1..Len(mail), NEW p, Says(e, p), mail[e].instant = agreed
  PROVE  Schedule!Goes(e) \/ Excuse(e, p)
<1> SUFFICES ASSUME ~Excuse(e, p) PROVE Schedule!Goes(e)
  OBVIOUS
<1>1. /\ mail[e].to = p /\ mail[e].kind \in Telling /\ Schedule!Reached(p) /\ ~Schedule!Elapsed(e) /\ ~(Secondary /\ now >= Ends)
      /\ now \in Nat /\ Ends \in Nat /\ DOMAIN mail = 1..Len(mail)
  BY LettersAreTyped DEF Says, Excuse, Schedule!TypeOK, Schedule!SchedulingConstants
<1>2. CASE Secondary
  BY <1>1, <1>2 DEF Schedule!Goes, Schedule!SecondaryGoes, Says
<1>3. CASE ~Secondary
  <2>1. Newest(e) /\ mail[e].kind # "proposal" /\ (mail[e].kind \in Schedule!Outcomes \/ mail[e].kind = "reminder")
    BY <1>1, <1>3, TellingIsTold DEF Says, Telling
  <2>2. ~Schedule!Superseded(e)
    BY <1>1, <2>1 DEF Schedule!Superseded, Newest
  <2>3. Schedule!StillSo(e)
    BY <2>1 DEF Schedule!StillSo
  <2> QED BY <1>1, <1>3, <2>2, <2>3 DEF Schedule!Goes, Schedule!PrimaryGoes
<1> QED BY <1>2, <1>3

(* What goes and tells is true and not obsolete.                             *)
LEMMA GoesTrue ==
  ASSUME Schedule!SchedulingConstants, Schedule!TypeOK, WordsAreKept, NEW e \in 1..Len(mail), NEW p \in Watched,
         mail[e].to = p, mail[e].kind \in Telling, Schedule!Goes(e)
  PROVE  Says(e, p) /\ mail[e].instant = agreed
<1>1. CASE Secondary
  <2>1. Word(e, p)
    BY <1>1 DEF Schedule!Goes, Schedule!SecondaryGoes, Word, Says
  <2> QED BY <2>1 DEF WordsAreKept, Settled, Holds
<1>2. CASE ~Secondary
  <2>1. mail[e].kind # "proposal" /\ DOMAIN mail = 1..Len(mail)
    BY TellingIsTold, LettersAreTyped
  <2>2. agreed = mail[e].instant /\ ~Schedule!Superseded(e)
    BY <1>2, <2>1 DEF Schedule!Goes, Schedule!PrimaryGoes, Schedule!StillSo
  <2>3. Newest(e)
    <3>1. "reminder" \notin Schedule!Outcomes /\ "proposal" \notin Schedule!Outcomes
      BY DEF Schedule!Outcomes
    <3> QED BY <2>1, <2>2, <3>1 DEF Schedule!Superseded, Newest
  <2> QED BY <1>2, <2>2, <2>3 DEF Says
<1> QED BY <1>1, <1>2

LEMMA KeptWordsAreTrue ==
  ASSUME Schedule!SchedulingConstants, Schedule!TypeOK, WordsAreKept
  PROVE  Schedule!LastLetterIsTrue
<1> SUFFICES ASSUME NEW p \in Watched, Schedule!Reached(p), ~Schedule!Coming(p), agreed \notin 1..now,
                    Secondary => agreed # Schedule!NoTime /\ now < Ends
             PROVE  IF told[p] = 0 THEN agreed = Schedule!NoTime
                    ELSE mail[told[p]].fate = "reached" /\ mail[told[p]].instant = agreed
  BY DEF Schedule!LastLetterIsTrue
<1>1. /\ now \in Nat /\ agreed \in Nat /\ Ends \in Nat /\ Schedule!NoTime = 0 /\ Secondary \in BOOLEAN
      /\ DOMAIN mail = 1..Len(mail)
      /\ \A e \in 1..Len(mail) : mail[e].status \in {"queued", "sending", "sent", "suppressed"}
  BY LettersAreTyped DEF Schedule!TypeOK, Schedule!SchedulingConstants, Schedule!NoTime
<1>2. ASSUME NEW e \in 1..Len(mail), Holds(e, p) PROVE mail[e].status = "sent"
  <2>1. ~Excuse(e, p)
    BY <1>1, <1>2 DEF Excuse, Schedule!Elapsed, Holds
  <2>2. Schedule!Goes(e) /\ mail[e].to = p /\ Schedule!Tells(e)
    BY <1>2, <2>1, TrueGoes, TellingIsTold DEF Says, Holds
  <2>3. mail[e].status \notin {"queued", "sending"}
    BY <1>1, <2>2 DEF Schedule!Coming
  <2> QED BY <1>1, <1>2, <2>1, <2>3 DEF Holds
<1>3. CASE Unspoken(p)
  BY <1>1, <1>3 DEF Unspoken
<1>4. ASSUME NEW e \in 1..Len(mail), Word(e, p)
      PROVE  told[p] \in 1..Len(mail) /\ mail[told[p]].fate = "reached" /\ mail[told[p]].instant = agreed
  <2>1. Settled(e, p)
    BY <1>4 DEF WordsAreKept
  <2>2. mail[e].status = "sent"
    BY <1>2, <2>1 DEF Settled
  <2> PICK t \in 1..Len(mail) : told[p] = t /\ Holds(t, p)
    BY <2>1, <2>2 DEF Settled
  <2>3. mail[t].status = "sent"
    BY <1>2
  <2> QED BY <2>3 DEF WordsAreKept, Holds
<1> QED BY <1>3, <1>4 DEF WordsAreKept

LEMMA KeptAfter ==
  WordsAreKept' <=>
    /\ \A p \in Watched : Unspoken(p)' \/ \E e \in 1..Len(mail') : Word(e, p)'
    /\ \A p \in Watched : \A e \in 1..Len(mail') : Word(e, p)' => Settled(e, p)'
    /\ Secondary => \A e \in 1..Len(mail') : mail'[e].revision <= version'
    /\ \A e \in 1..Len(mail') : mail'[e].status = "sent" => mail'[e].fate = "reached"
BY DEF WordsAreKept

LEMMA SaysAfter ==
  ASSUME NEW e, NEW p
  PROVE  /\ Says(e, p)' <=>
              /\ mail'[e].to = p /\ mail'[e].kind \in Telling
              /\ Secondary => mail'[e].revision = version'
              /\ ~Secondary => \A f \in 1..Len(mail') : f > e /\ mail'[f].to = mail'[e].to =>
                   /\ mail'[e].kind = "reminder" => mail'[f].kind # "reminder"
                   /\ mail'[e].kind \in Schedule!Outcomes => mail'[f].kind \notin Schedule!Outcomes
         /\ Word(e, p)' <=> Says(e, p)' /\ (~Secondary => mail'[e].kind \in Schedule!Outcomes)
         /\ Holds(e, p)' <=>
              /\ Says(e, p)' /\ mail'[e].instant = agreed'
              /\ mail'[e].status = "suppressed" => Excuse(e, p)'
         /\ Unspoken(p)' <=>
              /\ agreed' = Schedule!NoTime
              /\ ~Secondary => told'[p] = 0 /\ \A f \in 1..Len(mail') : mail'[f].to = p => mail'[f].kind \notin Telling
<1>1. Says(e, p)' <=>
              /\ mail'[e].to = p /\ mail'[e].kind \in Telling
              /\ Secondary => mail'[e].revision = version'
              /\ ~Secondary => \A f \in 1..Len(mail') : f > e /\ mail'[f].to = mail'[e].to =>
                   /\ mail'[e].kind = "reminder" => mail'[f].kind # "reminder"
                   /\ mail'[e].kind \in Schedule!Outcomes => mail'[f].kind \notin Schedule!Outcomes
  BY DEF Says, Newest
<1>2. Word(e, p)' <=> Says(e, p)' /\ (~Secondary => mail'[e].kind \in Schedule!Outcomes)
  BY DEF Word
<1>3. Holds(e, p)' <=>
              /\ Says(e, p)' /\ mail'[e].instant = agreed'
              /\ mail'[e].status = "suppressed" => Excuse(e, p)'
  BY DEF Holds
<1>4. Unspoken(p)' <=>
              /\ agreed' = Schedule!NoTime
              /\ ~Secondary => told'[p] = 0 /\ \A f \in 1..Len(mail') : mail'[f].to = p => mail'[f].kind \notin Telling
  BY DEF Unspoken
<1> QED BY <1>1, <1>2, <1>3, <1>4

(* The letters that tell of the session stay, with the agreed time: what is  *)
(* checked now is true, and what is dropped has an excuse.                   *)
LEMMA WordsStay ==
  ASSUME Schedule!SchedulingConstants, Schedule!TypeOK, WordsAreKept, agreed' = agreed,
         Len(mail') \in Nat, Len(mail) <= Len(mail'),
         Secondary => version' = version /\ Len(mail') = Len(mail),
         \A f \in 1..Len(mail) : /\ mail'[f].kind = mail[f].kind /\ mail'[f].to = mail[f].to
                                 /\ mail'[f].instant = mail[f].instant /\ mail'[f].revision = mail[f].revision,
         \A f \in 1..Len(mail') : f \in 1..Len(mail) \/ mail'[f].kind \notin Telling,
         \A f \in 1..Len(mail') : mail'[f].status = "sent" => mail'[f].fate = "reached",
         \A p \in Watched : \A e \in 1..Len(mail) : Holds(e, p) /\ mail'[e].status = "suppressed" => Excuse(e, p)',
         \A p \in Watched : told'[p] = told[p] \/ \E t \in 1..Len(mail) : told'[p] = t /\ Holds(t, p),
         \A p \in Watched : \A e \in 1..Len(mail) : Word(e, p) /\ mail'[e].status \in {"sending", "sent"} =>
            mail[e].status \in {"sending", "sent"} \/ \E t \in 1..Len(mail) : told'[p] = t /\ Holds(t, p)
  PROVE  WordsAreKept'
<1>1. Len(mail) \in Nat /\ Schedule!Outcomes \subseteq Telling /\ "reminder" \in Telling /\ 1..Len(mail) \subseteq 1..Len(mail')
  BY LettersAreTyped DEF Telling
<1>2. ASSUME NEW p \in Watched, NEW e \in 1..Len(mail) PROVE Says(e, p)' <=> Says(e, p)
  <2>1. CASE Secondary
    BY <2>1, SaysAfter DEF Says
  <2>2. CASE ~Secondary
    <3>1. (\A f \in 1..Len(mail') : f > e /\ mail'[f].to = mail'[e].to =>
                   /\ mail'[e].kind = "reminder" => mail'[f].kind # "reminder"
                   /\ mail'[e].kind \in Schedule!Outcomes => mail'[f].kind \notin Schedule!Outcomes)
          <=> Newest(e)
      BY <1>1 DEF Newest
    <3> QED BY <2>2, <3>1, SaysAfter DEF Says
  <2> QED BY <2>1, <2>2
<1>3. ASSUME NEW p \in Watched, NEW e \in 1..Len(mail) PROVE Word(e, p)' <=> Word(e, p)
  BY <1>2, SaysAfter DEF Word
<1>4. ASSUME NEW p \in Watched, NEW e \in 1..Len(mail'), Word(e, p)' PROVE e \in 1..Len(mail)
  <2>1. mail'[e].kind \in Telling
    BY <1>4, SaysAfter
  <2> QED BY <2>1
<1>5. ASSUME NEW p \in Watched, NEW e \in 1..Len(mail), Holds(e, p) PROVE Holds(e, p)'
  <2>1. Says(e, p) /\ mail[e].instant = agreed
    BY <1>5 DEF Holds
  <2>2. Says(e, p)' /\ mail'[e].instant = agreed'
    BY <1>2, <2>1
  <2>3. mail'[e].status = "suppressed" => Excuse(e, p)'
    BY <1>5
  <2> QED BY <2>2, <2>3, SaysAfter
<1>6. ASSUME NEW p \in Watched, NEW t \in 1..Len(mail), told'[p] = t, Holds(t, p)
      PROVE  \E u \in 1..Len(mail') : told'[p] = u /\ Holds(u, p)'
  BY <1>1, <1>5, <1>6
<1>7. ASSUME NEW p \in Watched, NEW e \in 1..Len(mail), Word(e, p) PROVE Settled(e, p)'
  <2>1. Settled(e, p)
    BY <1>7 DEF WordsAreKept
  <2>2. Holds(e, p)'
    BY <1>5, <2>1 DEF Settled
  <2>3. ASSUME mail'[e].status \in {"sending", "sent"} PROVE \E t \in 1..Len(mail) : told'[p] = t /\ Holds(t, p)
    <3>1. CASE mail[e].status \in {"sending", "sent"}
      <4>1. \E t \in 1..Len(mail) : told[p] = t /\ Holds(t, p)
        BY <2>1, <3>1 DEF Settled
      <4> QED BY <4>1
    <3>2. CASE ~(mail[e].status \in {"sending", "sent"})
      BY <1>7, <2>3, <3>2
    <3> QED BY <3>1, <3>2
  <2>4. mail'[e].status \in {"sending", "sent"} => \E t \in 1..Len(mail') : told'[p] = t /\ Holds(t, p)'
    BY <1>6, <2>3
  <2> QED BY <2>2, <2>4 DEF Settled
<1>8. ASSUME NEW p \in Watched, Unspoken(p) PROVE Unspoken(p)'
  <2>1. agreed = Schedule!NoTime
    BY <1>8 DEF Unspoken
  <2>2. ASSUME ~Secondary PROVE told'[p] = 0 /\ \A f \in 1..Len(mail') : mail'[f].to = p => mail'[f].kind \notin Telling
    <3>1. told[p] = 0 /\ \A f \in 1..Len(mail) : mail[f].to = p => mail[f].kind \notin Telling
      BY <1>8, <2>2 DEF Unspoken
    <3>2. \A t \in 1..Len(mail) : ~Holds(t, p)
      BY <3>1 DEF Holds, Says
    <3> QED BY <1>1, <3>1, <3>2
  <2> QED BY <2>1, <2>2, SaysAfter
<1>9. Secondary => \A e \in 1..Len(mail') : mail'[e].revision <= version'
  BY DEF WordsAreKept
<1>10. \A p \in Watched : Unspoken(p)' \/ \E e \in 1..Len(mail') : Word(e, p)'
  BY <1>1, <1>3, <1>8 DEF WordsAreKept
<1>11. \A p \in Watched : \A e \in 1..Len(mail') : Word(e, p)' => Settled(e, p)'
  BY <1>3, <1>4, <1>7
<1> QED BY <1>9, <1>10, <1>11, KeptAfter

(* Time does not take an excuse away.                                        *)
LEMMA ExcusesStay ==
  ASSUME Schedule!SchedulingConstants, Schedule!TypeOK, now' \in Nat, now <= now', away \subseteq away', silent \subseteq silent',
         NEW e \in 1..Len(mail), mail'[e].instant = mail[e].instant, NEW p, Excuse(e, p)
  PROVE  Excuse(e, p)'
<1>1. mail[e].instant \in Nat /\ now \in Nat /\ Ends \in Nat
  <2>1. now \in 0..LastTime /\ LastTime \in Nat /\ Ends \in Nat
    BY DEF Schedule!TypeOK, Schedule!SchedulingConstants
  <2>2. \A i \in Times \cup {Schedule!NoTime} : i \in Nat
    BY TimesAreNumbers
  <2> QED BY <2>1, <2>2, LettersAreTyped
<1>2. (~Schedule!Reached(p) => ~Schedule!Reached(p)') /\ (Schedule!Elapsed(e) => Schedule!Elapsed(e)') /\ (now >= Ends => now' >= Ends)
  BY <1>1 DEF Schedule!Reached, Schedule!Elapsed
<1> QED BY <1>2 DEF Excuse

(* Nothing is said that concerns the session.                                *)
LEMMA QuietMutation ==
  ASSUME Schedule!SchedulingConstants, Schedule!TypeOK, WordsAreKept, NEW L, Mutated(L), agreed' = agreed,
         ~Secondary \/ (L = <<>> /\ version' = version)
  PROVE  WordsAreKept'
<1>1. Len(mail) \in Nat /\ now \in Nat /\ UNCHANGED <<now, away, silent, told>>
  BY LettersAreTyped DEF Mutated, Schedule!TypeOK
<1>2. /\ Len(mail') = Len(mail) + Len(L) /\ Len(L) \in Nat
      /\ \A e \in 1..Len(mail) : e \in 1..Len(mail') /\ mail'[e] = mail[e]
      /\ \A e \in 1..Len(mail') : e \in 1..Len(mail) \/ (e - Len(mail) \in 1..Len(L) /\ mail'[e] = L[e - Len(mail)])
  BY MutatedMail
<1>3. \A k \in 1..Len(L) : L[k].kind \notin Telling /\ L[k].status = "queued"
  <2>1. CASE Secondary
    BY <2>1, EmptyTells
  <2>2. CASE ~Secondary
    BY <2>2 DEF Mutated, PrimaryTells, Fresh
  <2> QED BY <2>1, <2>2
<1>4. Len(mail) <= Len(mail') /\ Len(mail') \in Nat /\ (Secondary => version' = version /\ Len(mail') = Len(mail))
  BY <1>1, <1>2, EmptyTells
<1>5. \A f \in 1..Len(mail') : /\ f \in 1..Len(mail) \/ mail'[f].kind \notin Telling
                               /\ mail'[f].status = "sent" => mail'[f].fate = "reached"
  BY <1>2, <1>3 DEF WordsAreKept
<1>6. \A p \in Watched : \A e \in 1..Len(mail) : Holds(e, p) /\ mail'[e].status = "suppressed" => Excuse(e, p)'
  BY <1>1, <1>2, ExcusesStay DEF Holds
<1> QED BY <1>1, <1>2, <1>4, <1>5, <1>6, WordsStay

(* Everybody whose letters are kept is told the time that is newly agreed.   *)
LEMMA TellingMutation ==
  ASSUME Schedule!SchedulingConstants, Schedule!TypeOK, WordsAreKept, NEW L, Mutated(L),
         IF Secondary THEN version' = version + 1 ELSE agreed' # agreed
  PROVE  WordsAreKept'
<1>1. /\ Len(mail) \in Nat /\ version \in Nat /\ Schedule!Outcomes \subseteq Telling /\ "reminder" \in Telling
      /\ \A e \in 1..Len(mail) : mail[e].revision \in Nat
  BY LettersAreTyped DEF Mutated, Schedule!TypeOK, Telling
<1>2. /\ Len(mail') = Len(mail) + Len(L) /\ Len(L) \in Nat
      /\ \A e \in 1..Len(mail) : e \in 1..Len(mail') /\ mail'[e] = mail[e]
      /\ \A k \in 1..Len(L) : Len(mail) + k \in 1..Len(mail') /\ mail'[Len(mail) + k] = L[k]
      /\ \A e \in 1..Len(mail') : (e \in 1..Len(mail) /\ mail'[e] = mail[e])
                                  \/ (e - Len(mail) \in 1..Len(L) /\ mail'[e] = L[e - Len(mail)])
  BY MutatedMail
<1>3. \A k \in 1..Len(L) : /\ L[k].status = "queued" /\ L[k].revision = version + 1
                           /\ L[k].kind \in Telling => L[k].instant = agreed'
  <2>1. CASE Secondary
    <3>1. version' # version
      BY <1>1, <2>1
    <3>2. SecondaryTells(L, agreed') /\ Fresh(L)
      BY <2>1, <3>1 DEF Mutated
    <3> QED BY <3>2 DEF Fresh, SecondaryTells
  <2>2. CASE ~Secondary
    BY <2>2 DEF Mutated, Fresh, PrimaryTells
  <2> QED BY <2>1, <2>2
<1>4. ASSUME NEW p \in Watched, NEW e \in 1..Len(mail'), Word(e, p)' PROVE e - Len(mail) \in 1..Len(L) /\ mail'[e] = L[e - Len(mail)]
  <2>1. CASE Secondary
    <3>1. mail'[e].revision = version'
      BY <1>4, <2>1, SaysAfter
    <3> QED BY <1>1, <1>2, <2>1, <3>1 DEF WordsAreKept
  <2>2. CASE ~Secondary
    <3>1. PICK k \in 1..Len(L) : L[k].to = p /\ L[k].kind \in Schedule!Outcomes
      BY <2>2 DEF Mutated, PrimaryTells
    <3>2. mail'[e].to = p /\ mail'[e].kind \in Schedule!Outcomes /\ \A f \in 1..Len(mail') : f > e /\ mail'[f].to = p => mail'[f].kind \notin Schedule!Outcomes
      BY <1>4, <2>2, SaysAfter
    <3>3. ~(Len(mail) + k > e)
      BY <1>2, <3>1, <3>2
    <3> QED BY <1>1, <1>2, <3>3
  <2> QED BY <2>1, <2>2
<1>5. ASSUME NEW p \in Watched, NEW e \in 1..Len(mail'), Word(e, p)' PROVE Settled(e, p)'
  <2>1. mail'[e].kind \in Telling /\ Says(e, p)'
    BY <1>1, <1>5, SaysAfter
  <2>2. mail'[e].status = "queued" /\ mail'[e].instant = agreed'
    BY <1>3, <1>4, <1>5, <2>1
  <2>3. Holds(e, p)'
    BY <2>1, <2>2, SaysAfter
  <2> QED BY <2>2, <2>3 DEF Settled
<1>6. ASSUME NEW p \in Watched PROVE Unspoken(p)' \/ \E e \in 1..Len(mail') : Word(e, p)'
  <2>1. CASE Secondary /\ agreed' = Schedule!NoTime
    BY <2>1, SaysAfter
  <2>2. CASE Secondary /\ agreed' # Schedule!NoTime
    <3>0. version' # version
      BY <1>1, <2>2
    <3>1. SecondaryTells(L, agreed')
      BY <2>2, <3>0 DEF Mutated
    <3>2. \A w \in Watched : \E k \in 1..Len(L) : L[k].to = w /\ L[k].kind = "reminder"
      BY <2>2, <3>1 DEF SecondaryTells
    <3> PICK k \in 1..Len(L) : L[k].to = p /\ L[k].kind = "reminder"
      BY <3>2
    <3> PICK e \in 1..Len(mail') : mail'[e] = L[k]
      BY <1>2
    <3>3. mail'[e].to = p /\ mail'[e].kind \in Telling /\ mail'[e].revision = version'
      BY <1>1, <1>3, <2>2
    <3>4. Word(e, p)'
      BY <2>2, <3>3, SaysAfter
    <3> QED BY <3>4
  <2>3. CASE ~Secondary
    <3>1. PICK k \in 1..Len(L) : /\ L[k].to = p /\ L[k].kind \in Schedule!Outcomes
                                 /\ \A j \in 1..Len(L) : j # k /\ L[j].to = p => L[j].kind \notin Schedule!Outcomes
      BY <2>3 DEF Mutated, PrimaryTells
    <3>2. PICK e : e = Len(mail) + k
      OBVIOUS
    <3>3. e \in 1..Len(mail') /\ mail'[e] = L[k]
      BY <1>2, <3>2
    <3>4. ASSUME NEW f \in 1..Len(mail'), f > e, mail'[f].to = p PROVE mail'[f].kind \notin Schedule!Outcomes
      <4>1. f - Len(mail) \in 1..Len(L) /\ mail'[f] = L[f - Len(mail)] /\ f - Len(mail) # k
        BY <1>1, <1>2, <3>2, <3>4
      <4> QED BY <3>1, <3>4, <4>1
    <3>5. "reminder" \notin Schedule!Outcomes
      BY DEF Schedule!Outcomes
    <3>6. Word(e, p)'
      BY <1>1, <2>3, <3>1, <3>3, <3>4, <3>5, SaysAfter
    <3> QED BY <3>3, <3>6
  <2> QED BY <2>1, <2>2, <2>3
<1>7. Secondary => \A e \in 1..Len(mail') : mail'[e].revision <= version'
  <2> SUFFICES ASSUME Secondary, NEW e \in 1..Len(mail') PROVE mail'[e].revision <= version'
    OBVIOUS
  <2>1. version' = version + 1 /\ (e \in 1..Len(mail) => mail[e].revision <= version)
    BY DEF WordsAreKept
  <2>2. ASSUME e \notin 1..Len(mail) PROVE mail'[e].revision = version + 1
    <3> PICK k \in 1..Len(L) : mail'[e] = L[k]
      BY <1>2, <2>2
    <3> QED BY <1>3
  <2>3. e \in 1..Len(mail) => mail'[e] = mail[e]
    BY <1>2
  <2> QED BY <1>1, <2>1, <2>2, <2>3
<1>8. \A e \in 1..Len(mail') : mail'[e].status = "sent" => mail'[e].fate = "reached"
  BY <1>2, <1>3 DEF WordsAreKept
<1> QED BY <1>5, <1>6, <1>7, <1>8, KeptAfter

LEMMA WordsStayTrue ==
  ASSUME Schedule!SchedulingConstants, Schedule!TypeOK, WordsAreKept, [Schedule!Next]_(Schedule!vars)
  PROVE  WordsAreKept'
<1>1. ASSUME NEW L, Mutated(L) PROVE WordsAreKept'
  <2>1. /\ version \in Nat
        /\ version' = version + 1 \/ (Secondary /\ agreed' = agreed /\ version' = version /\ L = <<>>)
    BY <1>1 DEF Mutated, Schedule!TypeOK
  <2>2. CASE Secondary /\ version' = version + 1
    <3>1. IF Secondary THEN version' = version + 1 ELSE agreed' # agreed
      BY <2>2
    <3> QED BY <1>1, <3>1, TellingMutation
  <2>3. CASE Secondary /\ version' # version + 1
    BY <1>1, <2>1, <2>3, QuietMutation
  <2>4. CASE ~Secondary /\ agreed' # agreed
    <3>1. IF Secondary THEN version' = version + 1 ELSE agreed' # agreed
      BY <2>4
    <3> QED BY <1>1, <3>1, TellingMutation
  <2>5. CASE ~Secondary /\ agreed' = agreed
    BY <1>1, <2>5, QuietMutation
  <2> QED BY <2>2, <2>3, <2>4, <2>5
<1>2. ASSUME NEW e \in 1..Len(mail), NEW status, Marked(e, status), UNCHANGED <<now, proposals, agreed, version, view, away, silent>>,
             \A p \in Watched : Holds(e, p) /\ status = "suppressed" => Excuse(e, p),
             \A p \in Watched : told'[p] = told[p] \/ (told'[p] = e /\ Holds(e, p)),
             \A p \in Watched : Word(e, p) /\ status \in {"sending", "sent"} => mail[e].status \in {"sending", "sent"} \/ (told'[p] = e /\ Holds(e, p))
      PROVE WordsAreKept'
  <2>1. /\ Len(mail') = Len(mail) /\ Len(mail) \in Nat /\ now \in Nat
        /\ \A f \in 1..Len(mail) : /\ mail'[f].kind = mail[f].kind /\ mail'[f].to = mail[f].to
                                   /\ mail'[f].instant = mail[f].instant /\ mail'[f].revision = mail[f].revision
                                   /\ f # e => mail'[f] = mail[f]
        /\ mail'[e].status = status /\ (status = "sent" => mail'[e].fate = "reached")
    BY <1>2, LettersAreTyped DEF Marked, Schedule!TypeOK
  <2>2. \A f \in 1..Len(mail') : mail'[f].status = "sent" => mail'[f].fate = "reached"
    BY <2>1 DEF WordsAreKept
  <2>3. ASSUME NEW p \in Watched, NEW f \in 1..Len(mail), Holds(f, p), mail'[f].status = "suppressed" PROVE Excuse(f, p)'
    <3>1. Excuse(f, p)
      BY <1>2, <2>1, <2>3 DEF Holds
    <3> QED BY <1>2, <2>1, <3>1, ExcusesStay
  <2>4. \A p \in Watched : \A f \in 1..Len(mail) : Word(f, p) /\ mail'[f].status \in {"sending", "sent"} =>
            mail[f].status \in {"sending", "sent"} \/ \E t \in 1..Len(mail) : told'[p] = t /\ Holds(t, p)
    BY <1>2, <2>1
  <2>5. \A p \in Watched : told'[p] = told[p] \/ \E t \in 1..Len(mail) : told'[p] = t /\ Holds(t, p)
    BY <1>2
  <2> QED BY <1>2, <2>1, <2>2, <2>3, <2>4, <2>5, WordsStay
<1>3. ASSUME NEW e \in 1..Len(mail), mail[e].status = "queued", UNCHANGED <<now, proposals, agreed, version, view, away, silent>>,
             Schedule!Goes(e), Marked(e, "sending"),
             told' = IF Schedule!Tells(e) THEN [told EXCEPT ![mail[e].to] = e] ELSE told
      PROVE WordsAreKept'
  <2>1. told \in [Watched -> 0..Len(mail)] /\ mail[e].to \in Watched
    BY LettersAreTyped DEF Schedule!TypeOK
  <2>2. ASSUME NEW p \in Watched, mail[e].kind \in Telling, mail[e].to = p PROVE told'[p] = e /\ Holds(e, p)
    <3>1. Says(e, p) /\ mail[e].instant = agreed
      BY <1>3, <2>2, GoesTrue
    <3>2. told'[p] = e
      BY <1>3, <2>1, <2>2, TellingIsTold
    <3> QED BY <1>3, <3>1, <3>2 DEF Holds
  <2>3. ASSUME NEW p \in Watched, ~(mail[e].kind \in Telling /\ mail[e].to = p) PROVE told'[p] = told[p] /\ ~Word(e, p)
    BY <1>3, <2>1, <2>3, TellingIsTold DEF Word, Says
  <2> QED BY <1>2, <1>3, <2>2, <2>3
<1>4. ASSUME NEW e \in 1..Len(mail), UNCHANGED <<now, proposals, agreed, version, view, away, silent>>,
             ~Schedule!Goes(e), Marked(e, "suppressed"), UNCHANGED told
      PROVE WordsAreKept'
  <2>1. \A p \in Watched : Holds(e, p) => Excuse(e, p)
    BY <1>4, TrueGoes DEF Holds
  <2> QED BY <1>2, <1>4, <2>1
<1>5. ASSUME NEW e \in 1..Len(mail), UNCHANGED <<now, proposals, agreed, version, view, away, silent>>, UNCHANGED told,
             mail[e].status = "sending", NEW status \in {"sent", "queued"}, Marked(e, status)
      PROVE WordsAreKept'
  BY <1>2, <1>5
<1>6. ASSUME NEW e \in 1..Len(mail), UNCHANGED <<now, proposals, agreed, version, view, away, silent>>, UNCHANGED told,
             Marked(e, mail[e].status)
      PROVE WordsAreKept'
  BY <1>2, <1>6 DEF Holds
<1>7. ASSUME now' \in Nat, now <= now', away \subseteq away', silent \subseteq silent',
             UNCHANGED <<agreed, version, mail, told>>
      PROVE WordsAreKept'
  <2>1. ASSUME NEW p \in Watched, NEW f \in 1..Len(mail), Holds(f, p), mail'[f].status = "suppressed" PROVE Excuse(f, p)'
    BY <1>7, <2>1, ExcusesStay DEF Holds
  <2>2. Len(mail) \in Nat
    BY LettersAreTyped
  <2>3. \A f \in 1..Len(mail') : mail'[f].status = "sent" => mail'[f].fate = "reached"
    BY <1>7 DEF WordsAreKept
  <2> QED BY <1>7, <2>1, <2>2, <2>3, WordsStay
<1>8. ASSUME UNCHANGED <<now, proposals, agreed, version, away, silent, mail, told>> PROVE WordsAreKept'
  <2>1. now' \in Nat /\ now <= now'
    BY <1>8 DEF Schedule!TypeOK
  <2> QED BY <1>7, <1>8, <2>1
<1> QED BY <1>1, <1>3, <1>4, <1>5, <1>6, <1>7, <1>8, ScheduleSteps

LEMMA NothingIsSaidYet ==
  ASSUME Schedule!SchedulingConstants, Schedule!Init
  PROVE  WordsAreKept
<1>1. Len(mail) = 0 /\ agreed = Schedule!NoTime /\ told = [u \in Watched |-> 0]
  BY EmptySeq DEF Schedule!Init
<1>2. \A e \in 1..Len(mail) : FALSE
  BY <1>1
<1> QED BY <1>1, <1>2 DEF WordsAreKept, Unspoken

(* ------------------------------ Theorems --------------------------------- *)

SchedulingInv == Schedule!TypeOK /\ PagesAreOfTheirVersions /\ WordsAreKept

LEMMA SchedulingSteps == Schedule!SchedulingConstants => (Schedule!Init => SchedulingInv) /\ (SchedulingInv /\ [Schedule!Next]_(Schedule!vars) => SchedulingInv')
<1> SUFFICES ASSUME Schedule!SchedulingConstants PROVE (Schedule!Init => SchedulingInv) /\ (SchedulingInv /\ [Schedule!Next]_(Schedule!vars) => SchedulingInv')
  OBVIOUS
<1>1. Schedule!Init => SchedulingInv
  BY ScheduleTypes, PagesStayOfTheirVersions, NothingIsSaidYet DEF SchedulingInv
<1>2. ASSUME SchedulingInv, [Schedule!Next]_(Schedule!vars) PROVE SchedulingInv'
  <2>1. Schedule!TypeOK /\ PagesAreOfTheirVersions /\ WordsAreKept
    BY <1>2 DEF SchedulingInv
  <2>2. Schedule!TypeOK' /\ PagesAreOfTheirVersions' /\ WordsAreKept'
    BY <1>2, <2>1, ScheduleTypes, PagesStayOfTheirVersions, WordsStayTrue
  <2> QED BY <2>2 DEF SchedulingInv
<1> QED BY <1>1, <1>2

(* Whoever is reached and has no letter coming got the letter that was       *)
(* checked last, and it names the time that is agreed, in both               *)
(* implementations of the schedule and for any pair, times, bound of         *)
(* proposals, overlap of deliveries and loss of answers.                     *)
THEOREM LastLettersAreTrue ==
  ASSUME Schedule!SchedulingConstants
  PROVE  Schedule!Spec => [](Schedule!TypeOK /\ Schedule!LastLetterIsTrue)
<1>1. (Schedule!Init => SchedulingInv) /\ (SchedulingInv /\ [Schedule!Next]_(Schedule!vars) => SchedulingInv')
  BY SchedulingSteps
<1>2. SchedulingInv => Schedule!TypeOK /\ Schedule!LastLetterIsTrue
  BY KeptWordsAreTrue DEF SchedulingInv
<1> QED BY <1>1, <1>2, PTL DEF Schedule!Spec

(* A schedule changes only by somebody whose page shows it, and a time is    *)
(* newly agreed only out of the proposals and in the future.                 *)
THEOREM ScheduleStepsHold ==
  ASSUME Schedule!SchedulingConstants
  PROVE  Schedule!Spec => [][Schedule!ActsOnWhatIsShown /\ Schedule!AgreesOnTheFuture]_(Schedule!vars)
<1>1. (Schedule!Init => SchedulingInv) /\ (SchedulingInv /\ [Schedule!Next]_(Schedule!vars) => SchedulingInv')
  BY SchedulingSteps
<1>2. SchedulingInv /\ [Schedule!Next]_(Schedule!vars) => [Schedule!ActsOnWhatIsShown /\ Schedule!AgreesOnTheFuture]_(Schedule!vars)
  BY ScheduleStepsAreBased DEF SchedulingInv
<1> QED BY <1>1, <1>2, PTL DEF Schedule!Spec
=============================================================================
