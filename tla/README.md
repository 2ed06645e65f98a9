# Randori Circle: specifications, model checking and proofs

Randori Circle is a Node serverless application on one SQLite-compatible
database (Turso). Small circles of engineers are paired every Sunday, schedule
a session, meet in a shared room, and get their mail through a durable outbox.
Requests, cron invocations and operator scripts run side by side. Nothing in
the code locks across an `await`, so its correctness rests on write
transactions, on predicates inside single SQL statements, on versions the
client sends back, and on leases.

The modules here model that core in TLA+, with the parts of the page and of the
operators' scripts that take part in its protocols. TLC checks them on small
instances, and TLAPS proves the results about the core for every value of the
constants.
All paths are relative to `src/`.

1. [What is assumed of the platform](#assumptions)
2. [Inventory of the system](#inventory)
3. [Modules, and how they correspond to the code](#modules)
4. [Runs, bounds and what they show](#runs)
5. [Fairness](#fairness)
6. [Proofs](#proofs)
7. [Disagreements between code and documents](#disagreements)
8. [What is not modelled](#not-modelled)
9. [Plan](#plan)

## <a name="assumptions"></a>1. What is assumed of the platform

- A write transaction (`db.transaction('write')`, `db.batch(..,'write')`) is
  serializable and atomic: it is one step of a model. A single statement
  outside a transaction is one step too.
- Two statements that are not in one transaction are two steps. Whatever a
  function keeps in local variables between them is a variable of the model
  (`task` and `sweep` in Outbox, `request` in Circles, `call` and `job` in
  AccountDeletion, `worker` in ChatRetention, `shown` and `job` in Availability
  and Pairing, `flow` in Credentials), and any other transaction may commit in between.
- An invocation may end between any two of its steps: the platform's time
  limit, a crash, or a lost connection.
- The clock of the database does not run backwards. Time is a number of ticks.

## <a name="inventory"></a>2. Inventory of the system

For each part: the state it keeps, its operations and who it interacts with,
what is hard about it, and what makes it correct.

**Email outbox** (`api/_outbox.js`, `_outbox-immediate.js`, `_outbox-identity.js`).
State: `outbox_events` with status, lease owner, token and expiry, attempts,
next attempt, retention anchor; `outbox_audit_events`. Operations: enqueue,
claim a round of due rows or one row by key, read back the claim, renew the
lease, deliver through a handler of the event type, finalize, sweep exhausted
rows, replay a dead letter, bridge rows of the outbox it replaced. Producers
enqueue inside their own transactions (pairing, schedules, reminders,
invitations, deletion). Hard: several invocations hold what they claimed while
their leases run out; the provider may accept after a timeout; a crash between
acceptance and finalization; replay and deletion against late finalization.
Correct: one outcome per claim, by its owner; a trail without gaps; delivered
means accepted; every message is settled in the end.

**Outbox retention** (`_outbox-retention.js`). State: redacted payloads, the
hourly log row. Four bounded statements, one per class of row, in an hourly
pass that any invocation may start and none need finish. Hard: redaction
against replay, account deletion and the legacy bridge. Correct: mail still
owed is intact; every settled row is redacted in the end.

**Outbox worker and its watchdog** (`handleOutboxWorker` in `ops.js`,
`_outbox-health.js`, `scripts/github-outbox-dispatch-watchdog.mjs`). State: the
time of one invocation, its log row, the dispatch runs of GitHub. Operations:
reconcile, remind, run the deletion jobs, deliver round by round, purge, redact,
answer; an hourly judgement of health. Hard: each job has a deadline, but a job
that misses it is left running; the budget must leave time to record an outcome;
the absence of alerts must mean something. Correct: outcomes have time, mail is
not held back by other jobs, neglected mail is told and served mail is not.

**Circles, memberships, ownership, active contexts** (`_member-lifecycle.js`,
`_active-circle.js`, `_circle-creation.js`, `_circle-archive.js`,
`_circle-membership.js`, `members.js`, `circles.js`). State: circles,
memberships with status and role, sessions, the circle a session works in with
a version. Operations: accept an invitation, select, leave, remove, reactivate,
transfer, make or unmake owners, create, archive. Every mutation carries the
context version its page was rendered with. Hard: what the request learnt
before its transaction is stale; two owners go at once; an archive moves the
sessions of others. Correct: a live circle has an owner; authority follows
membership; versions are never reused.

**Application administrators** (`changeAppAdmin`; sign-in copies of
`ADMIN_EMAILS`). State: `is_admin`. Hard: a sign-in writes back the flag it
read before it awaited the identity store. Correct: configured administrators
keep the flag; concurrent revocations leave one.

**Account deletion** (`_account-deletion.js`, `_account-deletion-grace.js`,
`_account-deletion-tokens.js`, `_deletion-ledger-db.js`,
`scripts/deletion-ledger.mjs`). State: requests with a due time, cancel proofs,
tombstones, a ledger in a second database. Operations: request, cancel (by
session or link), the grace job, immediate deletion, re-application after a
point-in-time restore, verification, cutover. Hard: the job works from a list
that cancellations make stale; the ledger is written after the commit; a
restore undoes deletions; clocks read before the transaction. Correct: the
schedule is honoured; a locked account does nothing; a restored database
serves only when later deletions have been applied again.

**Chat retention** (`_chat-retention.js`, `scripts/chat-retention.mjs`). State:
a control row with a generation, runs per room, cutoff and mode with leases and
cursors, legal holds, export and backup evidence. Hard: a hold placed or the
switch flipped while a worker is between its claim and its batch; an expired
lease taken over; a failed run replayed. Correct: only licensed messages go,
and the counts are what went.

**Weekly availability** (`_availability.js`, `_pairing-cycle.js`). State: a row
per cycle that fixes how undecided members are read, versioned decisions.
Operations: read, save against a version. Hard: cutoff and publication racing a
save, lost answers, several tabs, which request first writes the row of a
cycle. Correct: what a member saw is what is used.

**Weekly pairing publication** (`_pairing-publication.js`, `_circle-pairing.js`,
`_pairing-recovery.js`, `_pairing.js`, `handleWeekly` in `ops.js`). State: the
published groups with a snapshot of the decisions and the generation token,
mail intents. Operations: the Sunday job over all circles, recovery by an owner
after a grace period. Hard: both at once; circles that fail, vanish or are too
many; members who come, go or wait for deletion. Correct: published once, from
decisions that stand, told as published, and reported truthfully.

**Sign-in, sessions, recent proofs, identity linking** (`auth.js`, `_db.js`,
`_identity-linking.js`, `_password-reset.js`, `_recent-auth.js`,
`_google-oidc.js`). State: passwords, Google identities, sessions in their order
of age, recent proofs, reset rows with a token. Operations: sign-in by password
or Google, confirm, link, unlink, add or remove a password, reset, log out.
Hard: a Google sign-in is five statements; a login compares a hash and issues a
session in another transaction; a token is used twice at once; a session is
superseded while a request holds it. Correct: everybody keeps a way in, an
identity opens one account, and each change of a credential answers a proof.

**Invitations, waiting list, verified registration** (`invitations.js`,
`_invitation-create.js`, `_invite-requests.js`, `_invite-request-*.js`,
`_email-activation.js`, `_circle-membership.js`). State: invitations with a
rotating token and a count of letters, requests, activation rows, quota windows.
Hard: acceptance against revocation, expiry and a resend; a registration that is
repeated with another password while old letters lie in the mailbox; two owners
decide at once. Correct: account, membership and invitation come together or
not at all, by a link that is still good.

**Scheduling** (`_schedule.js`, `_secondary-schedule.js`, their email handlers,
`_meeting-link.js`). State: proposals and an agreed time under a version, in two
implementations; letters that are checked against the schedule before they are
sent, by invocations that nothing keeps apart. Hard: both partners act on stale
pages; a letter is delivered after what it says was overtaken, or accepted after
its call timed out. Correct: who acts was shown all of it; the letter checked
last is delivered and says what is agreed.

**Session room** (`_session-controls.js`, `_session-completion.js`,
`_meeting-link.js`). State: two receipts, a timer with roles, a link, each under
a version. Hard: both press at once, a timer is read while it runs, retries of
what was done. Correct: completion is final, time is conserved, a version that a
page shows never becomes current again.

**Code documents** (`_code-document.js`, the queue of the page). State: a merged
document with a revision, a queue per page, a snapshot that repeats the text.
Hard: merges under compare-and-swap, retention under open pages, late answers,
reloads, workspace writes that a document overtakes. Correct: no accepted edit is
lost; nothing is merged after completion.

**Secondary-circle rooms** (`_secondary-*.js`). The same room under the session
and the circle a request resolved. Hard: the session moves to another circle, or
the member leaves, between resolution and transaction. Correct: nothing is
written from outside; messages are limited.

**Submission runs** (`_execution*.js`, `data.js`). State: a lease and a quota per
account, results. Hard: a program outlives its request or its lease, the server
dies, pages type meanwhile. Correct: one lease in force per account, and no more
programs a minute than the limit; a result is stored only for the version the pair
has.

**Partner workspace** (workspace script of `index.html`, `video.js`). State: the
snapshot of a room, what a page has typed, its write in flight. Hard: a poll
answers late, two pages conflict, a page reloads. Correct: work is kept, and a
write carries only its page's own work.

**Room panels of the page** (`index.html`). State: three panels, their requests
and polls, two events between them. Hard: answers that come after the page went
on; requests given up for a newer one. Correct: a panel is not behind its user's
own write, never waits for nothing, and stays while the server grants its reads.

**AI feedback** (`ai.js`). State: consents, monthly reservations, a daily pool,
sessions. Hard: consent withdrawn while a call runs; a crash between reservation
and session. Correct: the provider is called under the consent of everybody;
quotas count sessions.

**Schema migrations** (`db/migration-runner.js`, `scripts/db-migrate.mjs`,
`scripts/turso-production-migrate.mjs`). State: ledger, schema, write lock. Hard:
overlapping runs, commits whose answer is lost, runs bound to what an operator
saw. Correct: the ledger tells the schema; a report is true; production is
rehearsed.

**Key rotation** (`_key-rotation.js`, `_credential-key-control.js`,
`scripts/credential-key-control.mjs`). State: key rings deployed one by one, the
control row, sealed letters. Hard: two instances with different rings; a key
removed while letters need it. Correct: issued letters stay openable; one key of
a version.

**Backup rehearsal and its watchdog** (`scripts/turso-backup-restore-*.mjs`,
`scripts/github-backup-restore-watchdog.mjs`). State: a private journal, write
states of two databases, the restored branch, GitHub's runs and artifacts. Hard:
a kill anywhere, requests carried out after their timeout. Correct: silence
means clean, a healthy verdict is proved, a missed drill is told.

**Catalogue** (`_catalog.js`), **suggestions** (`_exercise-suggestions.js`,
`assets/exercise-suggestions.js`), **product feedback** (`_feedback*.js`). State:
exercises with review dates and oracles; attempts, a hide list and a page; items
under four limits with paged lists. Correct: an oracle answers what the exercise
asks; times of others stay private and the page follows its room; stored items
were paid for, and pages miss nothing.

**Without a module**: pairing email dispatch, reminders, chat and video
signalling beyond `SecondaryRoom` and `ChatRetention`, profile and progress
reads, export and health, operations endpoints, the rest of the browser
application, repository gates. `PROJECT.json` gives the reason for each.

Shared state that couples the parts: `auth_sessions` (sign-in, circles,
deletion), `circle_memberships` (circles, pairing, deletion, administrators,
invitations), `outbox_events` (all producers, retention, deletion),
`auth_accounts` (everything), the receipts of a room (document, controls, link,
runs), and the database clock.

## <a name="modules"></a>3. Modules, and how they correspond to the code

`PROJECT.json` maps every definition to the lines it stands for. In brief:

| Module | Code | State and steps |
| --- | --- | --- |
| `Outbox` | `_outbox.js` | `row` and `audit` are the tables; `task[w][e]` is what invocation `w` remembers of row `e`, `sweep[w]` of its sweep; `inFlight`, `mailbox` are the provider. Each statement is an action: `ClaimRound`, `ReadClaim`, `Heartbeat`, `CallProvider`, `ReadFinalInstant`, `FinalizeWrite`, `SweepSelect`, `SweepRow`, `Replay`, `Bridge`, `DeleteAccount`, `Crash` |
| `MailPromise` | the contract with producers | owed, settled, delivered only if the provider has it; `Outbox` refines it through `Standing` |
| `OutboxRetention` | `_outbox-retention.js` | extends `Outbox` with `pass`, the hourly claim, and one action per redaction statement |
| `OutboxWorker` | `handleOutboxWorker` | the clock of one invocation, the jobs it started and those still running, rounds, the answer |
| `DispatchWatchdog` | `_outbox-health.js`, its script | the letters of one type with their claims, what the watchdog is given to see (`probe`), GitHub's newest run; `Status` is its judgement at any instant |
| `Circles` | membership, context, creation, archive | relations `joined`, `active`, `owner`; `session`, `context`; `request` holds the reads a handler makes before its transaction: `VerifyRequest`, `ReadMemberships`, `ReadContext`, then one mutation |
| `AppAdmins` | `changeAppAdmin`, sign-in copies | `admin`, `signIn` as the flag read and not yet written |
| `Credentials` | credentials and sessions | `password`, `google`, `identity`, `signedIn` (sessions by age), `proof`, `reset`; `flow[f]` is a request between two of its statements |
| `Invitations` | invitations, waiting list, registration | `invitation`, `request`, `activation` are the tables; a token is the number of its rotation; `letters` what reached a mailbox, `meant` the password each letter was sent for |
| `AccountDeletion` | deletion, grace, ledger, restore | tables, `call` and `job` as local memory, `ledger` as a second database, `backup` and `service` for the restore |
| `ChatRetention` | `_chat-retention.js` | `control`, `runs` by key, `holds`, `evidence`, `worker` |
| `Availability` | `_availability.js` | `default` (row of a cycle), `decision`, `shown` (a tab) |
| `Pairing` | publication and weekly job | extends `Availability` with `publication`, `mail`, `job`, `owner` |
| `Scheduling` | `_schedule.js`, `_secondary-schedule.js`, their letters | `proposals`, `agreed`, `version`; `view` of each page; `mail`, whose `fate` is what the provider has; `told`, the letter each member had checked last |
| `SessionRoom` | controls, completion, link | `receipt`, `controls`, `scheduled`, `link`, each page's `view`; ghosts `ran` and `overtaken` |
| `CodeDocument` | `_code-document.js` and the page's queue | `document` and `copy` are sets of edits, a merge is a union; `queue`, `saved` (of an account), `call`, `late`; `writing`, a workspace write posted or read; `frail`, edits the code does not keep |
| `SecondaryRoom` | rooms of other circles | instantiates `SessionRoom`; `context`, `held` and `seen` are the session and what a request resolved; document, messages, signals |
| `Execution` | lease, quota, provider, result | `step` of each request, `lease`, `leases`, `attempts`; `active`, the users each server runs for; `programs`, what the provider still runs |
| `Workspace` | the page and `video.js` | `log` of stored snapshots, `typed`, `page` (pending work and timers), `asked`, `posts` in flight |
| `RoomPanels` | panels of `index.html` | `server`, which may bar the participant, `page` with its requests and polls, `late` answers, the `card` of the schedule |
| `AiFeedback` | `ai.js` | `consent`, `run` (one analysis between its statements), `slot`, `usage`, `pool` |
| `Migration` | runner, local and protected tools | `db` (schema and ledger), `lock`, `staged` transactions, `run`, `rehearsed`, `trail` |
| `KeyRotation` | rings, control row, operators | `ring` per instance, `control`, `letter`, `work` of each operator |
| `Rehearsal` | backup rehearsal | `source`, `slot` (the branch), `journal`, `run`, requests that may act `late`, `report` |
| `BackupWatchdog` | its watchdog | GitHub's `runs` with artifacts, `watch`, `said` |
| `Catalogue` | `_catalog.js` | every oracle as an operator with the algorithm of the code; `shelf` and `today` for review dates |
| `Suggestions` | server rule and page | `trail` of attempts, `live` room, `stored` hide lists, `page`, `asks` in flight |
| `ProductFeedback` | `_feedback*.js` | `items`, `spent` limits, `posts` in flight, `sweep`, `reader` of pages |

`OutboxRetention` and `Pairing` are compositions: their steps interleave with
every step of the module they extend; `SecondaryRoom` composes the session room
with document, chat and membership of its circle. `Circles` keeps memberships in
full; `AppAdmins`, `AccountDeletion`, `Invitations` and `Pairing` each keep the
part of them their own code reads, with the guards of `Circles`.

Modelling conventions. A guard is the `WHERE` clause or the early return; a
refused transaction is no step, unless its answer changes what a client knows.
A transaction that is retried on contention is a later attempt of the same
action. Properties are preceded by the line or the document they come from. An
operator described as "Mutant of X" is X with a plausible bug; it is used
nowhere in the specification, and the property named for it in `PROJECT.json`
fails when it replaces X. This shows that the property can tell the code from a
broken one.

The MC modules (`MCOutbox`, `MCOutboxSafety`, `MCOutboxRetention`, `MCCircles`,
`MCAppAdmins`, `MCAuthority`, `MCAccountDeletion`, `MCRooms`, `MCParts`,
`MCWorkspace`) name model values, give constants that are functions, and state
symmetry where identities are interchangeable. `MCOutboxSafety`, `MCAuthority`,
`MCRooms` and `MCParts` explore several instances in one run, chosen by
`subject` in the initial state. The others stand still, so the state space is
the sum of theirs, not their product. A property of such a run is the
conjunction of what its component modules define (`subject = "linking" =>
Linking!EveryoneCanSignIn`); what it says is found, with its source, there.
`MCAuthority` and `MCRooms` instantiate the modules that hold the proofs, so that
the theorems hold of the very instances that are checked. An instance may serve
several subjects, one for each module in it: `Chatting!Circle!Room!` is the session
room in the secondary room in the instance `Chatting` of `PairRoomProofs`.

## <a name="runs"></a>4. Runs, bounds and what they show

Twelve runs; seven must find no error, five must find their counterexample.

| Run | Explores | Shows |
| --- | --- | --- |
| `outbox` | `contended`: 1 row, 2 invocations, 2 attempts, a lease of 1 tick, clock to 3; `replayed`: 1 attempt, 1 replay, a lease of 2; `redacting`: 1 invitation, replayable, beside the redaction pass | types; an unbroken trail; outcomes recorded only by the claim they answer; every hand-over costs an attempt; live leases end by their owner alone; settled rows stay settled; delivery anchors; `MailPromise` is implemented; owed mail keeps its address and credential |
| `outbox_liveness` | 2 rows of 2 types, 1 invocation that may crash without end | every queued message is settled |
| `outbox_retention_liveness` | 2 legacy rows, batches of 1, passes that stop early | no replaced address is bridged; every settled row is redacted in the end |
| `authority` | `circles`, `flags`; `choices`, `seasons`, `batch`, `overflow` of `Pairing`; `linking`, `resetting` of `Credentials`; `verifying`, `twice`, `inviting`, `elsewhere` of `Invitations` | who owns, administers, pairs and enters, see below |
| `deletion` | 2 owners, 2 browsers, 2 requests, a job of 2, one restore, clock to 2 | schedule, lock, tombstones, owners, ledger |
| `rooms` | `run`, `rerun` of `ChatRetention`; `pages`, `tables`, `letters`, `renewals` of `Scheduling`; `timer`, `meeting` of `SessionRoom`; `typing`, `reloading`, `sharing`, `fading` of `CodeDocument`; `typed`, `moving`, `elsewhere`, `chatting` of `SecondaryRoom`; `running`, `crowding` of `Execution` | what a pair shares: see below |
| `parts` | `two pages`, `reloads`, `fresh` of `Workspace`; `beside`, `link`, `ending` of `RoomPanels`; `feedback`; `production`, `local` of `Migration`; `rotation`, `rivals` of `KeyRotation`; `drill`, `drills`, `worker`, `mails`, `backlog`; `exams`, `shelf` of `Catalogue`; `ladder`, `browser`, `visitor` of `Suggestions`; `budgets`, `archive`, `letters` of `ProductFeedback` | parts that share nothing |
| `circles_deleted`, `admin_revoked`, `deletion_retry`, `deletion_restore`, `drawing_lost` | one property each | the counterexamples of section 7 |

`authority` checks, of `Circles`: `EveryLiveCircleHasAnOwner`,
`AuthorityFollowsMembership`, `VersionsAreNeverReused`,
`LosingTheLastCircleSignsOut`; of `AppAdmins`: `AdminsRemain`; of `Pairing`:
`PublicationsAreTrue` (tabs, snapshot, mail, job report) and `PublishedOnce`; of
`Credentials` and `Invitations`: `EntryIsWhole` (everybody has a way in;
admissions are whole) and `EntryIsEarned` (changes answer a proof; links are
honoured).

`rooms` checks `RetentionIsExact`, `DeletionsAreCounted` and
`PurgesAreLicensed` of the chat; `WhatIsShownIsTrue` (the letters checked last,
timer, versions on pages); `CodeIsKept` (edits survive, versions and snapshots
follow); `LimitsHold` (messages, one lease in force, runs per minute); and
`StepsAreDeliberate` (a schedule changes by somebody who saw all of it and to a
time that is to come; completion is final; nothing is merged after it; nothing
comes from outside a circle; results are of the current version).

`parts` checks `NothingIsLost` (a page's edits, issued letters, panels, the
journal of a rehearsal, time for outcomes), `RecordsAreTrue` (quotas, ledger and
reports of migrations, keys, panels, attestations, verdicts of the watchdogs,
oracles, suggestions, feedback) and `StepsAreLicensed` (consent, writes that are
waited for, resources of others, hide lists, letters).

In `authority`, the circles subject has 2 accounts, 2 circles, one session
each, and versions up to 2; the flags subject has 3 accounts and 2 sign-ins in
flight. `choices` has two tabs of one member and two saves, `seasons` three
cycles, `batch` the primary and one other circle with a third account, changing
members and owners, `overflow` more circles than a batch of one.

Why these bounds are enough for the cases that matter:

- *Outbox.* Every property relates a row to the invocations that claimed it.
  Rows meet only in the choice of a round (bounded by type, in the liveness
  run) and in redaction batches (two rows, batch of one). Two invocations are
  needed for a take-over; two attempts for a retry and a last attempt; the
  clock allows claim, expiry, take-over and a backoff. Instants beyond the
  horizon count as the horizon, so waiting rows become due. A replay costs one
  further lease, hence an instance of its own. Beside retention one invocation
  works at a time (`OneAtATime`): two that contend are the first instance, and
  the theorems of section 6 have no such bound. In the liveness run a message
  that was replayed is the only one (`LiveNext`).
- *Circles.* Two owners who go at once need two accounts; an archive that moves
  members needs a second circle; a stale choice needs two contexts. That one
  session per account suffices is not left to the run: the theorems of section
  6 hold for any number.
- *Credentials.* `linking`: two accounts, one subject both want, two requests in
  flight, one session each. `resetting`: one account whose deletion may be
  pending, two tokens, two passwords. The theorems hold for any number.
- *Invitations.* `verifying`: one invitation, a rotation and three
  registrations; `twice`: two invitations of one address; `inviting`: the waiting
  list over the end of a day; `elsewhere`: two owners, and an address that already
  has an account.
- *Deletion.* One open request per account and a second one after a
  cancellation; a second browser for the request in flight; two accounts that
  are both due and both owners; three instants: before, at and after the
  restore point or due time. All accounts exist from the start and at most one
  restore happens.
- *Chat.* The engine never relates two rooms except through a tenant hold,
  which the single room also exercises; two workers and two claims give
  take-over and fencing; three generations are off, on, off.
- *Pairing.* A cycle has two ticks: before the recovery grace has passed and
  after it. The job's window covers both ticks of a cycle or the second alone,
  as in GMT and BST. Two saves are needed to supersede a decision; three cycles
  to tell "first" from "adjacent". `Moving` names the one membership that
  changes, so that the rest of the circle is still there to be paired.
- *Rooms.* Both members act, each on what its page shows; the letters of one of
  them are followed to the last. Three instants give before, at and after an
  agreed time; of two letters under way at once one may end unknown and arrive late
  (`MaxUnknown`). A document needs two edits (one that depends on the other), one
  purge and two workspace writes (`MaxWrites`), one overtaken by a document or by the
  other; `sharing` has both pages of one account. A room in a secondary circle two versions of the context, three when
  its controls change; runs three requests of one account over two servers, since
  the process-wide guard does not reach the other one, and two in a minute where the
  limit is two (`crowding`). The timer is changed twice
  in four instants, with answers lost; the link twice. More changes of any of them
  are the theorems' business.
- *Parts.* A workspace conflict takes two pages and one write each in flight, a
  lost one a reload; two analyses with a limit of one meet at the limit; two
  local and three protected migration runs over three versions allow one to be
  overtaken between its look and its transaction; a key rotation needs two rings
  besides a wrong one; a rehearsal has two attempts, a write of the application
  beside it, one change by an operator and a kill anywhere; the server may refuse
  any request of a page (`Refusing`) in `beside` and `link`; the watchdogs see
  two weeks, or three cadences and one scheduled run, and `backlog` more letters than a call can claim
  (`MaxClaims` is 12 in the code). The oracles run over every case up to size 3.

Deadlock is not checked: every instance bounds its clock and its counters and
rightly stops when they are used up.

## <a name="fairness"></a>5. Fairness

Only two specifications are fair, `FairSpec` of `Outbox` (with its bounded form
`LiveSpec` in `MCOutbox`) and `RFairSpec` of `OutboxRetention`; all safety
results hold without it.

- Time passes (`WF` on `Tick`).
- Cron starts invocations for ever and the platform does not end each of them
  at the same step: `SF` on claiming a round and on each step of the sweep.
  These are enabled again and again, not continuously, because invocations
  crash; weak fairness would demand nothing.
- Once an invocation holds a claim it goes on (`WF` on the read-back, the
  final clock reading and the finalization). A provider call is bounded by an
  abort signal (`WF` on its failure), not by an answer: no fairness is assumed
  of the provider. `Crash` remains enabled throughout, so a held claim may
  still be lost any number of times; attempts are what bounds it.
- Retention: the hour passes, a pass that is due is started by some invocation,
  and its budget does not end at the same class in every hour.

Production and replay have no fairness, so what `LiveNext` holds back is never
something that was due. `ChatRetention` states no liveness: its worker runs when
an operator dispatches it. `Pairing` states none either: a cycle nobody publishes
is overdue, and the code leaves it to an owner to notice. Rooms, pages and
scripts wait for people.

## <a name="proofs"></a>6. Proofs

All theorems are for every value of the constants under an assumption about
them: that sizes are natural numbers, the no-worker value is not a worker, the
recipient of each row is an account, the primary circle has the least id, and
the like (`OutboxAssumption`, `RetentionAssumption`, `CirclesAssumption`,
`DeletionAssumption`, `ChatRetentionAssumption`, and, as hypotheses of the
theorems, `PairingConstants`, `AdminsConstants`, `CredentialsConstants`,
`InvitationsConstants`, `SchedulingConstants`, `RoomConstants`,
`SecondaryRoomConstants`, `DocumentConstants`, `ExecutionConstants`, `AiConstants`,
`KeyConstants`, `MigrationConstants`; the runs have TLC evaluate each for its
instances). One of these says more than a size: key rings are `Parsed`, as
`parseKeyRing` accepts them (the active version is the highest, no material is
there twice; `api/_key-rotation.js:126`). The way is the same everywhere: an invariant that is inductive, a lemma that sorts the steps by what
they write, one case for each kind, and the property as a consequence.

Four modules hold the proofs of several components: `MembershipProofs` extends
`Pairing` and has instances of `Invitations` (`Joining`) and `AppAdmins` (`Flags`);
`PairRoomProofs` extends `ChatRetention` and has instances of `SecondaryRoom`
(`Circle`, with the session as `Circle!Room`) and `Scheduling` (`Schedule`);
`CodeProofs` extends `CodeDocument` and has one of `Execution` (`Execute`);
`ServiceProofs` extends `AccountDeletion` and has instances of `AiFeedback`
(`Feedback`), `KeyRotation` (`Rotation`) and `Migration` (`Schema`).

**Outbox** (`OutboxProofs`, first four layers).
- Types: `TypeCorrect`. Typing is not inductive alone: the finalizing write needs
  that a delivery which came to an end has an outcome (`OutcomeKnown`). `Shape`
  is both.
- Trail: `AuditIsUnbroken`, `StaleInvocationsRecordNothing`. The invariant
  `TrailInv` relates three things that the code keeps apart: the row, its trail,
  and the memory of each invocation. A leased row's token is the position of its
  claim in the trail and that claim is the last entry (`Agree`); an invocation
  remembers a claim that is in the trail under its name (`Remembers`). Matching
  owner and token therefore means that nothing has happened since the claim.
- Promise: `DeliveredMeansAccepted`, `LeasesAreRespected`, `SettledStaysSettled`,
  and `OutboxKeepsPromise`, the refinement. `PromiseInv` adds that success is
  remembered only of accepted mail, that only recorded mail is in flight, and
  that what a sweep selected was queued at a past instant. `RowSteps` says what a
  step may do to one row, and the theorems argue over those cases.
- Accounts: `ClaimsArePaidFor`, `AnchorsFollowDueTimes`. `Paid` counts the claims
  since the last replay against `attempts`; it needs `OrderInv`, that the holder
  of a live lease knows the row's attempts and that a retry leaves some, and that
  a row is never due later than the instant it is settled at.

**Outbox retention** (`OutboxProofs`, last layer). `RetentionInv` is the invariant
of the accounts layer, a pass that has a class ahead of it, and the addresses.
`OutboxHoldsBesideRetention`: redaction, which writes outbox rows, keeps what was
proved of the outbox alone. `OwedMailKeepsAddress`, `BridgeCopiesAddresses`: the
bridge still has the address of every row it has not copied.

**Circles** (`AuthorityProofs`, first part).
- `TypeCorrect`; needs that the least other circle of an account exists, which
  comes from well-foundedness of the natural numbers.
- `LiveCirclesAreOwned`: by the invariant itself; each mutation either keeps
  the owners, or its guard names another one, or it makes one.
- `LastCircleIsLastSession`, `DeletedAreSignedOut`: sessions are issued only
  to members and accounts that are not erased, and every step that takes the
  last circle ends them. The second is about any number of sessions of one
  account; no run has it as a property.
- `RequestsComeFromMembers`: needs `RequestsAfterIssue`, a request is open only
  for a session that was once issued.
- `VersionsGrow`: needs `ContextsAfterIssue` and `SelectionFollowsMembership`:
  an archive deletes the context rows of accounts it leaves without a circle,
  and a deleted row starts again from version zero; no live session has one.

**Account deletion** (`ServiceProofs`). One invariant `Inv` for all:
types of the tables, of what the job and the requests remember and of what a
restore may bring back; pending accounts are locked, tombstones signed out, a
request ends with its account; and, for the restore, that whoever was a
tombstone at the restore point still is one. `TypeCorrect`, `AbsentStayOut`,
`AnOwnerRemains`, `LedgerHolds`; `SchedulesAreHonoured`, over the kinds of step
(`ByCall`, `ByJob`, `NothingOpens`), needs that the job's clock is not ahead
(`JobIsNotAhead`), so that what it finds due is due.

**Chat retention** (`PairRoomProofs`). `TypeCorrect`, `RunsAreExact` (holds
and runs agree, disabled means idle, completed means purged) and
`PurgesHaveLicense`. `WorkersSound` is the fence: a worker whose claim is the
latest of its run owns the row under the generation it remembers, or the row has
been freed. `RunSound` ties the lease columns of a run together.

**Availability and pairing** (`MembershipProofs`). `Shape` gives every variable its
type, and `StepCases` sorts the steps by what they touch: a publication is
always of the running cycle.
- `PairingTyped`: types, owners are members, snapshots cover their members.
- `PublicationIsOnce`: from the check of the transaction alone.
- `NothingBehindTheSnapshot`: needs `BegunWithRow`, a published cycle has begun
  and its default is written, while a save is for the coming cycle only.
- `TabsDoNotLie`: needs `TabsStand`, a tab shows a decision that is on record or
  superseded, of a cycle that has a default row at or before it; `SourceStands`
  says such a cycle is read the same way ever after. For an erased account the
  argument is another one: its tabs and publications no longer change.
- `BridgeEnds`: needs that no row is later than the coming cycle.
- `SuccessIsComplete`: needs `Accounted`, each listed circle waits, failed or is
  published, and the job does not outlive its cycle.
- `MailAgrees`: needs `BegunWithRow` again: an unpublished cycle has no members
  on record, so nobody can have been told about it.

**Credentials** (`CredentialsProofs`).
- `CredentialsTyped`: a request in flight remembers, at each of its steps, the
  account, session or subject that it read (`FlowsRemember`).
- `NobodyIsLockedOut`: `HasAWay`, `RowsAgree`, `OneAccount` are inductive
  together; no two statements of a Google sign-in may be told apart by the other
  requests in a way that breaks them. `FewSessions`: an issue makes room first.
- `CredentialsAreEarned`: what a request verified before its transaction is
  enough, because a session that a request still holds is not issued again
  (`ManagersStay`), and an answered link is not that of an open row
  (`AnsweredOnce`).

**Invitations** (`MembershipProofs`, `Joining`).
- `InvitationsTyped`: a token counts the letters sent (`InvitationsSound`), which
  is why the limit of letters bounds the tokens.
- `AdmissionsAreAlwaysWhole`: `RequestsSound` (a row with an invitation has one
  of its own, of its address), `RegistrationsSound` (the row has the password of
  the last letter) and `PeopleSound` (members and used invitations imply each
  other).
- `LinksAreAlwaysHonoured`: every way in is one of three admissions
  (`OpensLink`, `OpensGoogle`, `Joins`), and `AdmittedIs` says what each writes.

**Application administrators** (`MembershipProofs`, `Flags`).
- `TombstonesAdministerNothing`: each statement that writes the flag looks at the
  tombstone itself, so what a sign-in read before the deletion is harmless.
- `ConfiguredStays`: needs `SignInsKnowTheConfiguration`, a Google sign-in of a
  configured account never remembers "no flag".
- `SomebodyAdministers`: a revocation names another active administrator when it
  commits; a deletion cannot be that of one who is still a member. What the
  theorem excludes, a stale sign-in, is the disagreement of `admin_revoked`.

**Scheduling** (`PairRoomProofs`, `Schedule`).
- `ScheduleStepsHold`: a page of version v shows what was stored under v
  (`PagesAreOfTheirVersions`), so the comparison of versions in the transaction is
  one of everything the page showed. No clock and no letter is needed.
- `LastLettersAreTrue`: `WordsAreKept` names a letter to each watched member that
  says how things are (`Word`: of the primary store the last outcome, of the
  secondary one a letter of the current revision), or says that there is none
  because nothing was agreed (`Unspoken`). That letter waits, or was suppressed
  because the member cannot be reached or the time is over (`Excuse`), or it has
  passed its check, and then whatever passed last is true as well (`Settled`): a
  letter passes only if it still says what is so, and a mutation that makes it
  untrue queues a newer `Word`, which waits. No step assumes that letters go one at
  a time; the theorem is about the order of the checks, and none about the order of
  acceptance holds (section 7).

**Session** (`PairRoomProofs`, `Circle!Room`).
- `SessionSafe`: `TimerCounts` relates the row of the controls to the time that
  the timer really ran (`ran`); `ControlsViews` and `LinkViews` order what pages
  show before what is stored, by revision and, since the row of a link is
  deleted and begins at revision 1 again, by the schedule it was read with.
- `SessionsEnd`: each of the three handlers looks at the receipts first.

**Rooms of secondary circles** (`PairRoomProofs`, `Circle`). `CirclesAreSafe`,
`CircleStepsHold`: a step of the room is one of the session, of the document or
of the chat (`InRoom`, `InCode`, `InChat`), under an access that the transaction
itself checks, so the session's invariant holds through membership changes.
`RateHolds` is proved for windows that begin at any instant: they are counted at
the message that ends them.

**Code documents** (`CodeProofs`).
- `DocumentsAreSafe`: `Queues` (a queue in memory is empty or the stored one),
  `Idled` (what a page without a request may still hold), `EditsKept` (an edit is
  in the document, in the stored queue of an account that has one page, dropped, or
  `frail`), `Versions` (what a
  page agrees on with the document of the version it knows, for every stage of its
  request, `PageAgrees`), `Texts` (the snapshot against document and pending
  writes; `WriteSays`: a write that read a document carries its text) and `Whole` (contexts are never missing while nothing was deleted).
  Each is inductive together with those before it.
- `NothingIsMergedAfter`: from the transaction that looks at the receipts.

**Executions** (`CodeProofs`, `Execute`).
- `OneLeaseInForce`: `LeasesAreOwn` and `LeasesFollow`, of two requests of a user
  with leases the later one was given after the earlier had lapsed. Nothing is
  assumed of how long a step takes or of when a program ends.
- `RunsStayLimited`: `RunsAreCounted`, the attempts since any instant are at least
  the programs admitted since then; the count before the provider is called does
  the rest.
- `ResultsAreOfTheCurrent`, `ExecutionTypes`.

**AI feedback** (`ServiceProofs`, `Feedback`). `FeedbackInv`: types, the state of a
reservation follows the phase of its analysis (`SlotsFollow`), and the monthly
count is the cardinality of the reservations held or spent (`Counted`), so that a
reservation, a refund or a month that passes between them moves both.
- `QuotasAreExact`, and as an action property `ConsentHolds`: the consents are
  read in the statement that stores, and `SlotsFollow` is why no refund can meet
  a reservation that was spent.

**Key rotation** (`ServiceProofs`, `Rotation`). `RotationInv`: the control's
generation counts the accepted keys and its key is the newest (`ControlClimbs`);
whoever looked at the control holds an accepted key (`LooksAreTrue`: keys are
accepted for ever, so a look that is stale is still true); and what was taken away
is older than the control's key (`RetiredAreBehind`), so that a producer that
looks in its transaction cannot seal with it.
- `RotationIsSafe`. Not of `KeysInUseAreKept`, which the producers that do not
  look violate (section 7).

**Schema migrations** (`ServiceProofs`, `Schema`). `MigrationInv`: the run that
holds the lock has staged the one step from the state it inspected, even after
it was given up (`LockHolds`); each commit lengthens the ledger
(`LedgerClimbs`); and for each run at work, what its operator saw is not ahead of
the database (`Knows`), how many commits are its own (`Progress`), and what a
rehearsal attested of its source is not ahead either (`Attests`). The length of
the ledger orders the commits, so a fingerprint that matches again was never
left: that is what excludes a commit of another run between.
- `MigrationsAreSafe`: five invariants, for transactions that the server ends
  long after their runs as well.

**The compositions** (`AuthorityProofs`, second part; `RoomsProofs`). A run
chooses one part in its first state; its properties are conjunctions over the
parts. The MC modules instantiate the modules with the proofs, so each theorem of
a part is a theorem of its instances. A lemma for each instance (`ChoicesRuns`,
`LinkingRuns`, `LettersRuns`, ...) says that a behaviour of the composition either
never is about it or is a behaviour of its specification; the theorems
(`PartsAreTyped` to `EntryStaysEarned` of `authority`; `RoomsAreTyped`,
`ShownIsTrue`, `CodeStaysKept`, `LimitsAlwaysHold`, `StepsStayDeliberate` of
`rooms`) follow from these and the theorems cited. The generality is in the
theorems of the parts, these connect them to the formulas that the runs check;
that the instances meet the assumptions is what TLC evaluates
(`InstancesAreLegal`, `FlagsAreLegal`, `CredentialsAreLegal`,
`InvitationsAreLegal`).

**What stays with TLC.**
- Liveness (`EveryMessageIsSettled`, `EveryRowIsRedacted`): the prover does not
  reason about fairness and `ENABLED`.
- `DeletionsAreCounted`: a sum over the runs of a room, a fold, would need
  induction over data.
- The oracles of `Catalogue` and other recursive helpers, for the same reason.
- The run `parts`: types, `NothingIsLost`, `RecordsAreTrue` and
  `StepsAreLicensed`. Part of `RecordsAreTrue` are the oracles, so it cannot be
  proved as a whole. What these properties say of AI feedback, key rotation and
  migrations is proved above; of the pages, rehearsals, watchdogs, catalogue,
  suggestions and product feedback it is model-checked only.

## <a name="disagreements"></a>7. Disagreements between code and documents

Five have a run whose counterexample shows them (details under "findings"):

- `circles_deleted`: a Google sign-in in flight accepts an invitation for an
  account that was deleted meanwhile, so a tombstone becomes a member.
- `admin_revoked`: a Google sign-in writes back an administrator flag that was
  revoked while it awaited the identity store.
- `deletion_retry`: after a failed ledger write the user repeats the deletion
  and is told that it is done; the path documented to backfill is not reached.
- `deletion_restore`: the time in the ledger is read before the transaction,
  so a deletion that commits after the restore point may look older than it and
  is never applied again.
- `drawing_lost`: a conflicting answer about code replaces a stroke the page has
  drawn and not yet told its workspace of.

Others are known and have no run:

- `docs/SYSTEM_DESIGN.md:946` lists a circle limit as enforced; acceptance of an
  invitation and reactivation do not count circles, and an account past the
  limit cannot list its circles.
- The comment at `api/_member-lifecycle.js:598` expects the last administrator
  to stay a member; leaving and deactivation do not look at it.
- `api/_outbox-retention.js:30` claims its clock order of every terminal row; an
  account deletion suppresses rows whose next attempt lies in the future, and
  does not count their retention from the instant it settles them at. The effect
  is later redaction; `DeliveryAnchors` is therefore stated of what delivery or
  the sweep settled.
- `docs/SYSTEM_DESIGN.md:463` says that candidates have an explicit Available
  decision; the code pairs undecided members by the cycle's default, as
  `docs/EXPLICIT_CYCLE_AVAILABILITY.md` says.
- A secondary circle whose members all wait for deletion is listed, refused
  (`CIRCLE_PAIRING_NO_PARTICIPANTS`), and makes every run of the weekly job in
  that time answer 503 (`JobFails` covers it as a failure).
- `docs/FEEDBACK.md:45` calls the limits of feedback rolling; the windows of the
  code are fixed, so twice the limit fits around a boundary.
- `docs/KEY_ROTATION.md:108` takes a count of zero as licence to remove a key; an
  approval that looked at the accepted key before (`api/_invite-request-api.js:192-203`)
  may still seal a letter with it. `IssuedStayOpenable` excepts such letters.
- `api/ops.js:105-110` says that a deletion job that hangs never blocks delivery;
  when reconciliation and planning were slow too, that invocation delivers
  nothing. `MailIsNotHeldBack` states what holds otherwise. A legacy
  reconciliation that fails answers 503 and stops all delivery; retention starves
  while invocations are always late.

What the code does and no document denies, excepted by name in the properties:

- A letter of a secondary schedule that a time was cleared or accepted is
  suppressed when somebody proposes before it goes out
  (`api/_secondary-schedule-email.js:150`); renewed reminders go out again.
- A handler checks the schedule and then awaits the provider, and two invocations may
  do so at once: a letter that was checked before the schedule changed may be
  accepted after the one that tells of the change. `LastLetterIsTrue` is about the
  letter that was checked last. So are the licences of feedback letters: one may
  reach an administrator who switched mail off, or was dismissed, during the call
  (`LettersAreLicensed` says that there was a moment, since it was queued, for each
  of the two checks).
- A program may run on at the provider when its request failed, its server died or its
  sandbox was not deleted (`api/_execution.js:189`), and a request may be slower than
  its lease (`api/data.js:2569`): then a second program of the same user runs beside
  it. `OneUnderLease` says that one of the two is left over.
- Three kinds of edit are `frail` in `CodeDocument` until a document has them: code
  typed into the workspace before the document is open, which is overruled when a
  partner's page creates the document first (`api/video.js:492-513`) or when another
  page posts its own again after a conflict (`index.html:15130-15137`), and edits in
  two pages of one account, each of which writes the stored queue without reading
  the other's (`assets/crdt-editor-source.js:109`). A sign-out or another circle
  drops what was not sent; so do ninety days.
- A read that the server refuses (401, 403, 404) closes the controls and the link,
  while the workspace stays; `PanelsAreThere` excepts the controls after one.
- The watchdog of mail alerts on a backlog although calls of the worker come in time,
  when they fail in their preparation or reach their limit: `ServedMailIsQuiet` is
  about calls that came to the end of the queue.
- A sign-in that compared the old password may issue its session after a reset
  (`api/auth.js:877`, `api/_db.js:279`); `EntryIsEarned` looks at the proofs of
  changes, not at it.
- A poll of the meeting link aborts the link its participant is saving
  (`index.html:16058`); an answer that comes after the pair cache changed is
  dropped; joining a hydrated room once more resets panels that nothing loads
  again (`index.html:14963`); the dashboard may redraw an older schedule; a first
  load of the link that failed waits for an event.
- A page whose first write to a room without a snapshot conflicts sends the
  content it never touched once more, over what its partner stored
  (`UntouchedNeverOverwrites` of `Workspace` is violated there and checked nowhere).
- A write-state request of the rehearsal that timed out may be carried out after
  the state was confirmed restored, and the monitor reads healthy
  (`ghost.overtaken`). An operator's own block is undone. A rerun of a drill keeps
  its creation time, so the watchdog may call it stuck, and is silent while a new
  drill runs.
- Providers that fail every attempt raise no alert of the mail watchdog.
- The panel of suggestions shows the old member's view from a direct change of
  account until the answer; two answers of one key may cross; a hide of a second
  tab may be overwritten by a pruning one.
- The daily pool of AI calls may be passed by calls that run at once
  (`api/ai.js:731`); a crash between reservation and session costs its user a
  monthly call.
- Two racing posts of one feedback key both spend their limits, and a refusal by
  the address's limit spends the member's.
- A Google sign-in that dies between two statements leaves `google_sub` without an
  identity row, and one in flight may undo an unlink (`api/auth.js:1446-1530`).
- No job deletes the documents of secondary rooms when they expire.

## <a name="not-modelled"></a>8. What is not modelled

Within the modelled parts:

- Panels: the running clock of the timer, forms. Mail watchdog: the pages of the
  list of runs.
- Outbox: the deadline arithmetic of an invocation (it may stop anywhere), the
  number of rows a round takes per type, the text of messages.
- Retention: the 30-day age of legacy rows (all of them are that old).
- Circles: rosters and their cursors, audit rows, freshness of recent
  authentication, receipts of creation and archive, demo accounts.
- Deletion: contents of scrubbed tables, the request link before its use, demo
  accounts, ledger purge, export from a source that survives the restore,
  accounts created after the restore point. A missed ledger entry needs the
  operator's backfill, which is modelled.
- Chat: the heartbeat that only tests call, the read-only preview, future or
  corrupt timestamps beyond a failure that is not retryable, redaction of
  messages by an account deletion. Room-to-tenant mappings are never removed.
- Pairing: which division the seeded search prefers (any valid division is
  allowed), unmanaged weeks of the legacy schema, a change of the configured
  time zone, the arithmetic of boundaries across clock changes, owners of the
  loopback scope, the retentions the job runs first (a failure of the code
  document purge ends it before it begins). One invocation of the job ends
  within the cycle it was admitted in. The order of circles in a batch is left
  open.

- Credentials: attempt throttles, the email-hash observation of a Google identity,
  the lifetime of cookies, tombstones (`AccountDeletion` has them).
- Invitations: the minute between two letters, throttles, the delivery of letters
  and owner digests, an acceptance by a Google account of another address. The
  daily windows end at once (`NextDay`).
- Scheduling: legacy agreed times, calendars and time zones. Session room: the recap page.
- Code documents: the document as text; the legacy queues and drafts that a page
  takes over. Workspace: idempotent replay, snapshots before schema version
  3, tabs that talk over a BroadcastChannel.
- Execution: sandbox, attestation, smoke probe. AI feedback: models, evidence,
  demo accounts.
- Migrations: definitions of tables, age and identity of the attestation; a write
  transaction that opens after its timeout never closes. Key rotation: one purpose
  alone, restored backups, envelopes that were tampered with.
- Rehearsal: signatures, ages of evidence, formats. Catalogue: texts, hashes,
  licences. Suggestions: unverifiable runs, limits on stored runs. Feedback:
  votes, the switch of the whole feature, redaction, validation; nothing of the repository closes an item, so
  closing is an input.
- Limits nobody claims: the circle limit where memberships are accepted
  (`api/_active-circle.js:160`), blocked deletion requests that fill a job's
  `LIMIT` (`api/_account-deletion-grace.js:616`), the window of the weekly job west
  of UTC (`api/_pairing-cycle.js:148`).

Whole parts without a module are listed in section 2 and in `PROJECT.json`.

## <a name="plan"></a>9. Plan

The modules of sections 3 and 4 are done, and so are the proofs of section 6:
every safety property of the runs `outbox`, `authority`, `deletion` and `rooms` is
a theorem, except for `DeletionsAreCounted`, and so are the parts of `parts` that
are about AI feedback, key rotation and migrations. In order of what matters
most, the theorems that follow:

1. `Workspace`: a page's edits reach the store, through conflicts and reloads.
2. `Rehearsal`: what a drill changes is in its journal before it is changed.
3. `RoomPanels`: who was answered for a write sees nothing older than that answer.

Then what is still without a module: reminders and pairing email as producers
and handlers of the outbox, the data export beside a deletion.
