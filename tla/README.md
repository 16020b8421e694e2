# Codex Reset Observatory: a TLA+ model of its collection pipeline

The observatory shows when the usage limits of Codex were reset. It learns of
resets in two ways: from posts on X that a browser extension collects, and from
the usage of an account that a local monitor reads. Both ways are chains of
small programs that fail, restart and repeat themselves, and the database at
the end must not count one event twice nor miss one. That is what is modelled
here, with the names that are generated for the events; the web pages,
forecasts and reports on top of it are not.

Paths below are relative to the repository's root.

## 1. Inventory

| Component (source) | State it keeps | Operations | Hard |
|---|---|---|---|
| **Usage monitor: lock** (`tools/codex-usage-monitor-persistence.ts`) | `pending-posts.json.lock`, `.lock.recovery` | acquire, judge an owner, displace a stale lock, release | crashes between file operations, reused pids, unreadable or shifted start times |
| **Usage monitor: outbox and candidate** (`tools/codex-usage-monitor.ts`, `-persistence.ts`, `-recovery-candidate.ts`) | `pending-posts.json`, `pending-recovery-candidate.json`, a snapshot state per app-server session | refresh, confirm in two looks, enqueue, deliver the oldest, restore | crash between two files, failed writes, late requests, refreshes that outlive their session |
| **Usage monitor: cadence** (`tools/codex-usage-monitor.ts`) | times of the last reading and post | poll, heartbeat | sums of timeouts against the server's gap |
| **Extension service worker** (`extension/tibo-monitor/service-worker.js`) | pending tweets, processed ids, quarantine, queue and ledger of source contexts (`chrome.storage.local`); promise chains in memory | post, alarm retry, explicit retry, clear quarantine, enrich | the worker is stopped at any time; read, await, write on shared lists |
| **Extension content script** (`content.js`, `scan-utils.js`) | ids handled in this tab, leader tab in storage | scan, post, leader election | several tabs |
| **Tibo webhook** (`app/api/webhook/tibo/route.ts`, `lib/radar/tibo*`, SQL) | `tibo_signals` with contexts, revisions, generation and marker | classify (rules, Gemini), merge contexts, compare-and-set, claim adoption, confirm a recovery, merge into its estimate | concurrent deliveries around a slow classification; failures between the steps |
| **Formal adoption ledger** (`supabase/migrations/*formal_adoption*`) | adopted reset events, identities of posts | claim | claims in any order through different identities |
| **Codex usage webhook** (`app/api/webhook/codex-usage/route.ts`, `lib/codexUsage*.ts`, SQL RPC) | current state, observations, estimates of resets | evaluate, look for evidence, atomic write, re-evaluate once when stale, claim | replayed, late and concurrent requests |
| **Reset display names** (`lib/radar/resetDisplayName*.ts`, `monitorResetCopyGeneration.ts`, SQL) | candidates for names, names of events | seed, claim, generate, promote, name an event, override | runs that overlap around seconds of generation, reclassified notices, stale claims |
| Extension heartbeat and monitor health (`lib/radar/heartbeat.ts`) | last heartbeat | record, judge | clock comparison |
| Radar aggregation (`lib/radarFetch.ts`) | caches | fetch, invalidate | - |
| Monitor host for Windows (`apps/codex-usage-monitor`) | child process | start, stop | - |
| Probability models, pages, translations, reports, scripts | - | - | - |

How they interact: content scripts send tweets and the contexts they see of
them to the service worker by message; the worker posts them to the Tibo
webhook over HTTP. The usage monitor reads the account from a Codex app-server
process and posts snapshots to the codex-usage webhook. The two webhooks meet in
the database: a recovery the monitor has seen and a post that announces it are
one event, whichever comes first, and both claim it in the ledger. The
reconciler, started on a schedule, and the webhooks name what they find there.
Monitors of one user share files, and the lock is all that keeps them apart.

What makes each correct:

- lock: one holder; its lock file is its own while it holds it; a live owner is
  never displaced; a dead one is, without an operator, unless it died inside
  the recovery gate;
- outbox and candidate: what was saved is delivered, in the order of
  observation; evidence is confirmed once or dropped for good, also across a
  crash; memory and file agree between turns (all this but for evidence that
  strays between two sessions, finding 2);
- cadence: how far two readings that the server compares may be apart (the
  documented ten minutes do not hold, finding 1);
- service worker: no tweet and no context forgotten; sends bounded, for each
  payload a tweet is seen with; nothing taken as processed that the server did not
  accept; no tweet held up for ever;
- contexts: under a marker stands no classification begun before the last change
  that counted; one made with the contexts was made with all the post has, each
  left out for what it says or as recent as the last change that was followed;
- ledger: one reset is adopted once, and what is adopted never shrinks;
- usage webhook: snapshots count once and in order, each recovery is read off
  two snapshots that follow each other and becomes one event;
- Tibo webhook: a recovery and the first post about it are one event, announced
  once (later posts are not merged, finding 3);
- names: a name fits the kind of its reset, none is taken away, and a worker that
  was overtaken stores nothing over a later outcome.

## 2. Modules

| Module | Kind | Models |
|---|---|---|
| `MonitorLock` | component | lock file and recovery gate, one file system call per action |
| `MCMonitorLock` | model values | three starts of a monitor, the third with the pid of the first |
| `MonitorLockProofs` | proofs | types, exclusion, lease on disk, no displacement, orphaned gates |
| `MonitorCadence` | component | poll, reading and heartbeat over a clock |
| `MonitorCadenceProofs` | proofs | how far apart two readings may be, for all constants |
| `MonitorOutbox` | component | process, sessions, refresh, both files, delivery; the server as environment |
| `MonitorOutboxProofs` | proofs | types and every safety property of the run; the monitor is as `CodexUsage` assumes it, but for recoveries that strayed |
| `UsageLedger` | abstract specification | what the usage webhook promises to the monitor |
| `CodexUsage` | component | the usage webhook's requests and its database function, fed by the monitor; refines `UsageLedger` |
| `TiboWebhook` | composition | extends `CodexUsage`: deliveries of posts on the same tables |
| `MCTiboWebhook` | model values | symmetry, view |
| `TiboWebhookProofs` | proofs | of both webhooks: types, the refinement of `UsageLedger`, no recovery lost, each an event; announced once, confirmed for good, followers join and one is merged |
| `FormalAdoption` | component | the table of adopted events and the function that claims one |
| `MCFormalAdoption` | model values | symmetry of tweets and events |
| `FormalAdoptionProofs` | proofs | types and every property of the run; with posts of one id, the ledger of the webhooks |
| `TiboOutbox` | component | the service worker's delivery of tweets; the server as environment |
| `TiboOutboxProofs` | proofs | types, nothing forgotten, nothing taken as processed, sends bounded |
| `TiboContext` | composition | source contexts: the worker's queue and ledger, the webhook's requests, the row and its triggers |
| `MCTiboContext` | model values | a parent and two candidates for the quote |
| `TiboContextProofs` | proofs | types and every property of the run |
| `DisplayNames` | component | candidates and names, the reconciler's runs, the webhook's naming, the operator |
| `MCDisplayNames` | model values | symmetry, view |
| `DisplayNamesProofs` | proofs | types and every property of the run |

**MonitorLock.** A run is one start of a monitor process; `pc` says before which
file operation of `acquirePendingMonitorPostLock` it stands. `lock` and `gate`
are the two files with the owner and times they record. The lock appears whole
(hard link of a complete file); the gate appears empty (`open` with `wx`) and is
written after, so another monitor may see it empty. `PidLive` is
`process.kill(pid, 0)`: it sees the pid, not the run, and a later run may have
the pid of an earlier one. `ProcessStart` is what `/proc` tells: the true start
plus the wall clock's `step`, since it is computed from `btime`. With `Faults`
a file operation may fail and a start time may be unreadable. `ClearGate` is
the operator who follows `docs/codex-usage-monitor.md` with all monitors
stopped. Lock records of the first schema (without a start time) and corrupt
lock files only end an acquisition, and are left out.

**MonitorOutbox.** `outbox` and `candFile` are the files and, because they are
saved before they are assigned, also their copies in the process. `mem[s]` is
`monitorSnapshotState` of session `s`; `op[s]` a refresh whose reading is done
and that waits for its turn in `withExclusive`; `call` the HTTP request a turn
awaits. A snapshot is a time, a usage level (a recovery is a step up; a return
to another level stands for a usage or a reset schedule that contradicts the
first evidence) and a plan. `RunRefresh` is a whole turn: `Evaluate`
(`evaluateMonitorRecoveryCandidate`, in its order of tests), the write of the
outbox, then of the candidate file, then the session's memory, each of which
can be where a failed write ends it; a heartbeat that follows becomes `call`.
A crash between the two writes is the same as the second failing, since a
crash may follow. The limiter (`createPendingPostDeliveryLimiter`) only delays
a delivery, so `Flush` may happen at any time. `ServerHandles` is the server's
side: accepted, with the answer still on its way; `late` holds requests the
client gave up on that may still reach the server. Sessions end and begin again
under one process, and processes stop, crash and start again. `EndSession` may come
while a refresh of the session waits: `refresh` tests `settled` before it reads and
not after it had to wait, so that such a refresh has its turn beside the next
session, judges its own memory and writes the file that the next one has restored.
What it may leave in two places is noted in the history `strays` (`Strays`,
`Others`): the evidence of the sessions beside it and that of the file; and so is
the evidence that a failed write leaves in the file behind a later post. The
properties make an exception of such evidence, and of no other; without the
exception `FalseAlarmsUnposted` is violated (finding 2). Whether the state of the
reset schedule confirms (`confirmationEligible`) is a choice at each turn, and
`Prompt` says whether a free turn is taken before time passes.

**CodexUsage.** The tables are the variables `state`, `observations`, `grants`,
`estimates`, `signals` and `ledger`; a request on the server goes from reading
the state through the two lookups of evidence to the one write
(`apply_codex_usage_webhook_write`, under a lock, hence one action), which is
refused when the state has moved on (`Overtaken`) and then repeated once from
the start (`WriteStale`), and to the claim. `queue` and `waiting` are the
monitor as `MonitorOutbox` shows it: the head is sent until it is accepted,
requests that were given up go on at the server. A reading is known by its
time, and its `cycle` counts the recoveries of the quota so far. `Used` says
that an earlier recovery has used up a notice. Such a notice is found all the same
while it is active (`spent`), but its cluster is empty, and the event falls back to
the monitor's evidence under the placeholder key
(`app/api/webhook/codex-usage/route.ts:894-895`, without what lines 935 and 978
add), which all such recoveries share: `EachRecoveryAnEvent` names that case.
`UsageLedger` is the abstract specification, with the refinement in
`CodexUsage!Ledger`: time moves forward, a recovery or an increase is a pair of
neighbouring readings, a post is acknowledged only when it or a later one
counts, or when two others were counted during its attempt (the second conflict
is answered as stale, which takes the post out of the outbox). That every post is
acknowledged in the end is `AllAcknowledged`, a formula of its own, so that the
safety of the refinement can be checked and proved apart from it.

**TiboWebhook.** A delivery of a post, step by step between its calls of the
database: existing row, preflight (which puts a completion off while the monitor
covers it and has seen no recovery), write of the row, lookup of the recovery,
reading of ledger and estimates side by side, resolution of the event's identity
(`Resolved`, `Matching`), claim, confirmation by compare-and-set, and the merge
into the estimate. It extends `CodexUsage`, whose requests go on between the
steps, so it is the composition of the two webhooks. Posts have one version and
are classified the same way each time; two completions lie more than five
minutes apart, so a cluster of posts holds announcements only; posts and
recoveries lie in the windows that relate them. The reads that cannot change the
outcome, and the claim made for provenance only, are folded into their
neighbours. `MaxDeliveries` bounds the deliveries of all posts together. Two
properties say that a completion becomes part of the event of the recovery that it
follows. `FollowerJoins` holds whatever fails: such a completion makes no event of
its own, and is not settled unless a completion is in the event or another post
holds it. `SomeFollowerMerged` says that where nothing failed one completion is
merged in the end. That each is, `SubsequentPostMerged`, does not hold (finding 3).

**FormalAdoption.** `rows` is `tibo_formal_adoptions`, in the order of
`created_at`; a row has the ids of its post's chain of edits, the first of which
is its root, its event key, its representative and the kind of claim that made
it. `claim_tibo_formal_adoption` runs under one advisory lock, so a claim is one
action: `Adopt` (nothing matches), `Reconcile` (answers `reconciled` and
`existing`) or `Refuse` (the three kinds of `conflict`). `Matches`, `Compatible`,
`Selects`, `Chosen` and `RootFree` are the function's tests in its order. The
callers work out the key they claim from what they read before the lock was
taken; since that may be old, the model lets any valid claim come at any time.
The branch after a conflicting insert cannot be reached under the lock.
`announced` and `selected` are history: the tweets of every claim answered
`claimed_new`, and the keys that existing evidence chose among several rows. The
sources and times of a row decide nothing and are left out.

**TiboOutbox.** `pending`, `processed` and `quarantine` are the three lists in
`chrome.storage.local`; `jobs` is `processQueue`, `run` its current job with the
copies it has read, and `user[n]` an explicit retry or clearing, of which several
may be under way beside it and each other. Updates of the pending list are one
action each (they have their own chain); all others are a read and a later write.
`Dispatch` joins the reading of the lists with the sending of the request: nothing
between them writes what was read. A call of storage may fail: then a post is not
stored (`StorePostFails`), a job's failure is recorded or, if that fails too, is not
counted (`Throw`, for `recordPendingFailure`), an explicit operation ends half way
(`AskFails`). A payload is what one timeline shows of the tweet: another one starts
the attempts again. `owed`, `accepted`, `sends` and `changes` are history. Retry
delays are a flag that `Tick` clears, entry by entry; the order of the queue, which
decides nothing (the alarm goes by times), is left out, so it is a function of the
tweets.

**TiboContext.** X renders the post that is replied to or quoted late, so a tab
may see it when the post is stored already. The worker then sends the contexts
on their own: `pending` is its queue with the attempts of each revision (a set of
contexts seen together), `acked` and `terminal` its ledger, `job` the job in
`processQueue` with the three writes it ends in (ledger, then queue, or the
failure) as actions of their own, so that Chrome can stop the worker between
them. On the server, a request in `calls` merges the contexts
(`merge_tibo_source_context_enrichment`), reads the row and then each post
referred to, lets the model classify, writes under the condition that revisions
and generation are as read, and sets the marker under the same condition.
Deliveries of the post itself take the same path, with its contexts or, if the
tab shows no relation, the evidence cannot be read or is not complete, without. A
context may be left out of the evidence for what it says or whose it is
(`omitted`), or because it is not there or its lookup failed (`Retryable`): an
enrichment asks for a repetition in the second case only
(`app/api/webhook/tibo/route.ts:995`), and otherwise goes on, writes and sets the
marker. `Invalidated` is the trigger that counts up the generation of the posts that
refer to a changed one and clears their marker. It follows the snapshots of
contexts; a post that is reached in its turn through the older fields of a quote
(`lib/radar/tiboEvidenceContext.ts:236-266`) changes without it, so `SourceChanges`
may or may not reach the row, and `followed` is the last version that did. `done` is
history. Answers 401 and 403, operator reviews, the proof for formal replies and the
reconciliation of a future reply in the answer are not modelled.
The memory of the tabs (`content.js:287-412`) only makes repetitions rarer:
here a tab may see contexts at any time.

**DisplayNames.** One official notice with its candidate, and one event of each
kind. `run[a]` is what an actor has read and where it is: a run of the
reconciler reads everything first (`Begin`), then seeds what is missing
(`Reseed`), promotes (the database function checks again), names events (ask,
read again, compare-and-set on `updated_at`, or mark the failure) and claims,
generates for and stores candidates; a webhook names the global reset; an
operator overrides. Any actor may end between two steps (`Ends`). Runs overlap:
the schedule's `curl` gives up after 90 seconds and the run goes on, a run can
be started by hand, and the tests
(`tests/resetDisplayNameCandidateStore.test.ts:915, 970, 1022, 1169`) expect it.
Gemini is a choice of outcome; the request budget and the cooldown of events are
the choice to pass one (`PassEvent`). A run takes its time when it starts
(`lib/radar/resetDisplayNameReconciliation.ts:694`), while seeds are stamped by the
database as they are written, so `Begin` leaves the clock past the time of the run.

## 3. Runs

With two workers every run ends within four minutes; the largest are `MonitorLock`
(2.8 million distinct states), `TiboContext` (2.6) and `DisplayNames` (2.3).

| Run | Expect | Shows |
|---|---|---|
| `MonitorLock` | pass | three starts on two pids, faults, crashes, clock steps up to the tolerance: exclusion, lease on disk, no displacement, orphaned gates stay |
| `MonitorLockLive` | pass | acquisitions end; a lone fresh start recovers a dead monitor's lock |
| `MonitorCadence` | violation | with the default constants a reading may be more than the server's gap after the last it has (finding 1) |
| `MonitorOutbox` | pass | two sessions, refreshes that outlive the first, a stop or crash, failed writes: nothing saved is lost; nothing is doubled, reordered or revived, and memory and file agree, but for evidence that strayed; the outbox drains |
| `MonitorOutboxStale` | violation | evidence that the refresh of an ended session has dropped is confirmed by the next (finding 2) |
| `CodexUsage` | pass | two requests at once, two faults, one post that may be a notice or a report: the webhook implements `UsageLedger`, a request that is overtaken is repeated and loses no recovery, each recovery is one event but for those that share one as the property says, and the outbox is taken in the end |
| `TiboWebhook` | pass | two deliveries, of one completion or of two, also at once, while the recovery is reported, and a fault at any step: announced once, settled only when joined, a confirmed recovery stays with its post, and without the fault one completion is merged |
| `TiboWebhookSecond` | violation | without any fault, the second completion of a recovery is never merged (finding 3) |
| `FormalAdoption` | pass | claims of four tweets, in chains of up to three, and three events: one row per event, a tweet announced once, rows only grow |
| `TiboOutbox` | pass | two tweets with two payloads, a restart or a fault of storage, an explicit operation, every answer: none forgotten, sends bounded, none held up |
| `TiboContext` | pass | three sets of contexts of one post, two requests at once, a fault, a changing and a late source, contexts left out: the marker covers no older classification, what is acknowledged was classified, what is merged is tracked |
| `DisplayNames` | pass | two overlapping runs of the reconciler, a webhook, the operator, a reclassified notice: names fit, stay, and no overtaken outcome is stored over a later one |

Bounds and why they are enough.

- *Lock*: a race over a stale lock needs the dead owner and two contenders, and
  the reuse of a pid a second run on it: three runs. The clock moves by up to
  the tolerance.
- *Cadence*: in units of 15 seconds, the values are those of the code; the clock
  sees sixty minutes.
- *Outbox*: `Gap` 3 and `Heartbeat` 2 with a clock to 4 give time for a
  candidate to be confirmed, to expire and to be followed by another post; two
  sessions and a stop give a restart in every state, and a refresh that outlives its
  session beside the next. One plan type and one count of BANKED resets: the proofs
  have any number; evidence that strays by a failed write behind a structure change
  needs two (`Plan = {1, 2}`).
- *Usage webhook*: three readings are the least with a predecessor that is
  overtaken; two requests at once let one overtake the other; `MaxFaults` 2 are
  the request given up and one more. A request is overtaken twice only by two that
  were given up: also explored, for safety, is that case with three at once, four
  readings and two recoveries (1.4 million states, without BANKED resets); and,
  with liveness, three at once, three readings and no post. What is proved has no
  such bound.
- *Tibo webhook*: two completions or two deliveries of one are what can race; the
  monitor's side has one request at a time, a first reading and a recovery. The histories no property reads are left out of
  the `VIEW`; completions are alike (`SYMMETRY`). `FollowerJoins` and
  `SomeFollowerMerged` are about completions and one recovery: what notices and
  second recoveries do to them is told below. Also explored, and passing: a third
  reading (`MaxAt = 3`, at most one waiting in the outbox, 3.4 million states), and
  three deliveries (`MaxDeliveries = 3`, 4.1 million).
- *Ledger*: the third event is one that has no row when two rows match; four
  tweets make two chains that are disjoint, and a third id for a chain to be
  neither one id nor all.
- *Tweets*: two, since the questions are whether one holds up or overwrites the
  other; two payloads, so that the attempts start again; `MaxAttempts` 2 is the least
  with a retry; `MaxProcessed` 1 so that an id is evicted; one fault, which is a
  restart or a failed call of storage.
- *Contexts*: a parent and a quote seen together or the parent first, and a
  second candidate for the quote, which conflicts; room for two of the three
  revisions, so that the limit is met; one attempt, so that the last one is;
  one source stored late, one change, one fault, one explicit retry. Of the contexts
  only the quote is ever left out for what it says (`CONSTRAINT QuoteOnly`); without
  that the run passes as well (8.1 million states).
- *Names*: one revision of the notice reclassifies it once; the clock reaches
  the end of a stale claim and of a retry's delay; two workers are the overtaken
  and the overtaking one. Also explored: both kinds first, with a clock to 3, and
  three workers without the webhook (`OutcomesCounted`, 2.7 million states).

Deadlock is checked in `FormalAdoption` only: every other run is bounded by a
clock or a count and stops there, and the programs may rest.

Fairness. *Lock*: `Acquire` and `Release` are synchronous code, so a step that
is enabled happens (weak fairness); crashes, starts and the operator have none.
*Outbox*: turns, timers and timeouts are taken (weak fairness). `Flush` and the
server have strong fairness: a timer flushes for as long as the process is up,
and of infinitely many requests the server handles some and its answer arrives;
without this, nothing could be promised. *Usage webhook*: the monitor sends what
is in its queue (a timer), and the server goes on with each request (both weak),
also when its database refuses an increase of BANKED resets that is stored already;
none is assumed of readings, failures or posts. *Tweets*: jobs run, the alarm is
periodic and delays pass; no fairness is assumed of tabs, users or the server.
The other specifications state safety only.

## 4. Proofs

Everything here holds for every value of the constants that satisfies the
module's assumptions; each theorem is about the specification the run checks.

`MonitorLockProofs`: `TypeCorrect`, without assumptions on the clock;
`LeaseExclusive`, `LeaseOnDisk`, `NeverDisplaced`, `OrphanStays`, assuming that
clock steps stay within the tolerance (`MaxStep <= Tolerance`), which the first
observation below shows to be needed. Exclusion alone is not inductive. The
invariant `IInv` says in addition that the gate on disk belongs to the live run
between its opening and its release (`GateOwned`), that two live runs have two
pids (`PidsUnique`), that a run in its lease owns the lock (`LockOwned`), that
start times read lie within the tolerance of the true ones (`OwnStartNear`,
`LockRecordOK`), that the record a contender inspected is still the one on disk
while it holds the gate (`SeenCurrent`), and that one it judged stale names a
dead run (`StaleIsDead`).

`MonitorCadenceProofs`: `HeartbeatComesInTime`, for every choice of the constants
with which a poll ends before the next (`CadenceAssumption`, a hypothesis of the
theorem): a reading is less than the heartbeat interval, one poll interval and both
timeouts after the last the server has. That is what holds in place of the ten
minutes, and for the default constants it is more.

`MonitorOutboxProofs`: `TypeCorrect`, `NoPostLost`, `OutboxIsFaithful`,
`PostsArriveInOrder`, `RecoveryConfirmedOnce`, `EvidenceIsKept`,
`DroppedEvidenceNotPosted` and `SessionAndFileAgree`, with any sessions, plans,
counts of BANKED resets and failing writes, and refreshes that outlive their
session. The exception the properties make, evidence that strayed, is a set that
the model fills in two cases only, and the proofs show that no other step needs it.
The invariant is about times: a reading that waits for its turn is younger than
every post there ever was (`TimesOK`), and so is the pending evidence
(`CandidateOK`), unless it strayed or its own post is in the outbox and the process
went down over the write that should have cleared it, which the next start
reconciles. Hence what a turn appends is the youngest or strayed (`Sorted`), and what
is sent is the head of what is not handled, or older (`SentOK`). For evidence, each
session's memory is that of a session (`SessionOK`), and the session begun last and
the file agree until its last turn is over, also while the process stops, or what
they hold has strayed (`Tracked`). `MonitorAsAssumed` joins the two sides of the
monitor's webhook: the steps of `MonitorOutbox`, seen as steps of the outbox and of
the request under way, are those that `CodexUsage` gives the monitor it hears from,
with `queue` for the outbox and `waiting` for the request. `Enqueues` is its
`Enqueue`, `SendsHeartbeat` its `Heartbeat`, `SendsHead` its `Send`, and
`RemovesHead` and `EndsRequest` are what an `Answer`, `GiveUp` or `Crash` does to the
queue. There is one step more, which `CodexUsage` does not know: a recovery that
strayed may be appended out of order. What is shown of the webhooks is shown of a
monitor without that step. (TLC found the theorem to hold with the constants of the run; it is about order and turns, not
about what the readings say.)

`FormalAdoptionProofs`: `TypeCorrect` and all properties of the ledger's run,
with `MaxChain` up to the database's six. `IInv` joins the invariants with
`AnnouncedCovered`: whatever was announced is still in some row's chain. That is
what makes `AnnouncedOnce` hold (a claim of an announced tweet matches that row,
so it cannot be a new one), and it needs the lemma `ChosenGrows`: of two
compatible chains the longer has all of the shorter, also when the shorter is a
single id from the middle. `LedgerOfOneIds` is the bridge to the two webhooks, whose
posts are known by one id: with `MaxChain = 1` the table is a one-to-one map of posts
to events, and of all that the function compares and chooses there remains what
`CodexUsage!ClaimOutcome` and `TiboWebhook!Claims` do: the pair is added if neither
the post nor the event has one, the post's own row answers "existing", and any
other post's row refuses. (TLC found it to hold with the four tweets and three
events of the run.)

`TiboOutboxProofs`: `WorkerTyped`, `StoredStays`, `ProcessedAccepted` and
`RequestsBounded`, for any payloads. The invariant says of
the running job that its tweet has attempts left and room to be put back, and
that a job about to remove one has settled it (`RunOK`); of every list of
processed ids, also of the old copies that jobs and users hold, that it has no
id twice and accepted ones only (`IdsOK`), so that writing an old copy back does
no harm; and of the sends that each is counted by a restart, by a fault of storage,
by the attempts in the entry or in one that another payload replaced, or by the
request under way (`Counted`).

`TiboWebhookProofs` is about `CodexUsage` by itself and about `TiboWebhook`, in
which its requests go on beside the deliveries.

- `UsageTypeCorrect`, `UsageImplementsLedger` and `LostOnlyToTwoOthers`, and beside
  the posts' webhook `TogetherImplementLedger` and `TogetherLoseNoRecovery`. The
  invariant `UsageInv` says that a time tells the snapshot (`ReadingsOK`), that
  nothing counted or under way is younger than what is in the outbox (`QueueOK`),
  that the monitor waits for the youngest request there is (`WaitingOK`), that
  until the first reading counts no other circulates (`FirstOK`), and what a
  request knows of the snapshots counted since it began (`RequestOK`): when the
  state is not what it has read, something was counted meanwhile, once for its
  repetition and once more for giving up. So an answer of acceptance has its own
  snapshot behind it, a later one, or two others; each step of a request is a
  `Count` of `UsageLedger`, an `EndAttempt`, an `Acknowledge` or a stutter.
  That a recovery is lost only so needs, besides, that every request for it knows
  of two others when it is neither observed nor in the outbox (`LostOnlyToTwo`).
- `RecoveriesBecomeEvents`, of `CodexUsage`. `EventInv` adds to `UsageInv` that an
  event is known by its time, that a notice whose event there is counts as used
  (`EstimatesOK`), and that a notice a request has found unused is so for as long as
  the state is what the request has read (`EvidenceOK`): if another request used it
  up, the write is refused. For the two webhooks together it is not claimed: with
  two recoveries a merge can move the event (the observation on the Tibo webhook).
- `WebhookTypeCorrect` and `AnnouncedOnlyOnce`. A delivery that has been told
  `claimed_new` is the only one of its post that has, and the post is not
  announced yet (`CallsOK`).
- `FollowersJoin`, for all constants, up to the moment when a post is sent that is
  no completion, or the quota recovers a second time (`Undisturbed`, a condition on
  the state). Both ends are needed: with a notice in the recovery's event completions
  are kept out of it (finding 3), and a later recovery may be matched to the post of
  an earlier one, whose event is then the post's own. `NamesInv` says that no event,
  claim, request or delivery has the name of a post that was not sent yet, so that
  the event a recovery is made is not named after a post that follows it. `JoinInv`
  says that the one event is the recovery's (`EventsOK`) and that a delivery of a
  follower finds it under the key it goes on with, whenever it has read the ledger
  and the estimates, which it reads one after the other (`Finds`). `TracesOK` says
  that whatever the tables hold of a post was left by one that was sent, so that
  until then there are traces of completions alone.
- `SomeFollowerMerges` and `MergeIsUnderWay`, up to the same moment. `JoinInv` says
  where a follower's post would go, not that some delivery takes it there; `MergeInv`
  adds that. While nothing failed and the event has no post, whoever holds the event
  or the recovery has a delivery past its claim that is bound to merge it
  (`Carries`), and each follower has such a one or one of its own that will come to
  its claim (`Leads`): a post that is stored by an overlapping delivery is left to
  that one, and a delivery that has to start over does so behind another that goes
  on. To hold from step to step this needs that what a delivery has read of the
  ledger and the estimates is true still when it claims, and that the row it is about
  to write is still the recovery's event (`ReadOK`); and that a post holds no event
  but its own while the monitor has made none (`NamedOK`). The proof makes no use of
  the deliveries a post has left, so the merge is not owed to a repetition. When the
  event has a post the theorems say nothing of the others, and finding 3 is what
  becomes of them.
- `ConfirmedForGood`. No step of either webhook changes a recovery that is
  confirmed: the usage webhook adds only, and the compare-and-set replaces only
  what is still open.

`TiboContextProofs`: `ContextTyped`, `MarkersCurrent`, `AcksClassified`,
`MergedTracked`. `MarkedIsCurrent` is far from inductive: what makes it hold is
that a request's reading of the row and of its sources is still true as long as
its generation is the row's (`Fresh`, `Sound`), up to the changes the trigger does
not follow, although the sources are read one by one, and that a request about to
set the marker has written its class, or one of the same generation was written over
it (`RowOK`, `CallsSound`). For `AckedWasClassified`, every answer that counts as
accepted is justified by a classification that was completed (`Justified`), also
when it is answered from the marker; for `MergedIsTracked`, the revision of a request
under way is in the worker's queue or ledger, whatever the job is at (`WorkerOK`,
`CallsTracked`).

`DisplayNamesProofs`: `NamesTyped`, `NamesFit`, `NamesStayGiven`,
`OutcomesAreCounted`. A row that a
writer has read is the present one as long as the versions are equal, and its
write is of an accepted name or over none (`FreshOK`); a pending candidate's
input is of the candidate's kind, so an outcome that passes the test of its
input is of that kind. For `OutcomesCounted`, no two runs have the same time, and
the clock is past it (`TimesOK`), so that neither another run's claim nor a seed can
look like a run's own claim by its time (`ClaimsOK`); and by the attempts a claim is
as good as its own. An earlier form of `Begin` let the clock stay at the run's time;
three runs and a seed in that instant then stored one outcome over another. The
code's times are of milliseconds and microseconds and taken before the seeds of the
same run, so that was the model's doing.

The type invariants of `MonitorLock`, `MonitorOutbox` and `FormalAdoption` are
proved and not part of a run; that of `CodexUsage` is checked in `WebhookTypeOK`.

Only model-checked are the liveness properties (`AcquisitionEnds`,
`StaleLockIsRecovered`, `OutboxDrains`, `OutboxAcknowledged`, `Settles`): liveness
under fairness is out of the prover's reach. Every other property of a passing run
has a theorem, under the assumptions and conditions named above.

## 5. Findings

1. `MonitorCadence`: with the default 120 s polls two readings that the server
   compares may be more than ten minutes apart: the heartbeat is due eight minutes
   after the last post was *completed*, goes with the next poll, and the server
   compares the times of the readings. `docs/codex-usage-monitor.md:95-98` says that
   it "still receives a heartbeat before its ten-minute comparison gap". A recovery
   first seen then is answered with a rebase. All polls, posts and timers are on time
   in the trace.
2. `MonitorOutboxStale`: the refresh of a session that has ended meanwhile cancels
   the evidence as a false alarm and clears the candidate file, while the next
   session has restored the evidence and confirms and posts it
   (`tools/codex-usage-monitor.ts:1180`, `1127-1141`).
   `docs/codex-usage-monitor.md:192-195` says: "Zero webhooks are sent for the false
   alarm."
3. `TiboWebhookSecond`: without any fault, the second completion of a recovery takes
   the first, the event's primary post, for its representative
   (`app/api/webhook/tibo/route.ts:1903`); the database refuses that as inconsistent
   (`supabase/migrations/20260831120757_tibo_formal_adoptions.sql:123-126`), and the
   delivery is answered 503. By then its own row is stored: the next delivery
   finds that row beside the event, the two keys are in conflict, and the post is
   answered 200 and settled without being merged. A notice in the event does the same
   to the first completion. `docs/codex-usage-monitor.md:287-291` has subsequent
   posts "merge into the canonical monitor event".

Observations that have no run of their own. Each was seen in the model, with the
constants changed as said or by an invariant stated for the purpose:

- *Lock.* The start time of a process is computed from `btime`, which moves with
  the wall clock; a clock set by more than the tolerance (`MaxStep = 2` in `MonitorLock.cfg`) makes a
  live owner look like another process and displaces it, although "A live or
  unreadable owner is never displaced"
  (`tools/codex-usage-monitor-persistence.ts:273-274`).
- *Outbox.* The confirmation delay is measured at the turn, not at the reading
  (`docs/codex-usage-monitor.md:163`). With two plan types, or two counts of BANKED
  resets, and failing writes, a candidate whose deletion failed after a structure
  change (or the higher count) was saved comes back after the restart and, if the
  plan changed back, is confirmed behind a later post, out of order: the second case
  of `Strays`.
- *Tweets.* "max 3 including the first" (`docs/gemini-classification.md:40`) holds
  for one payload only, and only while the failures can be stored. A payload that
  differs (the timeline it was seen on is part of it) starts the count of attempts
  again (`extension/tibo-monitor/service-worker.js:360-362`), and so does an explicit
  retry; an attempt that a restart of the worker or a fault of storage
  (`1474-1478`) kept from being counted is made again. `SendsBounded` is the bound
  that these leave.
- *Usage webhook.* Recoveries that are each found with a notice that was used up
  share one event under the placeholder key, `usage-reset-pending` (one notice, four
  readings and no faults: the property without its last disjunct fails);
  `docs/codex-usage-monitor.md:280-290` calls each "an immediate, confirmed random
  reset event". Two requests that overtake a third, one after the other, lose its
  recovery; `RecoveryLostOnlyToTwo` says that nothing less does. A recovery whose
  lookup of notices failed is stored without an event, as the tests expect. The
  second version of the database function answers with the id of the BANKED
  observation where there are both.
- *Tibo webhook.* A post put off by the preflight while the usage webhook, which
  had not found the post, writes the recovery stays put off. A completion
  delivered again may be classified as irrelevant once coverage is fresh again.
  The ledger's key may be the post's while the estimate's is the recovery's. A
  delivery that ends between its claim and the merge leaves the event claimed; a
  second completion then finds it held, is answered 200 and is not merged either,
  so the event stays without a post until the first is sent again (hence
  `FollowerJoins` lets another post hold the event). A
  repetition may confirm a second recovery. If that one was stored without an
  event because its lookup failed, the merge moves the first's event over to it,
  and the first is left without (`MaxCycle = 2`, `MaxAt = 3`, one post, one
  fault, two sends: `EachRecoveryAnEvent` fails). When the claim is stored and its
  answer lost, nobody is told of the new adoption.
- *Contexts.* A delivery that shows no relation, or cannot read the evidence, or
  falls back to the rules, replaces a classification made with contexts and
  leaves the marker (compare the comment at `app/api/webhook/tibo/route.ts:1513-1516`);
  hence `MarkedIsCurrent` asks that the contexts be there only of a classification
  made with some. An enrichment of which contexts were left out for what they say, or
  all of them, is marked and acknowledged as classified. A post that is named only in
  the older fields of a quote changes without the marker being cleared. A changed
  source clears the dependents' marker, and readers fail closed, but nobody classifies
  them again. As there are two kinds of context, a third revision is never merged. A
  revision sent before its post is stored is answered 503, and after three attempts
  only an explicit retry sends it again.
- *Names.* A promoted name is replaced by one the webhooks generate with the
  monitor's evidence, and for BANKED distributions by a second run with an older
  reading (compare
  `docs/superpowers/specs/2026-09-08-reset-display-name-candidates-design.md:134-136`).
  A claim does not ask whether the candidate has been accepted meanwhile
  (`:164`), so a failed repetition can leave it without its name. The promotion
  does not protect `human_approved`. After two reclassifications the count of
  attempts begins again.

## 6. Plan

What is left, in the order of its use:

1. Edit chains in `TiboWebhook`, which claims with one id today, composed with
   `FormalAdoption` in place of the ledger as a function.
2. Contexts refused with 401 and 403 and their clearing: a stop between the
   ledger's entry and the quarantine leaves one blocked without the other.
3. A common abstract at-least-once delivery for `MonitorOutbox` and `TiboOutbox`.

## 7. Not modelled

- The content script: the election of a leader tab has no lock, and a second
  leader only sends again what the models let be sent at any time; scanning the
  page has no state to check.
- Heartbeat and monitor health: one row, written and compared with thresholds.
  What a gap in the monitor's coverage means for posts is in `TiboWebhook`.
- Radar aggregation: it reads and sums up rows; its caches expire by time.
- Temporal expressions, histories and probabilities (`lib/radar/tiboTemporal.ts`,
  `tiboHistory.ts`, `probability.ts`): functions of their input over texts, times
  and real numbers, with no state and no interleaving; unit tests reach them
  better than a model would. Their decisions that others depend on (the cluster
  of a notice, whether it is used up) are operators of `CodexUsage`.
- The classification by rules and by Gemini: a choice of outcome wherever it is
  asked for.
- The Windows host (starts and stops the monitor's process: `RequestStop` in
  `MonitorOutbox`), web pages, translations, reports and scripts.
- In modelled components: events of the regular weekly reset, estimates of
  BANKED grants and their association with posts, edit chains, the proof for
  formal replies, operator reviews, metadata texts and the backfill of names.
