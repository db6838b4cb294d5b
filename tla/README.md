# Seagull in TLA+

TLA+ models of the parts of Seagull whose correctness depends on the order in
which processes, transactions, Redis commands and crashes interleave, the TLC
configurations that check them, and proofs checked by TLAPS.  Every definition
is translated from the source; `PROJECT.json` maps it to its lines.

Contents: [the system](#the-system), [the modules](#the-modules),
[the runs](#the-runs), [divergences found](#divergences-found),
[bounds](#bounds), [fairness](#fairness), [proofs](#proofs),
[limits](#limits), [plan](#plan).

## The system

Seagull receives network and host events from agents, stores them, projects
them into analytical stores, derives alerts from them, and lets administrators
react.  It is a FastAPI service, a set of worker processes grouped by
`workers/manager.py`, PostgreSQL as the source of truth, Redis for queues,
locks and counters, and ClickHouse and Elasticsearch as projections.  Paths
below are relative to `src/backend/app`.

    agent --POST--> run_once --> ingest_events --> Redis queue --> ingest worker
                 (Idempotency)             (IngestQueue)               |
                                                     one transaction: net_events
                                                     + event_outbox  (Outbox)
                                                                       |
         ClickHouse, Elasticsearch <-- dispatchers <-------------------+
            |          ^                                               |
        (Reconciler)   +-- stream indexers <-- Redis stream <----------+
                           (StreamIndexer)

    admin or login request --> write_audit_event --> admin_audit_events
                                 (AuditChain)    <-- retention, verifier

    portal request --> refresh sessions (Sessions), response actions
                       (ResponseActions), cached analytics (SingleFlight)

| Part | State | Operations | What is hard | What makes it correct |
|---|---|---|---|---|
| Batch admission, `core/api/idempotency.py` | one Redis key per batch id | claim, replay, refuse, run, release, save | retries that overlap the first request; lost replies; claims that expire under a running handler | an acknowledged batch took effect; one content per id; one effect while claims live |
| Ingest queue, `features/ingest/control`, `workers/ingest` | queue, processing and dead letter lists, backlog counter | enqueue, fetch, commit, acknowledge, settle, retry, park, redrive, purge | shared processing list; crash between any two commands; MULTI that raises after it was applied | no accepted batch disappears; the counter covers the lists; poison leaves the queue |
| Outbox, `shared/outbox`, `workers/sinks` | `event_outbox`, its leases, `event_outbox_dead_letter` | enqueue, claim, deliver, settle, purge | leases that lapse under a delivery; settlements with no fencing token; partial bulk results | no event is dropped; one holder while leases hold; every row settles |
| Audit chain, `core/audit` | `admin_audit_events`, `audit_chain_head`, `audit_chain_checkpoints` | stamp, link, commit, roll back, prune, verify a page | writers that overtake each other; a prune under the verifier | numbers in commit order; every deletion accounted for; losses reported |
| Pressure control, `features/ingest/control/{recovery,storm,backpressure}.py` | phase hash, storm keys, backlog counter | decide a phase, open and close the storm alert, repair the counter | read-modify-write of Redis by every API process | phases leave shedding; one alert per storm |
| Projection reconciler, `workers/sinks/reconciler.py` | a pass in memory | count, drill, compare ids, enqueue repairs | counts taken at different moments; duplicate rows; events still in the outbox look missing; a budget that refused events use up; a window that moves on | what is missing is reported; every event of the window that the sink takes is projected in the end |
| Stream indexers, `workers/indexing/es_stream.py` | stream, consumer group, attempts, dead letter stream | create the group, publish, read, index, settle, acknowledge, drain, reclaim | crashes between index and XACK; entries taken from a slow indexer; partial bulk answers; outages; a Redis that loses its data | no entry leaves without a cause; an unreachable Elasticsearch uses up no attempt; every entry settles |
| Portal sessions, `features/auth`, `features/account`, `features/users` | refresh sessions, families, one-time tokens, token version | log in, refresh, log out, log out everywhere, change the password, deactivate | rotation against revocation in concurrent transactions | one usable session of a family; a credential is spent once; a revocation is final |
| Rate limiter, `core/security/rate_limit.py` | Redis windows, per-process windows | hit, fall back, evict | Redis failing and returning; capacity | at most the limit per window and backend |
| Single flight, `core/cache/locks.py`, `shared/analytics/swr.py` | Redis lock, in-process futures | join, lead, wait, poll a last time, release | a leader slower than its lock, cancelled or crashed | one computation at a time; every caller is answered |
| Agents, `features/agents` | enrollment tokens, credentials, certificates | enroll, replay, rotate, revoke | concurrent use of one token | a token enrolls once |
| Response actions, `features/response` | `response_actions`, their results | create, fetch, report, cancel, expire on view | late and repeated results; a viewer that writes what it read; a count without a lock | status and result agree; a final state is final; the rate limit |
| Worker manager, `workers/manager.py` | children and backoff | start, restart, stop | a child dying during shutdown | a dead child restarts; a stop terminates |
| Realtime portal, `core/realtime` | connection ledger in Redis, drain flag | admit, renew, release, expire, drain | renewal of an expired entry | the limit per user |
| Rules engine, `workers/intelligence/rules` | advisory lock, event cursor, dedup keys | lead, evaluate, alert, suppress | loss of leadership while evaluating | one alert per dedup key |

The remaining parts (other intelligence workers, analytics, portal pages,
database access, PKI signer, observability, frontend, command line,
migrations) are listed in `PROJECT.json` with the reason they are not modelled:
they keep no state that concurrent actors share, recompute derived data, or are
string-heavy and sequential.

## The modules

### Outbox and DeliveryContract

`Outbox` models the outbox of one sink: `shared/outbox/store.py` and the
dispatchers that drain it.  `row` is `event_outbox`, `claim[d]` what dispatcher
`d` holds in memory between `store.claim` and `_settle`, `sink` what the
projection has applied, `dlq` the dead letter table.  An action is a transaction
(`Enqueue`, `Claim`, `Settle`, `PurgeDeadLetters`), a delivery (`Deliver`) or
the passage of time (`BecomesDue`).  A settlement names a row by id only, so a
dispatcher whose lease lapsed still rewrites or deletes it; that is the heart
of the model.  Time is abstracted: a row is due or held, `older` keeps the order
of the due ones.  `PerItem` selects the sink: Elasticsearch reports item by
item, ClickHouse all or nothing.  A delivery that fails may still have landed.

`DeliveryContract` is what producers may rely on: an accepted batch stays an
open obligation until each of its events is applied or written off on record,
and closes in the end.  `Outbox` implements it with `accepted <- enqueued`, `open
<-` the rows that exist, `resolved <- Handled`.

### IngestQueue

The Redis buffer and the ingest workers.  `queue`, `proc` and `dead` are the
three lists, `backlog` the counter, `worker[w].pc` the place of `main` in
`workers/ingest/main.py`; one action is one Redis command, MULTI or PostgreSQL
transaction, so a crash may fall between any two.  A message is its id and its
`_retry_count`, which together decide the bytes that LREM compares.  `hand` is a
message that only a process's memory holds, between an RPOP and an LPUSH.
`admin` is a redrive request.  `happened` records which kinds of fault occurred,
and the properties that hold only in their absence say so in an antecedent:
one configuration then checks both what always holds and what does not.

The deployment runs one ingest worker per host group (`workers/manager.py`
`GROUPS`); the configurations with two cover a restart that overlaps the old
process, and scaling out.

### Idempotency

`run_once`: one batch id of one agent.  `key` is the Redis key, `request[r].pc`
the next command of a request.  A request that is told to come back, refused
or given the stored result ends.  Claims and results expire (`ExpireOrphan`,
`ExpireRunning`, `ExpireCompleted`), commands raise before or after they took
effect, handlers fail before or after theirs.  The DEL after a failed handler
and the SETEX after a successful one do not check whose claim they replace.

### AuditChain

Writers, retention and verifier of the audit chain.  `writer[w]` is an open
transaction: the stamp of a row that is built (`created_at`), and the rows it
has linked; it holds the lock on `audit_chain_head` while it has any.  `Prune`
is one transaction of `prune_audit_events`.  The verifier reads with no lock:
the rows of a page, the row before it and the checkpoint before it are three
actions, and prunes and commits fall between them.  `Lose` deletes a row behind
the program's back, which is what the verifier is there to report.  Hashes are
abstracted to the identity of the event they hash.  The history `log` holds every committed row.

Retention (`SEAGULL_AUDIT_RETENTION_DAYS`) is much longer than a transaction;
`Tick` keeps the clock from leaving an open stamp behind by that much.

### Sessions

Refresh sessions, one-time tokens and token version of one user.  A request is
a transaction under READ COMMITTED: `txn[r]` is what it has read, locked and
will write, and nothing of it shows before `Commit...`.  A sweep (`logout_all`,
a password change, a deactivation) takes the rows that are committed when its
UPDATE starts and locks them one by one, so a rotation in flight may commit a
successor that it never saw.  `excused` records those rotations, `crossed` two
sweeps that overlap: the properties name them as the only exceptions.

### Reconciler

A pass of `workers/sinks/reconciler.py` over one sink, query by query, beside
ingest, deliveries, dead letters, merges and losses of rows.  `rows` holds an
event in a part (of ClickHouse) or in a backing index (of Elasticsearch), so an
event repaired while its first copy still waited has two rows until a merge.
`waiting` is the outbox as `Outbox` leaves it to this module: copies that are
delivered or dead-lettered.  `absent` and `masked` are histories of a pass: what
the projection lacked all along, and the minutes whose count had extra rows.
`horizon` is the clock less `settle_seconds`: a pass looks at the `Lookback`
minutes before it (`InWindow`), and `MinutePasses` moves it on at any time,
between passes and during one.  An event whose timestamp is older than the
window when it is stored, or which is not repaired before the window has moved
past it, is not looked at any more; `docs/workers/analytical_sinks.md:118` has
the lookback raised to backfill history.

### StreamIndexer

The consumer group that indexes the Redis stream.  `pending` and `delivered`
are the group's, `attempts` the hash of retries, `indexer[w]` the batch that a
process works on and where it is.  Reading, each bulk answer, each settlement
and each acknowledgement are steps; an indexer drains its own entries after a
restart and reclaims those of others, which may only be slow.  Whether a
document is refused for good (`Permanent`: a 4xx but 429) depends on the
document; everything else is transient.

An indexer that starts creates the group (`EnsureGroup`) unless there is one, at
`start_id`: by default `$`, the end of the stream (`StartAtEnd`), so that what
was published before is never read.  `.env.example:422` therefore has the
indexer enabled before the producer, and `.env.example:436` offers `0`.
`StreamLost` is a Redis that is restarted without its data (the default
configuration keeps neither a log nor snapshots, `infra/redis/redis.dev.conf`):
reads then raise NOGROUP until an indexer reaches the housekeeping that creates
the group again.  `skipped` is the history of the entries that a group was
created behind or that were lost with it.

### ResponseActions

Shell commands ordered from one agent.  Transactions that lock the row are one
step; the count before an insertion and a viewer's expiry are two, a read and
a write.  The agent fetches and reports at any time and any number of times,
also after a cancellation or an expiry.

### SingleFlight

Callers of one cached value.  `Home` puts callers into processes: in one
process they share a future, processes share the lock.  The lock's ttl, the
freshness of the value and the waiters' patience end at any time, a caller is
cancelled, a computation raises, a process crashes.  `excused` records why a
caller may compute beside the leader.

### Compositions for TLC

`MCSinks` (Outbox, Reconciler), `MCRecords` (AuditChain, Sessions) and
`MCFeatures` (StreamIndexer, ResponseActions, SingleFlight) check components
that share no state in one run: `part` is chosen at the start, and the steps are
those of that component alone.

## The runs

| Run | Checks | Shows |
|---|---|---|
| `outbox` | NoEventLost, HoldersCover, SingleHolder, DeadLetterIsFinal, PayloadOnlyShrinks, ImplementsContract | with deliveries that may outlast their leases and a crash, two dispatchers that settle each other's rows lose nothing and implement the contract; until a lease lapses under a delivery, a batch has one holder, dead letters are final and rows only shrink |
| `sinks` | SinksTypeOK, MissingReported, EveryBatchSettles, EveryEventProjected | every row leaves the outbox; a pass of the reconciler reports what is missing in its window except in minutes with extra rows; every event the sink takes is projected in the end, as long as it stays in the window |
| `sinks_masked` | NeverHidden (violated) | a duplicate row hides a missing event of its minute |
| `queue_shared` | TypeOK, NoBatchLost | two workers and every fault: a durable batch vanishes only when a process fails with it in memory |
| `queue_single` | BacklogCovers, StoredOnce | one worker and a poisoned message: the counter never falls behind the lists; uninterrupted, nothing is stored twice |
| `queue_live` | EveryBatchSettles | under crashes and refusals of PostgreSQL (no failures of Redis in this run), every accepted message is stored or written off and leaves the lists |
| `queue_durable` | DurableIsKept (violated) | a durable batch is lost between RPOP and LPUSH |
| `queue_twice` | IdempotentPerBatch (violated) | a crash between commit and LREM stores a batch twice |
| `idempotency` | TypeOK, AckedTookEffect, OneContent, EffectOnce, EventuallyAcknowledged | what `run_once` guarantees, and that a persistent agent is acknowledged |
| `records` | RecordsTypeOK; CommitOrder, Accounted, AnchoredInOrder, CheckpointsChained, AlarmsExplained, LossReported; OneLivePerFamily, SpentOnce, SurvivorsOverlap, RetiredStaysRetired, RevocationIsFinal | the chain is numbered in commit order, deletions are accounted for, losses are reported, false alarms have two causes; a family has one usable session, a credential is spent once, what survives a sweep overlapped it, a revocation is final |
| `audit_anchor` | SurvivorAnchored (violated) | a prune by `created_at` may remove a row from the middle of the chain |
| `features` | FeaturesTypeOK; SettledWithCause, DeadLetterEarned, EveryEntrySettles; ShellBounded, ResultStands; OneComputation, EveryCallerAnswered | entries of the stream leave it for a reason and in the end, except those published when there was no group; an action and its result agree; a value is computed once at a time and every caller is answered |

Each property is paired in `PROJECT.json` with a mutant of the code's logic
that TLC refutes, so that no property holds for want of a way to break it.

## Divergences found

- **A durable batch can be lost** (`queue_durable`).  The retry loop pops a
  message with RPOP and pushes it back with a second command
  (`workers/ingest/queue.py:62`); a process that dies in between, or whose LPUSH
  raises, takes it along.  `docs/ingest/admission.md:3` promises otherwise.
- **Ingestion is not idempotent per batch** (`queue_twice`), against
  `README.md:72`.  A message leaves the processing list only after the commit
  that stored it, and the rows carry no key of the batch.  `EffectOnce` names
  the second way: a handler whose result cannot be saved is run again once its
  claim has expired.
- **Extra rows hide a missing event** (`sinks_masked`).  A minute is drilled only
  if its rows are fewer than its events (`workers/sinks/reconciler.py:229`).  A
  repair is a batch with a deduplication token of its own, so an event repaired
  while its first copy still waited has two rows until ClickHouse merges them,
  and the count of its minute is then complete although another event is
  missing.  `docs/workers/analytical_sinks.md:36` calls duplicates harmless, and
  `backend/tests/test_projection_reconciler.py:83` tests that extra documents
  never hide a missing event only where the count is short all the same.
  `MissingReported` states what does hold.
- **Retention may break the chain it prunes** (`audit_anchor`).  `created_at` is
  stamped before the head is locked, so two writers may be linked in the other
  order than they were stamped; a cutoff between the two stamps deletes the
  later link and keeps the earlier one.  The next row then points at nothing,
  against `docs/admin/audit-chain.md:103`, until a later prune removes the
  straggler.

More behaviours are covered by properties that state when they occur.
`AlarmsExplained`: a prune that spans the end of a page already verified and
the start of the page being verified makes the verifier report
`missing_predecessor` on an intact chain (its batch of 5000 exceeds the page of
2000).  `CheckpointsChained`: after an inversion, two checkpoints may carry the
same `prev_checkpoint_hash`.  `ResultStands`: a viewer that read a lapsed action
writes `expired` by primary key over what was reported or cancelled since
(`overwritten`).  `SurvivorsOverlap`: a rotation that runs while `logout_all`
runs leaves a usable session behind.  `RetiredStaysRetired`: two overlapping
sweeps may write the same token version.  `EveryEventProjected`: with as many
refused events as the repair budget, the events behind them are never repaired,
and neither is one that leaves the window of the reconciler first.
`SettledWithCause`: what was published before the group was created at `$`, or
between a loss of Redis's data and its creation anew, is skipped.
`EveryEntrySettles`: when the group is lost while every indexer is still before
the end of its replay, the replay raises NOGROUP for ever and no indexer reaches
the housekeeping that would create the group, until a process is restarted
(`es_stream.py:476`).  `EveryBatchSettles` of the outbox: a batch whose every
delivery kills its process is claimed again for ever (`dispatcher.py:52`); the
property holds because `MaxCrashes` bounds the crashes.

## Bounds

Instances are the smallest in which each hazard occurs.

- **Outbox**: two batches, two events, two dispatchers.  Two dispatchers are
  enough for a stale holder and a current one, two events for a partial
  delivery, two batches for a claim of several rows.  `MaxAttempts` 3 lets a
  batch be rewritten twice, which is what PayloadOnlyShrinks is about.  Two
  constraints of `MCOutbox` keep the run short: `OneLargeBatch` (one batch at
  most has both events) and `BeforePurge` (a purge is checked, nothing after it
  is explored); `sinks` explores past purges, and the theorems need neither.
  Liveness is checked in `sinks` with one event, two attempts, one row per claim
  and one crash (`MaxCrashes`).
- **Reconciler**: three events, the first always refused and in a minute of its
  own, the two others together in the next, so that a duplicate of one can mask
  the other and the refused one eats into the budget of two.  Two parts, two
  waiting copies, two faults (a failed pass, a lost row or an exhausted
  delivery).  The window is two minutes and the clock runs to three: both
  minutes enter the window and the first one leaves it, before, during and
  after passes.  As the clock stops there, the later minute stays in the window,
  and what it lacks has to be projected.
- **IngestQueue**: two workers and two messages, or one worker and three, one of
  them poisoned.  A batch holds two messages, so that one poisoned message takes
  a healthy one along; `MaxRetries` 1 separates the retriable from the exhausted;
  a dead letter list of one message is trimmed.  `MaxFaults` 2 (two workers) or
  3 (one): a fault, and one in what recovers from it.  `MaxRedrives` 1.
- **Idempotency**: two requests and two contents, three faults.
- **AuditChain**: two writers, three events above one legacy row, pages and
  prunes of two rows, a retention of two ticks on a clock of four, one loss.
  A chain of three rows has a link inside a page and one across pages, and one
  prune can span both pages.  With one event more the run still holds (3.4
  million states); the smaller one is kept for its time.

- **Sessions**: two requests, three sessions and one one-time token: a login, a
  rotation and a rotation of its successor, each against another request; two
  sweeps, which may overlap.
- **StreamIndexer**: two entries, either of one document or one refused and one
  without an id; two indexers, batches of two, two attempts, one fault, which may
  be the loss of Redis's data; the group starts at the end of the stream.
- **ResponseActions**: two actions, two administrators, one viewer, a limit of one.
- **SingleFlight**: three callers, two of them in one process, and one fault.

Symmetry is used for interchangeable model values (batches, events and
dispatchers; workers and healthy messages; writers; requests, sessions and
tokens), never in a run that checks a liveness property.

`CHECK_DEADLOCK FALSE` appears where the instance runs out of work: all batches,
messages or events have been used, which the program does not do.

## Fairness

- **Outbox** (`MCSinks`, and `FairSpec`): a dispatcher thread loops for ever and catches every
  exception (`dispatcher.py:137`), so claims, deliveries and settlements are
  weakly fair; leases and backoffs are wall-clock times, hence `BecomesDue`.
  Producers owe nothing, and crashes are bounded: `max_attempts` is compared
  only when a delivery returns, so a batch whose every delivery kills its
  process would be retried for ever, and no fairness excludes that.
- **IngestQueue** `FairSpec`: each worker's loop is weakly fair, as is a redrive
  that has begun.  A starting worker that empties the processing list while
  another keeps refilling it could go on for ever; it does not, because the
  other sleeps or backs off between attempts for longer than a RPOPLPUSH takes.
  This is strong fairness of `StartupEnds`, and the run needs it.
- **Idempotency** `FairSpec`: requests finish or fail, a claim whose request is
  gone expires, and the agent keeps sending (strong fairness of `Send` until it
  is acknowledged).  The agent is not in this repository: that it retries is an
  assumption about it.
- **Reconciler** (`MCSinks`): `main` makes pass after pass and catches what they
  raise, so the steps of a pass are weakly fair, and so is the delivery of an
  event that waits for a sink that can take it, which `EveryBatchSettles` of the
  outbox and its bound on attempts justify.  That the ingest pressure, under
  which passes are skipped, ends is an assumption.  Nothing is assumed of
  merges or of the clock: `EveryEventProjected` excepts the minutes that hold
  duplicate rows and those that have left the window.
- **StreamIndexer** (`MCFeatures`): each process loops for ever and is restarted
  when it went down; nothing is assumed of Elasticsearch, but faults are bounded.
  Housekeeping falls due every few seconds, so an indexer in its loop that finds
  no group creates it in the end.
- **SingleFlight** (`MCFeatures`): the next step of each caller, and the end of a
  waiter's patience, which the code measures on the clock.
- **AuditChain**, **Sessions** and **ResponseActions** promise nothing under
  fairness: they act when they are asked.

## Proofs

The `...Proofs` modules hold for every value of the constants, from the
assumptions named in the component's module.  Every invariant that a passing run
checks is proved.  An invariant of a run is seldom inductive; each paragraph
says what has to be added, and why.  TLC finds the strengthenings of AuditChain,
Sessions and IngestQueue to hold on the instances of their runs.

| Module | Proves |
|---|---|
| `SinkProofs` | Outbox, that it implements DeliveryContract, and Reconciler; the composition `MCSinks` |
| `IngestQueueProofs` | IngestQueue |
| `IdempotencyProofs` | Idempotency |
| `AuditChainProofs` | AuditChain: the stored chain, retention, the verifier |
| `SessionsProofs` | Sessions |
| `RecordsProofs` | the composition `MCRecords` of the last two |
| `FeatureProofs` | StreamIndexer, ResponseActions, SingleFlight; the composition `MCFeatures` |
| `DataLemmas` | facts about numbers, finite sets and sums that the others cite |

**Outbox.**  `NoEventLost` is not inductive: a stale holder could rewrite a row to
less than is owed.  It becomes inductive with `HoldersCover` (what any holder,
current or stale, would write back, together with what is already handled,
covers the batch), with `OnlyEnqueued` (rows and claims carry nothing foreign)
and with the types; their conjunction is `OutboxInv`.  The argument is that
`Handled` only grows (`HandledGrows`), so a claim, once it covers its batch,
covers it for ever, whatever the others settle: no fencing is needed for
safety.  From `OutboxInv`: `TypeCorrect`, `NothingLost`, `StaleHoldersHarmless`.
`ContractImplemented` shows that every step of `Outbox` is a step of
`DeliveryContract` or leaves its variables alone.

The lease properties (`OneHolderAtATime`, `DeadLettersFinal`, `RowsShrink`) hold as
long as no delivery outlasted its lease.  Their invariant is `LeaseInv`, over `Owned`.

**Reconciler.**  `MissingAreReported` from `ReconcileInv`: what is absent all along
was found, or its minute is still to be drilled, or had extra rows.  The
heart is `ShortMinute`: without extra rows, the rows of a minute inject into its
counted events other than the absent one, so the count is short.
`RepairsBudgeted`: the types are inductive only with `WithinBudget`, that what a
pass has selected fits the budget it has left; `missing[:budget]` gives it by
`FirstFew` (of the elements with fewer than n below them there are at most n).

**IngestQueue.**  The proofs follow one message through one command at a time.
`TypeCorrect`: the inductive form `Typed` of the types adds what a worker holds
at each place of the loop, from which the limits of the dead letter list and of
the hands follow.
`NothingAcceptedIsLost`: let a message be *held* if it is in a list, in a hand, a
dead letter or discarded with one (`Held`).  A step takes a message from there
only if it is stored (`Keeps`), unless a process fails with it in memory.  The
one step for which this is not obvious is the LREM of an acknowledgement, which
removes by value what another worker may have queued again; `AckedStored` says
that whatever is about to be removed is stored.  Any number of workers may
share the lists.
`CounterCovers` and `StoredAtMostOnce` are about one worker, the hypothesis
`Worker = {w}`, as deployed (`GROUPS` in `workers/manager.py`).  `Alone` says
that, until a redrive fails, a message is in one place (`OnePlace`), that the
batch of the worker is still in the processing list until it is acknowledged
(`BatchThere`), and that the counter covers the lists and what the worker has
yet to take off (`Covered`); so LREM finds exactly what the counter is then
lowered by, and it is never clamped.  `Calm` adds, as long as nothing but
refused transactions happens, that what is anywhere but in an acknowledgement
is not stored (`NotYet`).  With two workers both fail, and TLC shows it.

**Idempotency.**  `TypeCorrect`; `AcknowledgedTookEffect`, from `AckInv`: a
completed key, and a request about to save one, stand for a handler that took
effect; `OneContentAccepted`, from `OwnerInv`: until a claim of a live request
lapses, a key has one owner; `EffectAtMostOnce`, from `EffectInv`: unless a
key expires or a handler fails after its effect, nobody is about to run the
handler once it took effect.

**AuditChain.**  `CommitOrder` is not inductive: it says nothing of the rows an
open transaction has linked.  `ChainInv` adds that these continue the committed
chain (`InChain`) and that one transaction at a time has any (`OneLinker`,
which is what the row lock gives), and a weak typing.  A commit then finds the
head where its first link found it.  From it: `CommitOrdered`.

`NothingUnaccounted` needs `GoneForGood` beside the two halves of `Accounted`
(together: `Books`): a row that is gone does not come back, so the checkpoint of
a prune is a new element of the table, and its count is added to the sum
(`SumTakeOut`).  The checkpoints' counts are summed by a fold over a set, whose
value does not depend on the order by `SumAnyOrder`.

`CheckpointsInOneChain` and `SurvivorsAnchored` hold while `created_at` grows with
`seq`.  `Orderly` says what that order gives: prunes go upwards, every checkpoint
ends below every stored row (`FromBelow`), so the latest checkpoint is the one
the next follows, and the first row that survives has one right before it or
its predecessor.

The verifier reads without a lock, so `PassInv` says what a page that was read
some time ago still tells: its rows are rows of the log, and all that was below
its end (`PageRead`); a loss below the page is reported (`LossSeen`), and all of
them when the pass ends (`LossTold`); and if nothing excuses a break, the page
has no holes, and what precedes it is a row or a checkpoint (`QuietPass`), where
it will be looked for.  From it `LossesReported` and `NoFalseAlarm`.

`ChainTyped` bounds the types: a sequence number never exceeds the events that
were created.  `Room` is the counting argument: the head, the rows of the one
transaction that has linked any and the stamped events of all the others
together are at most `issued`.

**Sessions.**  `Core` collects what the transactions keep of each other: what
each kind of transaction has read at each place (`Shaped`), row locks
(`LocksApart`) and new ids (`IdsApart`) are not shared, families exist, a
one-time token is spent by one transaction (`SpendsApart`), what a session was
granted for is spent (`OriginSpent`), and the versions ended are past, unless
sweeps crossed (`Versions`).  From it: `OneUsableSession`, `CredentialSpentOnce`, `RetiredForGood`
and `RevokedForGood`, for any number of requests, sessions and tokens.

`SweptStaysSwept` (`SurvivorsOverlap`) speaks of sweeps that have committed; the
invariant `Sweeps` has to speak of those under way.  A sweep has yet to lock, or
has revoked, every usable session of the families it covers but the excused
ones (`Reached`), and a rotation that holds a row of a family that is or was
swept is excused (`Excuses`): whoever holds the row first, the other meets it.

`SessionsTyped`: a commit writes a version it read earlier, plus one, so the
bound on `token_version` needs `Paced`: the version of the user, and that of each
open sweep, leave room for all the sweeps that have yet to commit.

**StreamIndexer.**  `NothingDropped` follows from `Typed` and `AcksHaveCause`: what
an indexer is about to acknowledge is indexed or written off.  That a group moves
without a read only when it is created, and that what is pending or unread when
it is lost is recorded in `skipped`, is the rest.  `AcksHaveCause` also says that
what is about to be dead-lettered as refused is refused for good, which
`FeaturesTyped` needs.  `RetriesEarned`
adds `AttemptsCovered`: the attempts counted, and those about to be, never exceed
the transient answers seen, however many indexers share an entry.

**ResponseActions.**  `ResultOfAction` from `AllAgree`, for every action that no
stale viewer overwrote; `ShellCommandsBounded` by counting: an insertion needs an
administrator that found room, and each adds at most one.

**SingleFlight.**  `ComputedOnce` from `FlightInv`: who is not excused and leads
has its token in the lock, and who is about to look a last time, with no
leader, finds the value.

**Compositions.**  `PartsRun`, in each of the three modules: a behaviour of the
composition is a behaviour of every component, because a step of the
composition is a step of one component and leaves the others' variables alone
(`StepOfPart`).  So the components' theorems hold of what the runs explore.
`SinksTyped`, `RecordsTyped` and `FeaturesTyped` are the type invariants of the
compositions.

**Induction.**  Finite sets and naturals are the only data that is induced over.
The library's induction theorems take an operator, so `DataLemmas` states
induction with a set instead: a set of numbers closed under successor
(`NatInductionSet`), a set of subsets closed under adding an element
(`SubsetInduction`); a property is then the set of what has it.

Only model-checked: the liveness properties, which need fairness and ENABLED
and are out of the prover's reach: `EveryBatchSettles` (of Outbox and of
IngestQueue), `EveryEventProjected`, `EventuallyAcknowledged`, `EveryEntrySettles`
and `EveryCallerAnswered`.

## Limits

- Payloads, hashes, signatures, metrics, logs and formats are abstracted.  In
  particular `event_hash_mismatch`, the report of an edited audit row, needs the
  content of rows and is not modelled.
- Elasticsearch, ClickHouse and the broker appear only through what a delivery
  may report and what may have landed.
- Sampling, validation and the storm control in front of the queue are not
  modelled: the queue accepts any message.
- `get_backlog` overwrites the backlog counter with a length it read in other
  commands; `BacklogCovers` is about the paths that settle the counter, not about
  this repair.
- The Kafka variant of the indexer (`es_redpanda.py`) and the watermark are not
  modelled, nor is the trimming of streams.
- The reconciler: nothing is removed from the hot store by retention.  The write
  that the API makes to ClickHouse itself when the queue is down is left out.
- The stream: `start_id` is `$` or `0`, no id in between.  When Redis loses its
  data the dead letter stream is lost too; `parked` stands for what was written.
- `queue_live` explores crashes and refusals of PostgreSQL; that a failing Redis
  delays messages but does not strand them is not checked.
- Several users, roles, cookies and the limits on failed logins are not part of
  Sessions; its properties are about the rows of one user.
- Rows of `admin_audit_events` are at the isolation level the code uses, READ
  COMMITTED: each statement sees the commits before it.

### Not modelled

`PROJECT.json` lists the parts without a module and why.  Those worth modelling
next are in the plan; the others keep no state that concurrent actors share,
recompute derived data, or are string-heavy and sequential.

## Plan

In order of importance:

1. `IngestPipeline`: Idempotency, IngestQueue and Outbox composed, with the
   abstract specification that an acknowledged batch is stored at least once and
   projected or written off, and exactly once without faults.
2. `Pressure`: the phase machine as a function checked over bounded inputs, and
   its read-modify-write by several processes; the repair of the counter.
3. `KafkaIndexer` and `Watermark`: batches that raise, rebalances during a
   backoff, and an abstract offset that never passes an unindexed event.
4. `PortalLimits`: rate limiter windows and the connection ledger.
5. `Enrollment`: tokens, replay and certificates against concurrent use.
6. `WorkerManager`: restart with backoff, and shutdown.

Theorems, next to what is proved: the refinement of `IngestPipeline` once it is
stated, built from `NothingAcceptedIsLost`, `AcknowledgedTookEffect` and
`ContractImplemented`; an abstract specification of the sessions of one family
(granted, rotated, revoked) that `Sessions` implements; and the safety halves of
the liveness properties (a measure that no step but a fault increases).
