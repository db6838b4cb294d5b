------------------------------- MODULE Outbox -------------------------------
(***************************************************************************)
(* The transactional outbox of one analytical sink, and the dispatchers    *)
(* that drain it (app/shared/outbox/store.py, app/workers/sinks).          *)
(*                                                                         *)
(* A producer commits a row of event_outbox together with the events it    *)
(* describes.  A dispatcher claims due rows under a lease, delivers each   *)
(* batch to the sink, and settles it in one transaction: the row is        *)
(* deleted, rewritten with the events to retry, or its events are moved to *)
(* event_outbox_dead_letter.  A settlement names the row only by its id:   *)
(* nothing checks that the dispatcher still holds the lease.               *)
(*                                                                         *)
(* Time is abstracted.  A row is "due" (available_at <= now) or "held"     *)
(* (available_at in the future: leased, or backing off), and the order of  *)
(* the due rows by (available_at, id) is kept in older.  attempts          *)
(* saturates at MaxAttempts, the only value the code compares it with.     *)
(***************************************************************************)
EXTENDS Naturals, FiniteSets

CONSTANTS
  Batch,         \* ids of event_outbox rows
  Event,         \* the events that batches carry
  Dispatcher,    \* dispatcher threads draining this sink, one per replica
  MaxAttempts,   \* DispatcherConfig.max_attempts
  ClaimBatches,  \* DispatcherConfig.claim_batches
  PerItem,       \* TRUE: Elasticsearch (item by item); FALSE: ClickHouse
  MaxCrashes     \* bound on how often dispatchers die or abandon a claim

ASSUME OutboxAssumption ==
  /\ MaxAttempts \in Nat \ {0}
  /\ ClaimBatches \in Nat \ {0}
  /\ PerItem \in BOOLEAN
  /\ MaxCrashes \in Nat

VARIABLES
  row,       \* event_outbox: state, payload and attempts of each row
  older,     \* older[b]: the due rows that a claim takes before row b
  claim,     \* claim[d][b]: what dispatcher d holds in memory of batch b
  sink,      \* events the projection has applied
  dlq,       \* event_outbox_dead_letter
  enqueued,  \* history: the events each batch was enqueued with
  purged,    \* history: events whose dead letter has been purged
  overran,   \* history: a lease lapsed while its dispatcher was at work
  crashes    \* crashes so far, for the bound

vars == <<row, older, claim, sink, dlq, enqueued, purged, overran, crashes>>

-----------------------------------------------------------------------------
Reason == {"rejected", "max_attempts"}

Row == [state: {"none", "due", "held", "gone"},
        payload: SUBSET Event, attempts: 0 .. MaxAttempts]

Claimed == [phase: {"none", "claimed", "delivered"}, events: SUBSET Event,
            attempts: 0 .. MaxAttempts,
            retry: SUBSET Event, dead: SUBSET Event]

DeadLetter == [batch: Batch, events: SUBSET Event, reason: Reason]

NoRow   == [state |-> "none", payload |-> {}, attempts |-> 0]
GoneRow == [state |-> "gone", payload |-> {}, attempts |-> 0]
NoClaim == [phase |-> "none", events |-> {}, attempts |-> 0,
            retry |-> {}, dead |-> {}]

Present(b) == row[b].state \in {"due", "held"}

\* Mutant: claim does not look at available_at, so leases hide nothing.
DueOrLeased == {b \in Batch : Present(b)}

Due == {b \in Batch : row[b].state = "due"}

Holds(d, b) == claim[d][b].phase # "none"
Idle(d)    == \A b \in Batch : ~Holds(d, b)
InFlight(d, b) == claim[d][b].phase = "delivered"

\* Events that left the outbox for good: applied, or written off on record.
EventsOf(recs) == {e \in Event : \E rec \in recs : e \in rec.events}
Handled == sink \cup EventsOf(dlq) \cup purged

TypeOK ==
  /\ row \in [Batch -> Row]
  /\ older \in [Batch -> SUBSET Batch]
  /\ claim \in [Dispatcher -> [Batch -> Claimed]]
  /\ sink \subseteq Event
  /\ dlq \subseteq DeadLetter
  /\ enqueued \in [Batch -> SUBSET Event]
  /\ purged \subseteq Event
  /\ overran \in BOOLEAN
  /\ crashes \in 0 .. MaxCrashes

Init ==
  /\ row = [b \in Batch |-> NoRow]
  /\ older = [b \in Batch |-> {}]
  /\ claim = [d \in Dispatcher |-> [b \in Batch |-> NoClaim]]
  /\ sink = {}
  /\ dlq = {}
  /\ enqueued = [b \in Batch |-> {}]
  /\ purged = {}
  /\ overran = FALSE
  /\ crashes = 0

-----------------------------------------------------------------------------
\* The rows of S are no longer due: no row waits behind them.
Unqueue(S) == [b \in Batch |-> IF b \in S THEN {} ELSE older[b] \ S]

\* store.enqueue, inside the producer's transaction.
Enqueue(b, events) ==
  /\ row[b].state = "none"
  /\ events # {}
  /\ row' = [row EXCEPT ![b] = [state |-> "due", payload |-> events,
                                attempts |-> 0]]
  /\ older' = [older EXCEPT ![b] = Due]
  /\ enqueued' = [enqueued EXCEPT ![b] = events]
  /\ UNCHANGED <<claim, sink, dlq, purged, overran, crashes>>

\* Time reaches available_at: a lease lapses or a backoff ends.
BecomesDue(b) ==
  /\ row[b].state = "held"
  /\ row' = [row EXCEPT ![b].state = "due"]
  /\ older' = [older EXCEPT ![b] = Due]
  /\ overran' = (overran \/ \E d \in Dispatcher : Holds(d, b))
  /\ UNCHANGED <<claim, sink, dlq, enqueued, purged, crashes>>

\* The first ClaimBatches due rows in (available_at, id) order.
Oldest(S) ==
  /\ \A b \in S : older[b] \subseteq S
  /\ \/ Cardinality(S) = ClaimBatches
     \/ S = Due /\ Cardinality(S) < ClaimBatches

\* Mutant: claim forgets to count an attempt.
SameAttempt(b) == row[b].attempts

NextAttempt(b) ==
  IF row[b].attempts < MaxAttempts THEN row[b].attempts + 1 ELSE MaxAttempts

\* drain_once, store.claim: lease the rows and read their payload.
Claim(d) ==
  /\ Idle(d)
  /\ \E S \in SUBSET Due :
       /\ S # {}
       /\ Oldest(S)
       /\ row' = [b \in Batch |->
            IF b \in S THEN [row[b] EXCEPT !.state = "held",
                                           !.attempts = NextAttempt(b)]
                       ELSE row[b]]
       /\ older' = Unqueue(S)
       /\ claim' = [claim EXCEPT ![d] = [b \in Batch |->
            IF b \in S THEN [phase |-> "claimed", events |-> row[b].payload,
                             attempts |-> NextAttempt(b),
                             retry |-> {}, dead |-> {}]
                       ELSE NoClaim]]
  /\ UNCHANGED <<sink, dlq, enqueued, purged, overran, crashes>>

\* What a delivery may report: Elasticsearch per document, ClickHouse all or
\* nothing (retry_all).
Report(events, retry, dead) ==
  IF PerItem THEN retry \cap dead = {}
             ELSE retry \in {{}, events} /\ dead = {}

\* Mutant: a bulk response is not parsed and its failures count as success.
AppliedUnparsed(events, retry, dead) == {}

\* The events reported delivered are in the sink.
Applied(events, retry, dead) == events \ (retry \cup dead)

\* delivery.deliver.  A request that fails for the dispatcher may still have
\* landed, so any part of the events to retry may be in the sink.
Deliver(d, b) ==
  /\ claim[d][b].phase = "claimed"
  /\ \A c \in Batch : ~InFlight(d, c)
  /\ \E retry, dead \in SUBSET claim[d][b].events :
       /\ Report(claim[d][b].events, retry, dead)
       /\ \E landed \in SUBSET retry :
            sink' = sink \cup landed \cup Applied(claim[d][b].events, retry, dead)
       /\ claim' = [claim EXCEPT ![d][b] =
            [@ EXCEPT !.phase = "delivered", !.retry = retry, !.dead = dead]]
  /\ UNCHANGED <<row, older, dlq, enqueued, purged, overran, crashes>>

Exhausted(d, b) == claim[d][b].attempts >= MaxAttempts

\* Mutant: exhausted batches are dropped without a dead letter.
DropExhausted(b, events, reason) ==
  IF events = {} \/ reason = "max_attempts" THEN {}
  ELSE {[batch |-> b, events |-> events, reason |-> reason]}

\* store.dead_letter: a row only for a non-empty list of events.
DeadLetterRows(b, events, reason) ==
  IF events = {} THEN {}
  ELSE {[batch |-> b, events |-> events, reason |-> reason]}

\* Mutants: a retry deletes its row, or keeps its payload.
RescheduleDeletes(b, events) ==
  row' = IF Present(b) THEN [row EXCEPT ![b] = GoneRow] ELSE row
RescheduleKeeps(b, events) ==
  row' = IF Present(b) THEN [row EXCEPT ![b] = [@ EXCEPT !.state = "held"]]
         ELSE row

\* store.reschedule updates the row by id, and changes nothing if it is gone.
Reschedule(b, events) ==
  row' = IF Present(b)
         THEN [row EXCEPT ![b] = [@ EXCEPT !.state = "held", !.payload = events]]
         ELSE row

\* store.complete deletes the row by id, whoever holds its lease now.
Complete(b) ==
  row' = IF Present(b) THEN [row EXCEPT ![b] = GoneRow] ELSE row

\* OutboxDispatcher._settle, one transaction.
Settle(d, b) ==
  LET c == claim[d][b] IN
  /\ InFlight(d, b)
  /\ dlq' = dlq \cup DeadLetterRows(b, c.dead, "rejected")
                \cup (IF Exhausted(d, b)
                      THEN DeadLetterRows(b, c.retry, "max_attempts") ELSE {})
  /\ IF c.retry # {} /\ ~Exhausted(d, b)
     THEN Reschedule(b, c.retry)
     ELSE Complete(b)
  /\ older' = Unqueue({b})
  /\ claim' = [claim EXCEPT ![d][b] = NoClaim]
  /\ UNCHANGED <<sink, enqueued, purged, overran, crashes>>

\* The process dies, or an exception escapes drain_once: whatever it had
\* claimed and not settled is forgotten.
Crash(d) ==
  /\ crashes < MaxCrashes
  /\ ~Idle(d)
  /\ claim' = [claim EXCEPT ![d] = [b \in Batch |-> NoClaim]]
  /\ crashes' = crashes + 1
  /\ UNCHANGED <<row, older, sink, dlq, enqueued, purged, overran>>

\* purge_dead_letters: rows past the retention are deleted.
PurgeDeadLetters ==
  \E old \in SUBSET dlq :
    /\ old # {}
    /\ dlq' = dlq \ old
    /\ purged' = purged \cup EventsOf(old)
    /\ UNCHANGED <<row, older, claim, sink, enqueued, overran, crashes>>

Next ==
  \/ \E b \in Batch, events \in SUBSET Event : Enqueue(b, events)
  \/ \E b \in Batch : BecomesDue(b)
  \/ \E d \in Dispatcher : Claim(d)
  \/ \E d \in Dispatcher, b \in Batch : Deliver(d, b)
  \/ \E d \in Dispatcher, b \in Batch : Settle(d, b)
  \/ \E d \in Dispatcher : Crash(d)
  \/ PurgeDeadLetters

Spec == Init /\ [][Next]_vars

\* A dispatcher thread loops for ever and time passes; producers owe nothing.
Fairness ==
  /\ \A b \in Batch : WF_vars(BecomesDue(b))
  /\ \A d \in Dispatcher :
       /\ WF_vars(Claim(d))
       /\ WF_vars(\E b \in Batch : Deliver(d, b))
       /\ WF_vars(\E b \in Batch : Settle(d, b))

FairSpec == Spec /\ Fairness

-----------------------------------------------------------------------------
(* Properties.                                                             *)

\* Every event of every batch is still in its row, or was applied by the
\* sink, or is on record as a dead letter.  No lapsed lease, stale settlement,
\* partial delivery or crash drops it (drain_once, _settle).
NoEventLost ==
  \A b \in Batch :
    enqueued[b] \subseteq Handled \cup (IF Present(b) THEN row[b].payload ELSE {})

\* What a holder would write back, together with what is already resolved,
\* covers its batch, even when its lease lapsed and the row moved on: this is
\* why a settlement needs no fencing token (_settle, store.reschedule).
Unsettled(d, b) ==
  IF claim[d][b].phase = "claimed" THEN claim[d][b].events
                                   ELSE claim[d][b].retry \cup claim[d][b].dead

HoldersCover ==
  \A d \in Dispatcher, b \in Batch :
    Holds(d, b) => enqueued[b] \subseteq Handled \cup Unsettled(d, b)

\* As long as no delivery outlasted its lease, a batch has one holder at a time:
\* claim hands a row out again only after its holder died (store.claim).
SingleHolder ==
  ~overran => \A d1, d2 \in Dispatcher, b \in Batch :
    Holds(d1, b) /\ Holds(d2, b) => d1 = d2

\* Under the same condition a dead letter is final: an event written off for
\* a batch is not pending in that batch again (_settle, store.reschedule).
DeadLetterIsFinal ==
  ~overran => \A rec \in dlq :
    Present(rec.batch) => rec.events \cap row[rec.batch].payload = {}

\* Under the same condition a rewritten row only ever shrinks to the events
\* still owed, so a settled event is never sent again but after a crash
\* (store.reschedule).
PayloadOnlyShrinks ==
  [][~overran => \A b \in Batch : Present(b) /\ Present(b)' =>
        row'[b].payload \subseteq row[b].payload]_vars

\* A row is a promise until it is settled: batch ids are not reused, and the
\* dispatchers implement the contract step by step (drain_once, _settle).
Contract == INSTANCE DeliveryContract
  WITH accepted <- enqueued,
       open     <- {b \in Batch : Present(b)},
       resolved <- Handled

ImplementsContract == Contract!Safe

\* Batches carry only what they were enqueued with.
OnlyEnqueued ==
  /\ \A b \in Batch :
       /\ row[b].state = "none" => enqueued[b] = {}
       /\ row[b].payload \subseteq enqueued[b]
  /\ \A d \in Dispatcher, b \in Batch :
       /\ Holds(d, b) => row[b].state # "none"
       /\ claim[d][b].events \subseteq enqueued[b]
       /\ claim[d][b].retry \subseteq claim[d][b].events
       /\ claim[d][b].dead \subseteq claim[d][b].events

\* The inductive invariant behind NoEventLost and ImplementsContract.
OutboxInv == TypeOK /\ OnlyEnqueued /\ NoEventLost /\ HoldersCover

\* Every batch is settled in the end: retries are bounded by MaxAttempts, a
\* lapsed lease is claimed again and the oldest row goes first (run).
EveryBatchSettles == Contract!Closes
=============================================================================
