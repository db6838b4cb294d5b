---------------------------- MODULE IngestQueue ----------------------------
(***************************************************************************)
(* The Redis buffer between POST /ingest/events and the event store, the   *)
(* workers that drain it, and its dead letter list                         *)
(* (app/features/ingest/control, app/workers/ingest).                      *)
(*                                                                         *)
(* The API answers durable and leaves a message in the queue list.  A      *)
(* worker moves messages to the processing list, stores a batch of them in *)
(* one PostgreSQL transaction, and removes them by value.  The processing  *)
(* list is shared: a worker that starts, or whose loop fails, takes every  *)
(* message out of it, the ones other workers are storing included.         *)
(*                                                                         *)
(* A message is its id and its _retry_count, which together decide the     *)
(* bytes LREM compares; each message carries one event.  Every step is one *)
(* Redis command (or MULTI) or one PostgreSQL transaction.  A command may  *)
(* raise: where a reply lost after the command took effect looks like a    *)
(* success followed by a command that raises, only the latter is modelled. *)
(***************************************************************************)
EXTENDS Integers, SequencesExt

CONSTANTS
  Message,        \* ids of the ingest messages
  Poison,         \* messages whose transaction PostgreSQL always refuses
  Worker,         \* ingest worker processes sharing the lists
  BatchMessages,  \* WorkerConfig.batch_messages
  MaxRetries,     \* SEAGULL_INGEST_WORKER_MAX_MESSAGE_RETRIES
  DeadLetterMax,  \* DEADLETTER_MAX_MESSAGES
  Faults,         \* the kinds of fault that may happen
  MaxFaults,      \* bound on the number of faults
  MaxRedrives     \* bound on the number of messages redriven

\* crash: a process dies.  redis: a command of a worker or of the API raises.
\* redrive: the MULTI of a redrive raises.  pg: a transaction fails.  unknown:
\* a transaction commits but its caller sees an error.  window: a process dies,
\* or a command raises, while a message is only in the memory of the process.
FaultKind == {"crash", "redis", "redrive", "pg", "unknown", "window"}

ASSUME IngestQueueAssumption ==
  /\ Poison \subseteq Message
  /\ BatchMessages \in Nat \ {0}
  /\ MaxRetries \in Nat \ {0}
  /\ DeadLetterMax \in Nat \ {0}
  /\ Faults \subseteq FaultKind
  /\ MaxFaults \in Nat
  /\ MaxRedrives \in Nat

VARIABLES
  queue,      \* the queue list; the API pushes to, and workers pop from, its end
  proc,       \* the processing list; messages enter at its head
  dead,       \* the dead letter list, oldest first
  backlog,    \* the backlog_events counter
  worker,     \* the local state of each worker
  admin,      \* the message a redrive request has in memory
  offered,    \* history: messages sent (a batch sent again is another message)
  accepted,   \* history: messages answered durable: true
  stored,     \* history: how often a message was stored (2 for more)
  discarded,  \* history: messages purged, expired or trimmed from dead
  faults,     \* faults so far, for the bound
  happened,   \* history: the kinds of fault so far
  redrives    \* redrives so far, for the bound

lists   == <<queue, proc, dead>>
history == <<offered, accepted, discarded>>
bounds  == <<faults, happened, redrives>>
vars    == <<lists, backlog, worker, admin, stored, history, bounds>>

-----------------------------------------------------------------------------
Payload == [id: Message, retry: 0 .. MaxRetries + 1]

\* Where main is: requeueing at startup, collecting a batch, storing it,
\* acknowledging it, settling the counter, or in the retry loop with the
\* message it popped.
Local == [pc: {"startup", "idle", "fetch", "commit", "ack", "ack_each",
               "decr", "clamp", "retry", "hold", "park"},
          items: Seq(Payload), left: Nat, amount: Nat, hand: Seq(Payload)]

Fresh == [pc |-> "startup", items |-> <<>>, left |-> 0, amount |-> 0,
          hand |-> <<>>]

Ids(s) == {s[i].id : i \in DOMAIN s}

TypeOK ==
  /\ queue \in Seq(Payload) /\ proc \in Seq(Payload) /\ dead \in Seq(Payload)
  /\ backlog \in Int
  /\ worker \in [Worker -> Local]
  /\ admin \in Seq(Payload)
  /\ accepted \subseteq offered /\ offered \subseteq Message
  /\ stored \in [Message -> 0 .. 2]
  /\ discarded \subseteq Message
  /\ faults \in 0 .. MaxFaults
  /\ happened \subseteq Faults
  /\ redrives \in 0 .. MaxRedrives
  /\ Len(dead) <= DeadLetterMax + 1
  /\ \A w \in Worker : Len(worker[w].hand) <= 1

Init ==
  /\ queue = <<>> /\ proc = <<>> /\ dead = <<>>
  /\ backlog = 0
  /\ worker = [w \in Worker |-> Fresh]
  /\ admin = <<>>
  /\ offered = {} /\ accepted = {}
  /\ stored = [m \in Message |-> 0]
  /\ discarded = {}
  /\ faults = 0 /\ happened = {}
  /\ redrives = 0

Fault(kind) ==
  /\ kind \in Faults
  /\ faults < MaxFaults
  /\ faults' = faults + 1
  /\ happened' = happened \cup {kind}

NoFault == UNCHANGED <<faults, happened>>

Goto(w, pc) == worker' = [worker EXCEPT ![w] = [@ EXCEPT !.pc = pc]]

Idle(w)       == worker' = [worker EXCEPT ![w] = [Fresh EXCEPT !.pc = "idle"]]
RetryLoop(w)  == worker' = [worker EXCEPT ![w] = [Fresh EXCEPT !.pc = "retry"]]

Store(ids) == [m \in Message |->
  IF m \in ids /\ stored[m] < 2 THEN stored[m] + 1 ELSE stored[m]]

-----------------------------------------------------------------------------
(* The API.                                                                *)

\* ingest_events, enqueue_ingest_message: RPUSH and INCRBY in one MULTI.
Accept(m) ==
  /\ m \notin offered
  /\ offered' = offered \cup {m}
  /\ queue' = Append(queue, [id |-> m, retry |-> 0])
  /\ backlog' = backlog + 1
  /\ accepted' = accepted \cup {m}
  /\ UNCHANGED <<proc, dead, worker, admin, stored, discarded, bounds>>

\* The MULTI raises, applied or not, and the batch is inserted directly.  If
\* that fails too the request fails.
AcceptDirectly(m) ==
  /\ m \notin offered
  /\ offered' = offered \cup {m}
  /\ Fault("redis")
  /\ \/ UNCHANGED <<queue, backlog>>
     \/ /\ queue' = Append(queue, [id |-> m, retry |-> 0])
        /\ backlog' = backlog + 1
  /\ \/ /\ m \notin Poison
        /\ stored' = Store({m})
        /\ accepted' = accepted \cup {m}
     \/ UNCHANGED <<stored, accepted>>
  /\ UNCHANGED <<proc, dead, worker, admin, discarded, redrives>>

-----------------------------------------------------------------------------
(* The worker loop.                                                        *)

\* Mutant: messages are popped from the processing list and not pushed back.
PopOnly(s) == queue

PushBack(s) == <<Last(s)>> \o queue

\* _requeue_processing: everything in the processing list, whoever put it
\* there, goes back to the queue.
Startup(w) ==
  /\ worker[w].pc = "startup"
  /\ proc # <<>>
  /\ queue' = PushBack(proc)
  /\ proc' = Front(proc)
  /\ UNCHANGED <<dead, backlog, worker, admin, stored, history, bounds>>

\* It ends when the list is empty, or a command raises.
StartupEnds(w) ==
  /\ worker[w].pc = "startup"
  /\ \/ proc = <<>> /\ NoFault
     \/ Fault("redis")
  /\ Idle(w)
  /\ UNCHANGED <<lists, backlog, admin, stored, history, redrives>>

\* BRPOPLPUSH, then RPOPLPUSH until the batch is full.
Fetch(w) ==
  /\ worker[w].pc \in {"idle", "fetch"}
  /\ queue # <<>>
  /\ queue' = Front(queue)
  /\ proc' = <<Last(queue)>> \o proc
  /\ LET items == Append(worker[w].items, Last(queue)) IN
     worker' = [worker EXCEPT ![w] = [@ EXCEPT !.items = items,
       !.pc = IF Len(items) = BatchMessages THEN "commit" ELSE "fetch"]]
  /\ UNCHANGED <<dead, backlog, admin, stored, history, bounds>>

\* The queue ran out before the batch was full.
FetchEnds(w) ==
  /\ worker[w].pc = "fetch"
  /\ queue = <<>>
  /\ Goto(w, "commit")
  /\ UNCHANGED <<lists, backlog, admin, stored, history, bounds>>

FetchFails(w) ==
  /\ worker[w].pc \in {"idle", "fetch"}
  /\ Fault("redis")
  /\ RetryLoop(w)
  /\ UNCHANGED <<lists, backlog, admin, stored, history, redrives>>

\* Mutant: the rows of the healthy messages are kept when one is refused.
StoreHealthy(ids) == Store(ids \ Poison)

RolledBack(ids) == stored

Refused(ids) == ids \cap Poison # {}

\* with engine.begin(): the rows of every message of the batch, or none.
Commit(w) ==
  LET ids == Ids(worker[w].items) IN
  /\ worker[w].pc = "commit"
  /\ \/ /\ ~Refused(ids)
        /\ stored' = Store(ids)
        /\ Goto(w, "ack")
        /\ NoFault
     \/ /\ IF Refused(ids) THEN NoFault ELSE Fault("pg")
        /\ stored' = RolledBack(ids)
        /\ RetryLoop(w)
     \/ /\ ~Refused(ids)
        /\ Fault("unknown")
        /\ stored' = Store(ids)
        /\ RetryLoop(w)
  /\ UNCHANGED <<lists, backlog, admin, history, redrives>>

\* Mutant: the batch is counted as done and left in the processing list.
NotRemoved(s, items) == s

\* LREM key 1 raw for each of the items.
Removed(s, items) == FoldLeft(RemoveFirst, s, items)

Copies(s, e) == Cardinality({i \in DOMAIN s : s[i] = e})

\* The items that are still in the processing list, so that LREM finds them.
Found(items) == {i \in DOMAIN items :
  Copies(SubSeq(items, 1, i), items[i]) <= Copies(proc, items[i])}

\* removed_received: received_by_raw sums over equal payloads of the batch,
\* and each of them that LREM finds counts that sum.
RemovedReceived(items) ==
  MapThenSumSet(LAMBDA i : Copies(items, items[i]), Found(items))

\* The MULTI of LREMs.  If nothing was there to remove the whole batch is
\* counted nevertheless.
Ack(w) ==
  LET items == worker[w].items
      removed == RemovedReceived(items)
  IN
  /\ worker[w].pc = "ack"
  /\ \/ /\ proc' = Removed(proc, items)
        /\ worker' = [worker EXCEPT ![w] = [Fresh EXCEPT !.pc = "decr",
             !.amount = IF removed > 0 THEN removed ELSE Len(items)]]
        /\ NoFault
     \/ /\ Fault("redis")
        /\ \/ proc' = Removed(proc, items)
           \/ UNCHANGED proc
        /\ worker' = [worker EXCEPT ![w] = [@ EXCEPT !.pc = "ack_each",
                                                     !.left = Len(items)]]
  /\ UNCHANGED <<queue, dead, backlog, admin, stored, history, redrives>>

\* After a MULTI that raised, one LREM for each item.
AckEach(w) ==
  LET items == worker[w].items
      i     == Len(items) - worker[w].left + 1
      raw   == items[i]
      Next1(n) == worker' = [worker EXCEPT ![w] =
                    [worker[w] EXCEPT !.left = @ - 1, !.amount = @ + n]]
  IN
  /\ worker[w].pc = "ack_each"
  /\ worker[w].left > 0
  /\ \/ /\ proc' = RemoveFirst(proc, raw)
        /\ Next1(IF Contains(proc, raw) THEN Copies(items, raw) ELSE 0)
        /\ NoFault
     \/ /\ Fault("redis")
        /\ \/ proc' = RemoveFirst(proc, raw)
           \/ UNCHANGED proc
        /\ Next1(0)
  /\ UNCHANGED <<queue, dead, backlog, admin, stored, history, redrives>>

\* The counter follows if anything was removed; otherwise the retry loop runs.
AckEachEnds(w) ==
  /\ worker[w].pc = "ack_each"
  /\ worker[w].left = 0
  /\ IF worker[w].amount > 0
     THEN worker' = [worker EXCEPT ![w] =
            [Fresh EXCEPT !.pc = "decr", !.amount = worker[w].amount]]
     ELSE RetryLoop(w)
  /\ UNCHANGED <<lists, backlog, admin, stored, history, bounds>>

\* After _decr_backlog_events: back to the loop, or to the message in hand.
Resume(w) ==
  IF worker[w].hand = <<>> THEN Idle(w) ELSE Goto(w, "park")

\* _decr_backlog_events: DECRBY; an exception is swallowed.
Decr(w) ==
  /\ worker[w].pc = "decr"
  /\ \/ /\ backlog' = backlog - worker[w].amount
        /\ IF backlog' < 0 THEN Goto(w, "clamp") ELSE Resume(w)
        /\ NoFault
     \/ /\ Fault("redis")
        /\ Resume(w)
        /\ UNCHANGED backlog
  /\ UNCHANGED <<lists, admin, stored, history, redrives>>

\* SET 0 after a DECRBY that returned a negative value.
Clamp(w) ==
  /\ worker[w].pc = "clamp"
  /\ backlog' = 0
  /\ Resume(w)
  /\ UNCHANGED <<lists, admin, stored, history, bounds>>

-----------------------------------------------------------------------------
(* _requeue_processing_with_retry_cap.                                     *)

\* Mutants: the retry count is not raised, or the cap is off by one.
KeepCount(msg) == msg
OneMore(msg)   == msg.retry <= MaxRetries + 1

NextRetry(msg) == [msg EXCEPT !.retry = @ + 1]
Retriable(msg) == msg.retry <= MaxRetries

\* RPOP: from here to LPUSH or the dead letter the message exists only in
\* this process.
Retry(w) ==
  /\ worker[w].pc = "retry"
  /\ \/ /\ proc # <<>>
        /\ proc' = Front(proc)
        /\ LET msg == NextRetry(Last(proc)) IN
           worker' = [worker EXCEPT ![w] = [Fresh EXCEPT
             !.hand = <<msg>>,
             !.pc = IF Retriable(msg) THEN "hold" ELSE "decr",
             !.amount = IF Retriable(msg) THEN 0 ELSE 1]]
        /\ NoFault
     \/ /\ \/ proc = <<>> /\ NoFault
           \/ Fault("redis")
        /\ Idle(w)
        /\ UNCHANGED proc
  /\ UNCHANGED <<queue, dead, backlog, admin, stored, history, redrives>>

\* LPUSH: a retried message goes to the far end, behind all others.
Hold(w) ==
  /\ worker[w].pc = "hold"
  /\ \/ /\ queue' = worker[w].hand \o queue
        /\ RetryLoop(w)
        /\ NoFault
     \/ /\ Fault("window")
        /\ Idle(w)
        /\ UNCHANGED queue
  /\ UNCHANGED <<proc, dead, backlog, admin, stored, history, redrives>>

Trim(s) == IF Len(s) <= DeadLetterMax THEN s
           ELSE SubSeq(s, Len(s) - DeadLetterMax + 1, Len(s))

\* deadletter.push: RPUSH and LTRIM; an exception is swallowed.
Park(w) ==
  LET pushed == dead \o worker[w].hand IN
  /\ worker[w].pc = "park"
  /\ \/ /\ dead' = Trim(pushed)
        /\ discarded' = discarded \cup (Ids(pushed) \ Ids(Trim(pushed)))
        /\ NoFault
     \/ /\ Fault("window")
        /\ UNCHANGED <<dead, discarded>>
  /\ RetryLoop(w)
  /\ UNCHANGED <<queue, proc, backlog, admin, offered, accepted, stored, redrives>>

\* The process dies and its supervisor starts another one.
Crash(w) ==
  /\ worker[w].pc # "startup"
  /\ Fault(IF worker[w].hand = <<>> THEN "crash" ELSE "window")
  /\ worker' = [worker EXCEPT ![w] = Fresh]
  /\ UNCHANGED <<lists, backlog, admin, stored, history, redrives>>

-----------------------------------------------------------------------------
(* Dead letter operations.                                                 *)

\* deadletter.redrive, for one message: LPOP ...
RedrivePop ==
  /\ admin = <<>> /\ dead # <<>>
  /\ redrives < MaxRedrives
  /\ admin' = <<Head(dead)>>
  /\ dead' = Tail(dead)
  /\ redrives' = redrives + 1
  /\ UNCHANGED <<queue, proc, backlog, worker, stored, history, faults, happened>>

Requeued == [id |-> admin[1].id, retry |-> 0]

\* ... then LPUSH and INCRBY in one MULTI, with a fresh retry budget.
RedrivePush ==
  /\ admin # <<>>
  /\ queue' = <<Requeued>> \o queue
  /\ backlog' = backlog + 1
  /\ admin' = <<>>
  /\ UNCHANGED <<proc, dead, worker, stored, history, bounds>>

\* The MULTI raises, applied or not, and _restore puts the message back.
RedriveFails ==
  /\ admin # <<>>
  /\ \/ UNCHANGED <<queue, backlog>>
     \/ queue' = <<Requeued>> \o queue /\ backlog' = backlog + 1
  /\ \/ Fault("redrive") /\ dead' = dead \o admin
     \/ Fault("window") /\ UNCHANGED dead
  /\ admin' = <<>>
  /\ UNCHANGED <<proc, worker, stored, history, redrives>>

AdminCrash ==
  /\ admin # <<>>
  /\ Fault("window")
  /\ admin' = <<>>
  /\ UNCHANGED <<lists, backlog, worker, stored, history, redrives>>

\* deadletter.purge, of the oldest message or of all; the list may expire too.
Discard ==
  /\ dead # <<>>
  /\ dead' \in {Tail(dead), <<>>}
  /\ discarded' = discarded \cup (Ids(dead) \ Ids(dead'))
  /\ UNCHANGED <<queue, proc, backlog, worker, admin, offered, accepted, stored, bounds>>

-----------------------------------------------------------------------------
Work(w) ==
  \/ Startup(w) \/ StartupEnds(w) \/ Fetch(w) \/ FetchEnds(w) \/ FetchFails(w)
  \/ Commit(w) \/ Ack(w) \/ AckEach(w) \/ AckEachEnds(w) \/ Decr(w) \/ Clamp(w)
  \/ Retry(w) \/ Hold(w) \/ Park(w)

Admin == RedrivePop \/ RedrivePush \/ RedriveFails \/ AdminCrash \/ Discard

Next ==
  \/ \E m \in Message : Accept(m) \/ AcceptDirectly(m)
  \/ \E w \in Worker : Work(w) \/ Crash(w)
  \/ Admin

Spec == Init /\ [][Next]_vars

\* A worker's loop never stops, and a redrive request runs to its end.  A
\* starting worker leaves its requeue loop: between two attempts the other
\* workers sleep longer than a RPOPLPUSH takes.
FairSpec ==
  /\ Spec
  /\ \A w \in Worker : WF_vars(Work(w)) /\ SF_vars(StartupEnds(w))
  /\ WF_vars(RedrivePush)

-----------------------------------------------------------------------------
(* Properties.                                                             *)

InHand == (UNION {Ids(worker[w].hand) : w \in Worker}) \cup Ids(admin)
Buffered == Ids(queue) \cup Ids(proc)

Kept(m) ==
  stored[m] > 0 \/ m \in Buffered \cup InHand \cup Ids(dead) \cup discarded

\* A message answered durable: true is never just gone: it is buffered, being
\* moved, stored, or on the dead letter list until that list drops it, unless
\* a process failed with the message only in its memory (ingest_events, main,
\* _requeue_processing_with_retry_cap).
NoBatchLost == "window" \notin happened => \A m \in accepted : Kept(m)

\* docs/ingest/admission.md: a promise of durability is kept, whatever fails
\* (_requeue_processing_with_retry_cap).
DurableIsKept == \A m \in accepted : Kept(m)

\* README.md: ingestion is idempotent per batch (main).
IdempotentPerBatch == \A m \in Message : stored[m] <= 1

\* With one worker that is not interrupted, a message is stored at most once,
\* whatever is refused, retried and redriven (main).
StoredOnce == happened \subseteq {"pg"} => IdempotentPerBatch

\* With one worker, the counter that backpressure looks at never falls behind
\* the lists it stands for, however acks, crashes, retries and redrives mix,
\* unless a redrive failed (_decr_backlog_events, main).
BacklogCovers ==
  "redrive" \notin happened => Len(queue) + Len(proc) <= backlog

\* Every accepted message leaves the buffer for good, stored or written off:
\* neither a poisoned batch nor a message whose worker died stays behind
\* (_requeue_processing, _requeue_processing_with_retry_cap).
EveryBatchSettles ==
  \A m \in Message :
    <>[](m \in accepted => /\ m \notin Buffered \cup InHand
                           /\ stored[m] > 0 \/ m \in Ids(dead) \cup discarded)
=============================================================================
