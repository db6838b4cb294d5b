--------------------------- MODULE StreamIndexer ---------------------------
(***************************************************************************)
(* The Elasticsearch indexers of the Redis stream of events                *)
(* (app/workers/indexing/es_stream.py): a consumer group whose members     *)
(* read new entries, index them in bulk, acknowledge them, dead-letter     *)
(* what cannot be indexed, and take over what another member left pending. *)
(*                                                                         *)
(* Entries are numbered in stream order.  An entry is pending from the     *)
(* read that delivered it to its XACK; the group remembers for whom.  The  *)
(* group is created by the first indexer that starts, by default at the    *)
(* end of the stream: what was published before is never read.  Redis may  *)
(* be restarted without its data, the group included.                      *)
(*                                                                         *)
(* The helpers that talk to Redis swallow its errors, so a failing command *)
(* is a step that has no effect.  An indexer keeps its consumer name when  *)
(* it is restarted.  Whether Elasticsearch refuses a document for good (a  *)
(* status 4xx but 429) depends on the document; every other failure is     *)
(* transient.  Metrics, gauges and the trimming of the stream and of the   *)
(* dead letter stream (MAXLEN) are left out.                               *)
(***************************************************************************)
EXTENDS Naturals, FiniteSets

CONSTANTS
  StartAtEnd,    \* whether start_id is "$", the default, or "0"
  StreamLength,  \* bound on the entries published
  Contents,      \* document ids of the entries: the streams considered
  NoId,          \* the id of a document without one
  Unmappable,    \* ids of documents that Elasticsearch refuses for good
  Indexer,       \* members of the consumer group
  IndexBatch,    \* batch_size
  IndexRetries,  \* max_retries
  IndexFaults    \* bound on crashes, outages, failing commands and losses

Entry == 1 .. StreamLength
Nobody == "nobody"

ASSUME StreamAssumption ==
  /\ StartAtEnd \in BOOLEAN
  /\ StreamLength \in Nat
  /\ \A ids \in Contents : DOMAIN ids = Entry
  /\ IndexBatch \in Nat \ {0}
  /\ IndexRetries \in Nat \ {0}
  /\ IndexFaults \in Nat
  /\ IsFiniteSet(Indexer) /\ Nobody \notin Indexer

VARIABLES
  docOf,       \* docOf[e]: the id of the document of entry e, or NoId
  published,   \* entries added to the stream
  group,       \* whether the consumer group exists
  delivered,   \* its last-delivered-id
  pending,     \* pending[e]: the consumer whose pending entry e is, or Nobody
  attempts,    \* the hash attempts_key
  indexed,     \* ids of the documents in Elasticsearch
  parked,      \* the dead letter stream: entry and reason
  indexer,     \* indexer[w]: where process w is, and its batch
  outages,     \* faults so far
  skipped,     \* history: entries the group was created behind, or lost with it
  tries,       \* history: transient answers an entry got, up to IndexRetries
  dropped,     \* history: entries whose dead letter could not be written
  miscounted   \* history: entries whose attempt could not be counted

streamVars == <<docOf, published, group, delivered, pending, attempts, indexed, parked,
                indexer, outages, skipped, tries, dropped, miscounted>>

Reason == {"missing_id", "permanent", "max_retries"}

Loop == {"replay", "loop", "read"}

Consumer ==
  [pc: Loop \cup {"begin", "sift", "bulk", "settle", "down"},
   next: Loop,               \* where the loop goes on after the batch
   cursor: {0} \cup Entry,   \* of the replay at the start
   batch: SUBSET Entry,      \* entries to index, then entries to settle
   ok: SUBSET Entry,         \* ok_acks
   refused: SUBSET Entry,    \* permanent errors not yet settled
   dead: SUBSET Entry,       \* dlq_acks
   left: BOOLEAN]            \* some entry is to be retried

Starting == [pc |-> "begin", next |-> "replay", cursor |-> 0, batch |-> {},
             ok |-> {}, refused |-> {}, dead |-> {}, left |-> FALSE]

\* What an entry is dead-lettered for is true of its document.
DeadLetters ==
  {d \in Entry \X Reason :
     /\ d[2] = "missing_id" => docOf[d[1]] = NoId
     /\ d[2] = "permanent" => docOf[d[1]] \in Unmappable}

StreamTypeOK ==
  /\ docOf \in Contents
  /\ published \in 0 .. StreamLength
  /\ group \in BOOLEAN
  /\ delivered \in 0 .. published
  /\ pending \in [Entry -> Indexer \cup {Nobody}]
  /\ attempts \in [Entry -> 0 .. IndexRetries]
  /\ indexed \subseteq {docOf[e] : e \in Entry}
  /\ parked \subseteq DeadLetters
  /\ indexer \in [Indexer -> Consumer]
  /\ outages \in 0 .. IndexFaults
  /\ skipped \subseteq Entry
  /\ tries \in [Entry -> 0 .. IndexRetries]
  /\ dropped \subseteq Entry
  /\ miscounted \subseteq Entry

StreamInit ==
  /\ docOf \in Contents
  /\ published = 0
  /\ group = FALSE
  /\ delivered = 0
  /\ pending = [e \in Entry |-> Nobody]
  /\ attempts = [e \in Entry |-> 0]
  /\ indexed = {}
  /\ parked = {}
  /\ indexer = [w \in Indexer |-> Starting]
  /\ outages = 0
  /\ skipped = {}
  /\ tries = [e \in Entry |-> 0]
  /\ dropped = {}
  /\ miscounted = {}

-----------------------------------------------------------------------------
Become(w, p) == indexer' = [indexer EXCEPT ![w] = p]

Own(w) == {e \in Entry : pending[e] = w}

Documents(S) == {docOf[e] : e \in S}

\* by_docid: of the entries with one document, the last one stands for it.
ByDocId(S) == {e \in S : \A x \in S : x > e => docOf[x] # docOf[e]}

\* The first entries of S, one page of a read.
Page(S) == {e \in S : Cardinality({x \in S : x < e}) < IndexBatch}

First(S) == {e \in S : \A x \in S : e <= x}
Last(S) == {e \in S : \A x \in S : x <= e}

\* Commands that fail in a step: the bound is on their number.
Failing(commands) ==
  /\ outages + Cardinality(commands) <= IndexFaults
  /\ outages' = outages + Cardinality(commands)

\* _process_batch is called with a page, and the loop goes on at next.
Process(p, page, next) ==
  [Starting EXCEPT !.pc = IF \E e \in page : docOf[e] = NoId THEN "sift" ELSE "bulk",
                   !.next = next, !.cursor = p.cursor, !.batch = page]

\* It returns: with something left to retry the loop reads nothing new.
Return(p) ==
  [Starting EXCEPT !.pc = IF p.left /\ p.next = "read" THEN "loop" ELSE p.next,
                   !.cursor = p.cursor]

\* _ensure_group, at the start and when a reclaim finds no group.  A group that
\* exists is left where it is.
EnsureGroup(w) ==
  /\ \/ indexer[w].pc = "begin" /\ Become(w, [Starting EXCEPT !.pc = "replay"])
     \/ indexer[w].pc = "loop" /\ ~group /\ UNCHANGED indexer
  /\ group' = TRUE
  /\ delivered' = IF group \/ ~StartAtEnd THEN delivered ELSE published
  /\ skipped' = IF group THEN skipped ELSE skipped \cup ((delivered + 1) .. delivered')
  /\ UNCHANGED <<docOf, published, pending, attempts, indexed, parked, outages, tries,
                 dropped, miscounted>>

\* The ingest worker adds an event to the stream.
Publish ==
  /\ published < StreamLength
  /\ published' = published + 1
  /\ UNCHANGED <<docOf, group, delivered, pending, attempts, indexed, parked,
                 indexer, outages, skipped, tries, dropped, miscounted>>

\* _drain_pending at the start: page after page of what was left pending.
Replay(w) ==
  LET p == indexer[w]
      page == Page({e \in Own(w) : e > p.cursor}) IN
  /\ p.pc = "replay" /\ group
  /\ \/ page = {} /\ Become(w, [p EXCEPT !.pc = "loop", !.cursor = 0])
     \/ \E last \in Last(page) :
          Become(w, [Process(p, page, "replay") EXCEPT !.cursor = last])
  /\ UNCHANGED <<docOf, published, group, delivered, pending, attempts, indexed,
                 parked, outages, skipped, tries, dropped, miscounted>>

\* _reclaim_stranded: pending entries that nobody touched for a while, those
\* of an indexer that is only slow included.
Reclaim(w) ==
  LET p == indexer[w] IN
  /\ p.pc = "loop"
  /\ \E page \in SUBSET {e \in Entry : pending[e] # Nobody} :
       /\ page # {} /\ Cardinality(page) <= IndexBatch
       /\ pending' = [e \in Entry |-> IF e \in page THEN w ELSE pending[e]]
       /\ Become(w, Process(p, page, "loop"))
  /\ UNCHANGED <<docOf, published, group, delivered, attempts, indexed, parked,
                 outages, skipped, tries, dropped, miscounted>>

\* Mutant: what is pending is only looked at when the process starts.
DrainNothing(w) ==
  /\ indexer[w].pc = "loop" /\ group
  /\ Become(w, [indexer[w] EXCEPT !.pc = "read"])
  /\ UNCHANGED <<docOf, published, group, delivered, pending, attempts, indexed,
                 parked, outages, skipped, tries, dropped, miscounted>>

\* _drain_pending(once=True): the first page of what is pending.
Drain(w) ==
  LET p == indexer[w]
      page == Page(Own(w)) IN
  /\ p.pc = "loop" /\ group
  /\ Become(w, IF page = {} THEN [p EXCEPT !.pc = "read"]
                            ELSE Process(p, page, "read"))
  /\ UNCHANGED <<docOf, published, group, delivered, pending, attempts, indexed,
                 parked, outages, skipped, tries, dropped, miscounted>>

\* How far a read of new entries gets.
ReadUpTo ==
  IF published - delivered < IndexBatch THEN published ELSE delivered + IndexBatch

\* _read_new: the entries become pending whether or not the answer arrives.
ReadNew(w) ==
  LET p == indexer[w]
      page == (delivered + 1) .. ReadUpTo IN
  /\ p.pc = "read" /\ group
  /\ delivered' = ReadUpTo
  /\ pending' = [e \in Entry |-> IF e \in page THEN w ELSE pending[e]]
  /\ \/ /\ page # {}
        /\ Become(w, Process(p, page, "loop"))
        /\ UNCHANGED outages
     \/ /\ page = {}
        /\ Become(w, [p EXCEPT !.pc = "loop"])
        /\ UNCHANGED outages
     \/ /\ Failing({"read"})
        /\ Become(w, [p EXCEPT !.pc = "loop"])
  /\ UNCHANGED <<docOf, published, group, attempts, indexed, parked, skipped, tries,
                 dropped, miscounted>>

\* A read raises, and always does without a group: the loop starts over.
ReadFails(w) ==
  LET p == indexer[w] IN
  /\ \/ p.pc \in Loop /\ ~group /\ UNCHANGED outages
     \/ p.pc \in {"replay", "loop"} /\ Failing({"read"})
  /\ Become(w, [p EXCEPT !.pc = IF p.pc = "replay" THEN "replay" ELSE "loop",
                         !.cursor = 0])
  /\ UNCHANGED <<docOf, published, group, delivered, pending, attempts, indexed, parked,
                 skipped, tries, dropped, miscounted>>

\* Entries without an id are dead-lettered and acknowledged on the spot.
Sift(w) ==
  LET p == indexer[w]
      bad == {e \in p.batch : docOf[e] = NoId} IN
  /\ p.pc = "sift"
  /\ \E failing \in SUBSET {"dlq", "ack"} :
       /\ Failing(failing)
       /\ IF "dlq" \in failing
          THEN dropped' = dropped \cup bad /\ UNCHANGED parked
          ELSE parked' = parked \cup (bad \X {"missing_id"}) /\ UNCHANGED dropped
       /\ pending' = [e \in Entry |-> IF e \in bad /\ "ack" \notin failing
                                      THEN Nobody ELSE pending[e]]
  /\ Become(w, IF p.batch = bad THEN Return(p)
                ELSE [p EXCEPT !.pc = "bulk", !.batch = @ \ bad])
  /\ UNCHANGED <<docOf, published, group, delivered, attempts, indexed, skipped,
                 tries, miscounted>>

\* Mutant: whatever is refused is refused for good, a 429 included.
AnyRefusal(d) == TRUE

\* is_permanent_status of the answer for a document.
Permanent(d) == d \in Unmappable

\* run_bulk is answered item by item.  A document sent twice may be indexed
\* once and refused once.
BulkAnswered(w) ==
  LET p == indexer[w]
      kept == ByDocId(p.batch) IN
  /\ p.pc = "bulk"
  /\ \E ok, refused \in SUBSET kept,
        once \in SUBSET (Documents(p.batch \ kept) \ Unmappable) :
       LET transient == kept \ (ok \cup refused) IN
       /\ Documents(ok) \cap Unmappable = {}
       /\ \A e \in refused : Permanent(docOf[e])
       /\ indexed' = indexed \cup Documents(ok) \cup once
       /\ tries' = [e \in Entry |-> IF e \in transient /\ tries[e] < IndexRetries
                                    THEN tries[e] + 1 ELSE tries[e]]
       /\ Become(w, [p EXCEPT !.pc = "settle", !.batch = kept,
                              !.ok = ok, !.refused = refused])
  /\ UNCHANGED <<docOf, published, group, delivered, pending, attempts, parked,
                 outages, skipped, dropped, miscounted>>

\* Mutant: an unreachable Elasticsearch counts as an attempt.
OutageCounted(w) ==
  LET p == indexer[w] IN
  /\ p.pc = "bulk"
  /\ Failing({"bulk"})
  /\ UNCHANGED indexed
  /\ Become(w, [p EXCEPT !.pc = "settle", !.batch = ByDocId(@)])
  /\ UNCHANGED <<docOf, published, group, delivered, pending, attempts, parked,
                 skipped, tries, dropped, miscounted>>

\* run_bulk raises: some documents may be indexed, and every entry is left.
BulkUnreachable(w) ==
  LET p == [indexer[w] EXCEPT !.left = TRUE] IN
  /\ p.pc = "bulk"
  /\ Failing({"bulk"})
  /\ \E applied \in SUBSET (Documents(p.batch) \ Unmappable) : indexed' = indexed \cup applied
  /\ Become(w, Return(p))
  /\ UNCHANGED <<docOf, published, group, delivered, pending, attempts, parked,
                 skipped, tries, dropped, miscounted>>

\* _bump_attempts.  Beyond max_retries the count makes no difference.
Attempt(e, failing) ==
  IF "count" \in failing \/ attempts[e] = IndexRetries THEN IndexRetries
  ELSE attempts[e] + 1

Exhausted(e, failing) == Attempt(e, failing) >= IndexRetries

\* The entries of the batch are settled one by one, in the order of the batch.
\* What was indexed:
SettleIndexed(w, e) ==
  LET p == indexer[w] IN
  /\ p.pc = "settle"
  /\ e \in First(p.batch) \cap p.ok
  /\ \E failing \in SUBSET {"clear"} :
       /\ Failing(failing)
       /\ attempts' = [attempts EXCEPT ![e] = IF failing = {} THEN 0 ELSE @]
  /\ Become(w, [p EXCEPT !.batch = @ \ {e}])
  /\ UNCHANGED <<docOf, published, group, delivered, pending, indexed, parked,
                 skipped, tries, dropped, miscounted>>

\* _dlq and then _clear_attempts, the count being n by then.
DeadLetterAs(e, reason, n, failing) ==
  /\ IF "dlq" \in failing
     THEN dropped' = dropped \cup {e} /\ UNCHANGED parked
     ELSE parked' = parked \cup {<<e, reason>>} /\ UNCHANGED dropped
  /\ attempts' = [attempts EXCEPT ![e] = IF "clear" \in failing THEN n ELSE 0]

\* What was refused for good:
SettleRefused(w, e) ==
  LET p == indexer[w] IN
  /\ p.pc = "settle"
  /\ e \in First(p.batch) \cap p.refused
  /\ \E failing \in SUBSET {"dlq", "clear"} :
       Failing(failing) /\ DeadLetterAs(e, "permanent", attempts[e], failing)
  /\ Become(w, [p EXCEPT !.batch = @ \ {e}, !.refused = @ \ {e},
                         !.dead = @ \cup {e}])
  /\ UNCHANGED <<docOf, published, group, delivered, pending, indexed, skipped,
                 tries, miscounted>>

\* What could not be indexed for now: for the last time,
GiveUp(w, e) ==
  LET p == indexer[w] IN
  /\ p.pc = "settle"
  /\ e \in First(p.batch) \ (p.ok \cup p.refused)
  /\ \E failing \in SUBSET {"count", "dlq", "clear"} :
       /\ Failing(failing)
       /\ Exhausted(e, failing)
       /\ miscounted' = IF "count" \in failing THEN miscounted \cup {e} ELSE miscounted
       /\ DeadLetterAs(e, "max_retries",
                       IF "count" \in failing THEN attempts[e] ELSE Attempt(e, failing),
                       failing)
  /\ Become(w, [p EXCEPT !.batch = @ \ {e}, !.dead = @ \cup {e}])
  /\ UNCHANGED <<docOf, published, group, delivered, pending, indexed, skipped,
                 tries>>

\* or to be retried.
LeaveForRetry(w, e) ==
  LET p == indexer[w] IN
  /\ p.pc = "settle"
  /\ e \in First(p.batch) \ (p.ok \cup p.refused)
  /\ ~Exhausted(e, {})
  /\ attempts' = [attempts EXCEPT ![e] = Attempt(e, {})]
  /\ Become(w, [p EXCEPT !.batch = @ \ {e}, !.left = TRUE])
  /\ UNCHANGED <<docOf, published, group, delivered, pending, indexed, parked,
                 outages, skipped, tries, dropped, miscounted>>

\* Mutant: every entry of the page is acknowledged.
PageAcked(p) == p.ok \cup p.dead \cup 
                {e \in Entry : pending[e] \in Indexer /\ indexer[pending[e]] = p}

\* What a batch acknowledges.
Acked(p) == p.ok \cup p.dead

\* Two XACKs, of the indexed and of the dead-lettered entries.
Ack(w) ==
  LET p == indexer[w] IN
  /\ p.pc = "settle" /\ p.batch = {}
  /\ \E failing \in SUBSET {"ok", "dead"} :
       /\ Failing(failing)
       /\ pending' = [e \in Entry |->
            IF e \in Acked(p) /\ (e \in p.ok => "ok" \notin failing)
                              /\ (e \in p.dead => "dead" \notin failing)
            THEN Nobody ELSE pending[e]]
  /\ Become(w, Return(p))
  /\ UNCHANGED <<docOf, published, group, delivered, attempts, indexed, parked,
                 skipped, tries, dropped, miscounted>>

StreamCrash(w) ==
  /\ indexer[w].pc # "down"
  /\ Failing({"process"})
  /\ Become(w, [Starting EXCEPT !.pc = "down"])
  /\ UNCHANGED <<docOf, published, group, delivered, pending, attempts, indexed,
                 parked, skipped, tries, dropped, miscounted>>

\* The worker manager starts the process again.
Restart(w) ==
  /\ indexer[w].pc = "down"
  /\ Become(w, Starting)
  /\ UNCHANGED <<docOf, published, group, delivered, pending, attempts, indexed,
                 parked, outages, skipped, tries, dropped, miscounted>>

\* Redis is restarted without its data: the stream, the group and its pending
\* entries, and the attempts.  (What is in parked was written; that Redis loses
\* the dead letter stream too is left out.)
StreamLost ==
  /\ Failing({"redis"})
  /\ group' = FALSE
  /\ delivered' = published
  /\ pending' = [e \in Entry |-> Nobody]
  /\ attempts' = [e \in Entry |-> 0]
  /\ skipped' = skipped \cup {e \in 1 .. published : pending[e] # Nobody \/ e > delivered}
  /\ UNCHANGED <<docOf, published, indexed, parked, indexer, tries, dropped, miscounted>>

Work(w) ==
  \/ EnsureGroup(w)
  \/ Replay(w)
  \/ Reclaim(w)
  \/ Drain(w)
  \/ ReadNew(w)
  \/ ReadFails(w)
  \/ Sift(w)
  \/ BulkAnswered(w)
  \/ BulkUnreachable(w)
  \/ \E e \in Entry :
       \/ SettleIndexed(w, e)
       \/ SettleRefused(w, e)
       \/ GiveUp(w, e)
       \/ LeaveForRetry(w, e)
  \/ Ack(w)
  \/ Restart(w)

StreamNext ==
  \/ Publish
  \/ StreamLost
  \/ \E w \in Indexer : Work(w) \/ StreamCrash(w)

StreamSpec == StreamInit /\ [][StreamNext]_streamVars

-----------------------------------------------------------------------------
\* An entry up to the group's position that no consumer has pending left the
\* stream for a reason: its document is indexed, or it was written to the dead
\* letter stream, or that write failed (es_stream.py:231 logs and goes on), or it
\* was published when there was no group yet, or was lost with Redis.  A crash
\* between the read and the XACK, an indexer that starts beside a group, a batch
\* some items of which failed, and two consumers with one entry lose nothing.
SettledWithCause ==
  \A e \in 1 .. delivered :
    pending[e] = Nobody =>
      \/ docOf[e] \in indexed
      \/ \E reason \in Reason : <<e, reason>> \in parked
      \/ e \in dropped
      \/ e \in skipped

\* An entry is dead-lettered for max_retries only when Elasticsearch answered
\* that many times that it could not be indexed for now (a 429 or a 5xx of its
\* item), whichever members of the group asked: an Elasticsearch that is not
\* reached uses up no attempt (es_stream.py:288).  A counter that could not be
\* incremented counts as the last attempt (es_stream.py:333).
DeadLetterEarned ==
  \A e \in Entry :
    <<e, "max_retries">> \in parked => tries[e] = IndexRetries \/ e \in miscounted

\* In the end everything published is read, was skipped when the group was created
\* or was lost with Redis, and nothing is pending: an entry left by a crash, by a failed XACK or
\* beside another entry of its document is taken up again (es_stream.py:343).
\* The one exception: when Redis loses the group while every indexer is still
\* before the end of its replay, the replay raises for ever and nobody gets to
\* the reclaim that would create the group again (es_stream.py:476).
Settled == delivered = published /\ \A e \in Entry : pending[e] = Nobody
StuckInReplay == ~group /\ \A w \in Indexer : indexer[w].pc = "replay"

EveryEntrySettles == <>[]Settled \/ <>[]StuckInReplay
=============================================================================
