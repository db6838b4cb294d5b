----------------------------- MODULE AuditChain -----------------------------
(***************************************************************************)
(* The audit chain (app/core/audit/chain.py): rows of admin_audit_events   *)
(* numbered and hash-linked under a row lock on audit_chain_head.          *)
(*                                                                         *)
(* Three kinds of process share it.  Writers stamp an event, take the lock *)
(* on the head, link the event, and commit or roll back with the rest of   *)
(* their transaction.  Retention deletes a batch of rows that are older    *)
(* than a cutoff and records a checkpoint, in one transaction.  The        *)
(* verifier walks the chain in pages, reading committed rows with no lock: *)
(* the rows of a page, the row before its first one and the checkpoint     *)
(* before it are three statements, and see three states of the database.   *)
(*                                                                         *)
(* Hashes are abstracted to what they identify: the hash of an event is    *)
(* its number in the order in which events were created.                   *)
(***************************************************************************)
EXTENDS Integers, FiniteSets, Sequences, FiniteSetsExt

CONSTANTS
  Writer,      \* transactions that write audit events at the same time
  Legacy,      \* rows that predate the chain: they lie below chain_from_seq
  Retention,   \* SEAGULL_AUDIT_RETENTION_DAYS, in ticks of the clock
  PruneBatch,  \* SEAGULL_AUDIT_RETENTION_DELETE_BATCH
  PageLimit,   \* SEAGULL_AUDIT_VERIFY_BATCH
  MaxEvents,   \* bound on the number of events, legacy rows included
  MaxClock,    \* bound on the clock
  MaxLosses    \* bound on rows deleted behind the program's back

ASSUME AuditChainAssumption ==
  /\ Legacy \in Nat /\ MaxEvents \in Nat /\ Legacy =< MaxEvents
  /\ Retention \in Nat \ {0}
  /\ PruneBatch \in Nat \ {0}
  /\ PageLimit \in Nat \ {0}
  /\ MaxClock \in Nat /\ MaxLosses \in Nat

VARIABLES
  rows,         \* admin_audit_events, committed
  head,         \* audit_chain_head, committed
  checkpoints,  \* audit_chain_checkpoints
  writer,       \* each writer's open transaction
  verifier,     \* the pass of the verifier
  clock,        \* utcnow(), in ticks
  issued,       \* events created so far, for their identities
  log,          \* history: every committed event, in commit order
  lost          \* history: sequence numbers deleted outside retention

chainVars == <<rows, head, checkpoints, writer, verifier, clock, issued, log, lost>>

-----------------------------------------------------------------------------
NoHash  == 0
NoStamp == -1
Hash    == 0 .. MaxEvents
SeqNo    == 1 .. MaxEvents
Floor   == Legacy + 1          \* audit_chain_head.chain_from_seq

Row == [seq: SeqNo, event: SeqNo, prev: Hash, created: 0 .. MaxClock]

Checkpoint == [from: SeqNo, to: SeqNo, count: SeqNo, last: SeqNo, prev: Hash]

Reason == {"missing_predecessor", "seq_gap", "prev_hash_mismatch"}

Pass == [pc: {"idle", "page", "predecessor", "checkpoint"},
         after: 0 .. MaxEvents,        \* verify_chain's after_seq
         page: SUBSET Row,             \* rows of the page being verified
         breaks: SUBSET [seq: SeqNo, reason: Reason],
         overtaken: BOOLEAN,           \* history: a prune passed the page
         missing: SUBSET SeqNo,         \* history: lost when the pass started
         upto: 0 .. MaxEvents,         \* history: head when the pass started
         done: BOOLEAN]                \* the pass has reported

ChainTypeOK ==
  /\ rows \subseteq Row
  /\ head \in [seq: 0 .. MaxEvents, hash: Hash]
  /\ checkpoints \subseteq Checkpoint
  /\ writer \in [Writer -> [stamp: {NoStamp} \cup 0 .. MaxClock,
                            event: Hash, pending: Seq(Row)]]
  /\ verifier \in Pass
  /\ clock \in 0 .. MaxClock
  /\ issued \in 0 .. MaxEvents
  /\ log \in Seq(Row)
  /\ lost \subseteq SeqNo

NoWrite  == [stamp |-> NoStamp, event |-> NoHash, pending |-> <<>>]
NoPass == [pc |-> "idle", after |-> 0, page |-> {}, breaks |-> {},
           overtaken |-> FALSE, missing |-> {}, upto |-> 0, done |-> FALSE]

\* The migration numbers the rows it finds and leaves head_hash empty.
LegacyRow(n) == [seq |-> n, event |-> n, prev |-> NoHash, created |-> 0]

ChainInit ==
  /\ rows = {LegacyRow(n) : n \in 1 .. Legacy}
  /\ head = [seq |-> Legacy, hash |-> NoHash]
  /\ checkpoints = {}
  /\ writer = [w \in Writer |-> NoWrite]
  /\ verifier = NoPass
  /\ clock = 0
  /\ issued = Legacy
  /\ log = [n \in 1 .. Legacy |-> LegacyRow(n)]
  /\ lost = {}

-----------------------------------------------------------------------------
First(S) == CHOOSE r \in S : \A s \in S : r.seq =< s.seq
Last(S)  == CHOOSE r \in S : \A s \in S : r.seq >= s.seq

\* ORDER BY seq ASC LIMIT n
Limit(S, n) == {r \in S : Cardinality({s \in S : s.seq < r.seq}) < n}

Linking(w) == writer[w].pending # <<>>

\* A transaction may write several events, and is much shorter than the
\* retention: the clock cannot leave a stamp that far behind.
OpenStamps == {writer[w].stamp : w \in {v \in Writer : writer[v].stamp # NoStamp}}
              \cup UNION {{writer[w].pending[i].created :
                            i \in DOMAIN writer[w].pending} : w \in Writer}

Tick ==
  /\ clock < MaxClock
  /\ \A t \in OpenStamps : clock + 1 - t < Retention
  /\ clock' = clock + 1
  /\ UNCHANGED <<rows, head, checkpoints, writer, verifier, issued, log, lost>>

\* write_audit_event builds the row, and with it created_at.
Stamp(w) ==
  /\ writer[w].stamp = NoStamp
  /\ issued < MaxEvents
  /\ issued' = issued + 1
  /\ writer' = [writer EXCEPT ![w] = [@ EXCEPT !.stamp = clock,
                                                 !.event = issued + 1]]
  /\ UNCHANGED <<rows, head, checkpoints, verifier, clock, log, lost>>

\* Mutant: the head is read with no lock.
NoLock(w) == TRUE

\* locked_head: SELECT ... FOR UPDATE waits for a transaction that holds it.
HeadFree(w) == \A v \in Writer \ {w} : ~Linking(v)

\* What a transaction that has linked the rows of p leaves in the head.
HeadAt(p) == [seq |-> p[Len(p)].seq, hash |-> p[Len(p)].event]

\* The head as this transaction sees it: its own update, or the committed one.
SeenHead(w) ==
  IF Linking(w) THEN HeadAt(writer[w].pending) ELSE head

Link(w) ==
  /\ writer[w].stamp # NoStamp
  /\ HeadFree(w)
  /\ LET seen == SeenHead(w)
         row  == [seq |-> seen.seq + 1, event |-> writer[w].event,
                  prev |-> seen.hash, created |-> writer[w].stamp]
     IN writer' = [writer EXCEPT ![w] =
                     [stamp |-> NoStamp, event |-> NoHash,
                      pending |-> Append(writer[w].pending, row)]]
  /\ UNCHANGED <<rows, head, checkpoints, verifier, clock, issued, log, lost>>

\* The caller commits: the rows and the head become visible together.
Commit(w) ==
  /\ Linking(w) /\ writer[w].stamp = NoStamp
  /\ LET p == writer[w].pending IN
       /\ rows' = rows \cup {p[i] : i \in DOMAIN p}
       /\ head' = HeadAt(p)
       /\ log' = log \o p
  /\ writer' = [writer EXCEPT ![w] = NoWrite]
  /\ UNCHANGED <<checkpoints, verifier, clock, issued, lost>>

AbortWrite(w) ==
  /\ writer[w] # NoWrite
  /\ writer' = [writer EXCEPT ![w] = NoWrite]
  /\ UNCHANGED <<rows, head, checkpoints, verifier, clock, issued, log, lost>>

-----------------------------------------------------------------------------
Expired == {r \in rows : r.created < clock - Retention}

\* Mutant: the checkpoint that covers the oldest rows is taken for the latest.
OldestCheckpoint ==
  IF checkpoints = {} THEN NoHash ELSE Min({c.to : c \in checkpoints})

\* latest_checkpoint, as the hash that the next one is chained to
LatestCheckpoint ==
  IF checkpoints = {} THEN NoHash ELSE Max({c.to : c \in checkpoints})

\* Mutants: the checkpoint names the first event deleted, or counts the numbers
\* in its range.
FirstSeal(B) == [from |-> First(B).seq, to |-> Last(B).seq,
                 count |-> Cardinality(B), last |-> First(B).event,
                 prev |-> LatestCheckpoint]
SealedSpan(B) == [from |-> First(B).seq, to |-> Last(B).seq,
                  count |-> Last(B).seq - First(B).seq + 1,
                  last |-> Last(B).event, prev |-> LatestCheckpoint]

\* seal_pruned_range
Seal(B) == [from |-> First(B).seq, to |-> Last(B).seq, count |-> Cardinality(B),
            last |-> Last(B).event, prev |-> LatestCheckpoint]

\* The page that the verifier has read loses its first row and the one before
\* it, in one prune, and the row before it has not been looked up yet.
Overtakes(B) ==
  /\ verifier.pc = "predecessor"
  /\ LET n == First(verifier.page).seq IN {n - 1, n} \subseteq {r.seq : r \in B}

\* prune_audit_events: the select, the checkpoint and the delete, committed
\* together.
Prune ==
  /\ Expired # {}
  /\ LET B == Limit(Expired, PruneBatch) IN
       /\ checkpoints' = checkpoints \cup {Seal(B)}
       /\ rows' = rows \ B
       /\ verifier' = [verifier EXCEPT !.overtaken = @ \/ Overtakes(B)]
  /\ UNCHANGED <<head, writer, clock, issued, log, lost>>

\* External: a row is deleted by hand or missing after a restore.
Lose ==
  /\ Cardinality(lost) < MaxLosses
  /\ \E r \in rows : /\ rows' = rows \ {r}
                     /\ lost' = lost \cup {r.seq}
  /\ UNCHANGED <<head, checkpoints, writer, verifier, clock, issued, log>>

-----------------------------------------------------------------------------
\* verify_chain starts below the first row of the chain.
StartPass ==
  /\ verifier.pc = "idle"
  /\ verifier' = [NoPass EXCEPT !.pc = "page", !.after = Floor - 1,
                                !.missing = lost, !.upto = head.seq]
  /\ UNCHANGED <<rows, head, checkpoints, writer, clock, issued, log, lost>>

Report(pass) == [pass EXCEPT !.pc = "idle", !.page = {}, !.done = TRUE]

\* verify_page: the rows after the last page; none ends the pass.
ReadPage ==
  /\ verifier.pc = "page"
  /\ LET P == Limit({r \in rows : r.seq > verifier.after}, PageLimit) IN
       verifier' = IF P = {} THEN Report(verifier)
                   ELSE [verifier EXCEPT !.pc = "predecessor", !.page = P]
  /\ UNCHANGED <<rows, head, checkpoints, writer, clock, issued, log, lost>>

Break(r, reason) == [seq |-> r.seq, reason |-> reason]

\* The row of the page before r.
Before(r) == Last({s \in verifier.page : s.seq < r.seq})

\* Mutant: the walk checks the first row of each page only.
FirstOnly(P) == {}

\* The links inside a page: consecutive numbers, and the hash before.
InnerBreaks(P) ==
  LET rest == P \ {First(P)} IN
  {Break(r, "seq_gap") : r \in {s \in rest : s.seq # Before(s).seq + 1}}
  \cup {Break(r, "prev_hash_mismatch") :
          r \in {s \in rest : s.prev # Before(s).event}}

\* The loop of verify_page and the return to verify_chain.
FinishPage(firstBreaks) ==
  LET P    == verifier.page
      done == [verifier EXCEPT !.pc = "page", !.page = {},
                               !.after = Last(P).seq,
                               !.breaks = @ \cup firstBreaks \cup InnerBreaks(P)]
  IN verifier' = IF Cardinality(P) < PageLimit THEN Report(done) ELSE done

\* What the first row of a page must point at, once it is known.
Against(hash) ==
  LET r == First(verifier.page)
  IN IF r.prev = hash THEN {} ELSE {Break(r, "prev_hash_mismatch")}

\* _predecessor_hash: the row before the page, if it is still stored.
ReadPredecessor ==
  /\ verifier.pc = "predecessor"
  /\ LET first == First(verifier.page)
         prior == {r \in rows : r.seq = first.seq - 1}
     IN \/ /\ first.seq =< Floor
           /\ FinishPage(Against(NoHash))
        \/ /\ first.seq > Floor /\ prior # {}
           /\ FinishPage(Against(First(prior).event))
        \/ /\ first.seq > Floor /\ prior = {}
           /\ verifier' = [verifier EXCEPT !.pc = "checkpoint"]
  /\ UNCHANGED <<rows, head, checkpoints, writer, clock, issued, log, lost>>

\* Mutant: an anchor is sought at the first survivor, not before it.
AnchorsAt(seq) == {c \in checkpoints : c.to = seq + 1}

Anchors(seq) == {c \in checkpoints : c.to = seq}

\* _predecessor_hash: otherwise, the checkpoint that ends right before it.
ReadCheckpoint ==
  /\ verifier.pc = "checkpoint"
  /\ LET first   == First(verifier.page)
         anchors == Anchors(first.seq - 1)
     IN \/ /\ anchors = {}
           /\ FinishPage({Break(first, "missing_predecessor")})
        \/ \E c \in anchors : FinishPage(Against(c.last))
  /\ UNCHANGED <<rows, head, checkpoints, writer, clock, issued, log, lost>>

ChainNext ==
  \/ Tick
  \/ \E w \in Writer : Stamp(w) \/ Link(w) \/ Commit(w) \/ AbortWrite(w)
  \/ Prune
  \/ Lose
  \/ StartPass \/ ReadPage \/ ReadPredecessor \/ ReadCheckpoint

ChainSpec == ChainInit /\ [][ChainNext]_chainVars

-----------------------------------------------------------------------------
(* Properties *)

\* Two events were stamped in one order and linked in the other: a writer may
\* be overtaken between building its row and getting the lock.
Inverted == \E i, j \in DOMAIN log : i < j /\ log[i].created > log[j].created

Survivors == {r \in rows : r.seq > Floor}

\* The row or the checkpoint that r's link is verified against.
Anchored(r) ==
  \/ \E s \in rows : s.seq = r.seq - 1 /\ s.event = r.prev
  \/ \E c \in checkpoints : c.to = r.seq - 1 /\ c.last = r.prev

\* docs/admin/audit-chain.md, "What replaced it": numbers are handed out in
\* commit order, the chain does not fork, a rolled back transaction leaves no
\* gap, and the head names the newest event.  Two writers that read the same
\* head would break it, and so would a head that outlives a rollback.
CommitOrder ==
  /\ head.seq = Len(log)
  /\ head.hash = IF Len(log) < Floor THEN NoHash ELSE log[Len(log)].event
  /\ \A i \in DOMAIN log :
       /\ log[i].seq = i
       /\ i > Floor => log[i].prev = log[i - 1].event
  /\ \A r \in rows : r.seq \in DOMAIN log /\ r = log[r.seq]

\* Retention accounts for everything it deletes: each number of the chain is
\* stored, lost, or inside the range of a checkpoint, and the counts of the
\* checkpoints are the number of rows that are gone.  It holds even when
\* created_at and seq disagree and the ranges overlap.
Accounted ==
  /\ \A n \in 1 .. head.seq :
       \/ \E r \in rows : r.seq = n
       \/ n \in lost
       \/ \E c \in checkpoints : c.from =< n /\ n =< c.to
  /\ head.seq = Cardinality(rows) + Cardinality(lost)
                + MapThenSumSet(LAMBDA c : c.count, checkpoints)

\* As long as created_at grows with seq and nothing is lost, every event that
\* survives retention can be verified against what precedes it.
AnchoredInOrder ==
  (~Inverted /\ lost = {}) => \A r \in Survivors : Anchored(r)

\* Each checkpoint is chained to the one that ended before it, so the chain of
\* checkpoints does not fork, as long as created_at grows with seq.  (When it
\* does not, a later prune may end below an earlier one, and the two that
\* follow the earlier one then carry the same prev_checkpoint_hash.)
CheckpointsChained ==
  ~Inverted => \A c \in checkpoints :
    c.prev = Max({NoHash} \cup {d.to : d \in {e \in checkpoints : e.to < c.to}})

\* The verifier cries wolf in two cases only: created_at is not in seq order,
\* or one prune deletes the end of a page already read and the start of the
\* next between two of its statements.  The first breaks it reports on a chain
\* that nobody touched are then false.
AlarmsExplained ==
  verifier.breaks # {} => Inverted \/ verifier.overtaken \/ lost # {}

\* A row that was lost before the pass started, and whose successor was stored
\* then and still is when it ends, is reported: pages, anchors and concurrent
\* prunes and appends never hide it.
LossReported ==
  (verifier.done /\ verifier.pc = "idle") =>
    \A r \in rows :
      (r.seq - 1 \in verifier.missing /\ Floor < r.seq /\ r.seq =< verifier.upto)
      => \E b \in verifier.breaks : b.seq = r.seq

\* docs/admin/audit-chain.md, "Retention leaves an anchor": the last hash of a
\* pruned range is what the first survivor after it points at.
SurvivorAnchored == lost = {} => \A r \in Survivors : Anchored(r)
=============================================================================
