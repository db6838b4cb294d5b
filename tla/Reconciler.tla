----------------------------- MODULE Reconciler -----------------------------
(***************************************************************************)
(* The projection reconciler of one sink (app/workers/sinks/reconciler.py) *)
(*                                                                         *)
(* A pass counts the events in net_events of each minute of its window,    *)
(* which ends some minutes ago and reaches a bounded time back, counts the *)
(* rows of the projection, and drills into the minutes where the           *)
(* projection is short: it reads the ids of both sides, counts those       *)
(* missing, and enqueues a repair of the first ones in a new outbox batch, *)
(* as long as its budget lasts.  Each read is a query of its own, beside   *)
(* the ingest workers, the dispatchers and the projection's merges.        *)
(*                                                                         *)
(* A row of the projection is an event in a part: a part of a ClickHouse   *)
(* table, where a second batch leaves a second row until a merge, or a     *)
(* backing index of Elasticsearch, which holds one document of an id.  The *)
(* outbox is Outbox.tla's, seen from here as the copies of each event that *)
(* wait in it.  The hot Elasticsearch index is fed by StreamIndexer.tla    *)
(* instead, and gets only its repairs from the outbox: its entries count   *)
(* as waiting too.                                                         *)
(***************************************************************************)
EXTENDS Naturals, FiniteSets

CONSTANTS
  EventId,         \* ids of net_events
  MinuteOf,        \* the minute of each event's timestamp
  Part,            \* parts or backing indices of the projection
  Refused,         \* the events that the sink always refuses
  RepairBudget,    \* ReconcilerConfig.repair_max_events
  Lookback,        \* ReconcilerConfig.lookback_minutes
  MaxHorizon,      \* bound on the clock
  MaxPending,      \* bound: the copies of an event that wait are told apart up to it
  ReconcileFaults  \* bound on failed passes, exhausted deliveries and lost rows

ASSUME ReconcilerAssumption ==
  /\ EventId \subseteq Nat
  /\ IsFiniteSet(EventId)
  /\ IsFiniteSet(Part)
  /\ MinuteOf \in [EventId -> Nat]
  /\ Refused \subseteq EventId
  /\ RepairBudget \in Nat
  /\ Lookback \in Nat \ {0}
  /\ MaxHorizon \in Nat
  /\ MaxPending \in Nat \ {0}
  /\ ReconcileFaults \in Nat

VARIABLES
  netEvents,  \* net_events: the ids it holds
  waiting,    \* event_outbox: the copies of each event that wait for the sink
  rows,       \* the projection
  horizon,    \* the clock, less settle_seconds, down to the minute
  pass,       \* the pass of the reconciler, in its memory
  absent,     \* history: counted events that the projection has lacked all along
  masked,     \* history: minutes with a row beyond one per counted event
  reconcileFaults

reconcileVars == <<netEvents, waiting, rows, horizon, pass, absent, masked,
                   reconcileFaults>>

-----------------------------------------------------------------------------
InMinute(S, m) == {e \in S : MinuteOf[e] = m}
Minutes == {MinuteOf[e] : e \in EventId}

\* reconcile_window: the minutes that a pass starting now looks at.
InWindow(m) == m < horizon /\ horizon =< m + Lookback

RowsOf(e)    == {r \in rows : r[1] = e}
RowsIn(m)    == {r \in rows : MinuteOf[r[1]] = m}
Projected    == {e \in EventId : RowsOf(e) # {}}

Pass == [at: {"idle", "counted", "drill", "source", "repair"},
         counted: SUBSET EventId,   \* what postgres_minute_counts counted
         todo: SUBSET Minutes,      \* diverging minutes not yet drilled
         source: SUBSET EventId,    \* postgres_event_ids of the first of them
         selected: SUBSET EventId,  \* to repair
         budget: 0 .. RepairBudget,
         found: SUBSET EventId]     \* counted as missing

NoPass == [at |-> "idle", counted |-> {}, todo |-> {}, source |-> {},
           selected |-> {}, budget |-> 0, found |-> {}]

ReconcileTypeOK ==
  /\ netEvents \subseteq EventId
  /\ waiting \in [EventId -> 0 .. MaxPending]
  /\ rows \subseteq EventId \X Part
  /\ horizon \in 0 .. MaxHorizon
  /\ pass \in Pass
  /\ absent \subseteq EventId
  /\ masked \subseteq Minutes
  /\ reconcileFaults \in 0 .. ReconcileFaults

\* Some of the events may date from before there was an outbox; the clock may
\* run on before the first pass.
ReconcileInit ==
  /\ netEvents \in SUBSET EventId
  /\ waiting = [e \in EventId |-> 0]
  /\ rows = {}
  /\ horizon = 0
  /\ pass = NoPass
  /\ absent = {}
  /\ masked = {}
  /\ reconcileFaults = 0

WithFault ==
  /\ reconcileFaults < ReconcileFaults
  /\ reconcileFaults' = reconcileFaults + 1

-----------------------------------------------------------------------------
(* Around the reconciler                                                   *)

OneMore(n) == IF n = MaxPending THEN n ELSE n + 1

\* An event is committed, with an outbox row unless sampling leaves it to the
\* hot store alone.  Its timestamp is the agent's, so it may fall into a minute
\* that a pass has already counted.
Ingested(e) ==
  /\ e \notin netEvents
  /\ netEvents' = netEvents \cup {e}
  /\ waiting' \in {waiting, [waiting EXCEPT ![e] = OneMore(@)]}
  /\ UNCHANGED <<rows, horizon, pass, absent, masked, reconcileFaults>>

\* A batch is written and settled.  (A redelivered batch is absorbed by its
\* token or its ids and changes nothing here.)
Delivered(e) ==
  /\ waiting[e] > 0
  /\ e \notin Refused
  /\ \E p \in Part : rows' = rows \cup {<<e, p>>}
  /\ waiting' = [waiting EXCEPT ![e] = @ - 1]
  /\ absent' = absent \ {e}
  /\ UNCHANGED <<netEvents, horizon, pass, masked, reconcileFaults>>

\* Dead-lettered: refused by the sink, or out of attempts.
DeadLettered(e) ==
  /\ waiting[e] > 0
  /\ (e \in Refused /\ UNCHANGED reconcileFaults) \/ WithFault
  /\ waiting' = [waiting EXCEPT ![e] = @ - 1]
  /\ UNCHANGED <<netEvents, rows, horizon, pass, absent, masked>>

\* A merge keeps one row of each id.
Merged(e) ==
  /\ \E r \in RowsOf(e) : RowsOf(e) # {r} /\ rows' = (rows \ RowsOf(e)) \cup {r}
  /\ UNCHANGED <<netEvents, waiting, horizon, pass, absent, masked, reconcileFaults>>

\* The projection loses an event by a path outside the outbox.
RowsLost(e) ==
  /\ RowsOf(e) # {}
  /\ WithFault
  /\ rows' = rows \ RowsOf(e)
  /\ UNCHANGED <<netEvents, waiting, horizon, pass, absent, masked>>

\* A minute settles, and the oldest one of the window leaves it.
MinutePasses ==
  /\ horizon < MaxHorizon
  /\ horizon' = horizon + 1
  /\ UNCHANGED <<netEvents, waiting, rows, pass, absent, masked, reconcileFaults>>

-----------------------------------------------------------------------------
(* A pass                                                                  *)

\* run_once fixes the window and counts net_events in it.  A pass skipped under
\* pressure changes nothing.
CountExpected ==
  LET counted == {e \in netEvents : InWindow(MinuteOf[e])} IN
  /\ pass.at = "idle"
  /\ pass' = [NoPass EXCEPT !.at = "counted", !.counted = counted]
  /\ absent' = counted \ Projected
  /\ UNCHANGED <<netEvents, waiting, rows, horizon, masked, reconcileFaults>>

\* count() and doc_count count rows, not ids.
RowCount(m) == Cardinality(RowsIn(m))

\* Mutant: only minutes that are missing altogether.
EmptyMinutes == {m \in Minutes : RowCount(m) = 0 /\ InMinute(pass.counted, m) # {}}

\* _diverging_minutes
Diverging == {m \in Minutes : RowCount(m) < Cardinality(InMinute(pass.counted, m))}

\* A row that counts for an event counted already, or for one not counted.
Extra(r) == r[1] \notin pass.counted \/ RowsOf(r[1]) # {r}

CountPresent ==
  /\ pass.at = "counted"
  /\ pass' = [pass EXCEPT !.at = "drill", !.todo = Diverging, !.budget = RepairBudget]
  /\ masked' = {m \in Minutes : \E r \in RowsIn(m) : Extra(r)}
  /\ UNCHANGED <<netEvents, waiting, rows, horizon, absent, reconcileFaults>>

\* The minute being drilled: the first of those left.
IsFirst(m) == m \in pass.todo /\ \A n \in pass.todo : m =< n

ReadSource ==
  /\ pass.at = "drill"
  /\ \E m \in pass.todo :
       IsFirst(m) /\ pass' = [pass EXCEPT !.at = "source", !.source = InMinute(netEvents, m)]
  /\ UNCHANGED <<netEvents, waiting, rows, horizon, absent, masked, reconcileFaults>>

Missing == pass.source \ Projected

\* Mutants: the whole minute is repaired, or one event fewer.
SelectedAll == Missing
SelectedLess == {e \in Missing : Cardinality({x \in Missing : x < e}) + 1 < pass.budget}

\* missing[:budget]
Selected == {e \in Missing : Cardinality({x \in Missing : x < e}) < pass.budget}

ReadProjection ==
  /\ pass.at = "source"
  /\ pass' = [pass EXCEPT !.at = IF Selected = {} THEN "drill" ELSE "repair",
                          !.todo = {m \in @ : ~IsFirst(m)},
                          !.source = {},
                          !.selected = Selected,
                          !.found = @ \cup Missing]
  /\ UNCHANGED <<netEvents, waiting, rows, horizon, absent, masked, reconcileFaults>>

\* A new batch, whatever of these events still waits in another one.
EnqueueRepair ==
  /\ pass.at = "repair"
  /\ waiting' = [e \in EventId |->
                   IF e \in pass.selected THEN OneMore(waiting[e]) ELSE waiting[e]]
  /\ pass' = [pass EXCEPT !.at = "drill", !.selected = {},
                          !.budget = @ - Cardinality(pass.selected)]
  /\ UNCHANGED <<netEvents, rows, horizon, absent, masked, reconcileFaults>>

Finished == pass.at = "drill" /\ pass.todo = {}

PassEnds ==
  /\ pass' = NoPass
  /\ absent' = {}
  /\ masked' = {}
  /\ UNCHANGED <<netEvents, waiting, rows, horizon>>

\* The divergence is reported.
PublishPass == Finished /\ PassEnds /\ UNCHANGED reconcileFaults

\* A query fails, or the process goes down: the pass is over.
PassFails == pass.at # "idle" /\ PassEnds /\ WithFault

PassStep ==
  CountExpected \/ CountPresent \/ ReadSource \/ ReadProjection \/ EnqueueRepair \/ PublishPass

-----------------------------------------------------------------------------
ReconcileNext ==
  \/ \E e \in EventId : Ingested(e) \/ Delivered(e) \/ DeadLettered(e) \/ Merged(e) \/ RowsLost(e)
  \/ MinutePasses
  \/ PassStep
  \/ PassFails

ReconcileSpec == ReconcileInit /\ [][ReconcileNext]_reconcileVars

-----------------------------------------------------------------------------
\* A pass that ends, and beside which nothing was ingested into the minutes it
\* counted, has counted every event of its window as missing that the
\* projection lacked throughout.  The code does not keep this: a second row of
\* one event makes up, in the count of its minute, for another event that has
\* none.
NeverHidden ==
  (Finished /\ \A e \in netEvents, c \in pass.counted :
                 MinuteOf[e] = MinuteOf[c] => e \in pass.counted)
    => absent \subseteq pass.found

\* It does except in the minutes where, when the rows were counted, an event had
\* two of them, or one that was ingested after net_events was counted.
MissingReported ==
  Finished => \A e \in absent : MinuteOf[e] \in masked \/ e \in pass.found

\* A stored event of the window that the sink can take is in the projection in
\* the end, whatever was lost or written off, unless its minute holds duplicate
\* rows, or leaves the window first: then no pass looks at it again
\* (docs/workers/analytical_sinks.md:118 has the lookback raised for history).
\* As the clock may stop, what stays in the window is projected.  The refused
\* events do not use up the budget of every pass as long as they are fewer.
Doubled(m) == \E e \in EventId : MinuteOf[e] = m /\ Cardinality(RowsOf(e)) > 1

EveryEventProjected ==
  \A e \in EventId \ Refused :
    e \in netEvents /\ InWindow(MinuteOf[e]) ~>
      e \in Projected \/ Doubled(MinuteOf[e]) \/ ~InWindow(MinuteOf[e])
=============================================================================
