------------------------------- MODULE MCSinks -------------------------------
(***************************************************************************)
(* Model checking of what the analytical sinks owe in the end: the outbox  *)
(* that every row leaves, and the reconciler that finds what a projection  *)
(* lacks.  A behaviour belongs to one of them, the other rests.            *)
(***************************************************************************)
EXTENDS Outbox, Reconciler, TLC

\* The refused event comes first; the two others share a minute.
MCMinuteOf == <<0, 1, 1>>

VARIABLE part

allVars == <<part, vars, reconcileVars>>

\* The reconciler has one initial state while it rests.
MCInit ==
  /\ part \in {"outbox", "reconciler"}
  /\ Init
  /\ ReconcileInit /\ (part = "outbox" => netEvents = {})

InOutbox(A) == part = "outbox" /\ A /\ UNCHANGED <<part, reconcileVars>>
InReconciler(A) == part = "reconciler" /\ A /\ UNCHANGED <<part, vars>>

MCNext == InOutbox(Next) \/ InReconciler(ReconcileNext)

\* A dispatcher thread loops for ever and leases lapse; a pass is made again and
\* again, and what waits for a sink that can take it is delivered.  Nothing is
\* assumed of merges, of the arrival of events or of the reconciler's clock.
MCFairness ==
  /\ \A b \in Batch : WF_allVars(InOutbox(BecomesDue(b)))
  /\ \A d \in Dispatcher :
       /\ WF_allVars(InOutbox(Claim(d)))
       /\ WF_allVars(InOutbox(\E b \in Batch : Deliver(d, b)))
       /\ WF_allVars(InOutbox(\E b \in Batch : Settle(d, b)))
  /\ WF_allVars(InReconciler(PassStep))
  /\ \A e \in EventId : WF_allVars(InReconciler(Delivered(e)))

MCSpec == MCInit /\ [][MCNext]_allVars /\ MCFairness

\* Both components' variables keep their types.
SinksTypeOK == TypeOK /\ ReconcileTypeOK
=============================================================================
