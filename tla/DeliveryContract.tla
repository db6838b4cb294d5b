-------------------------- MODULE DeliveryContract --------------------------
(***************************************************************************)
(* What the outbox of one sink promises its producers, whatever the number *)
(* of dispatchers, the leases and the crashes: every accepted batch stays  *)
(* an open obligation until each of its events is resolved (applied by the *)
(* sink, or written off in a dead letter), and is closed in the end.       *)
(***************************************************************************)
CONSTANTS Batch, Event

VARIABLES
  accepted,  \* accepted[b]: the events batch b was accepted with
  open,      \* batches whose obligation still stands
  resolved   \* events applied by the sink or written off on record

contract == <<accepted, open, resolved>>

Init ==
  /\ accepted = [b \in Batch |-> {}]
  /\ open = {}
  /\ resolved = {}

\* A producer commits a batch.
Accept(b, events) ==
  /\ accepted[b] = {} /\ b \notin open
  /\ events # {}
  /\ accepted' = [accepted EXCEPT ![b] = events]
  /\ open' = open \cup {b}
  /\ UNCHANGED resolved

\* Events are resolved, and a batch may close once all of its events are.
Resolve(events, closed) ==
  /\ events \subseteq UNION {accepted[b] : b \in Batch}
  /\ closed \subseteq open
  /\ resolved' = resolved \cup events
  /\ open' = open \ closed
  /\ \A b \in closed : accepted[b] \subseteq resolved'
  /\ UNCHANGED accepted

Next ==
  \/ \E b \in Batch, events \in SUBSET Event : Accept(b, events)
  \/ \E events \in SUBSET Event, closed \in SUBSET Batch : Resolve(events, closed)

Safe == Init /\ [][Next]_contract

Closes == \A b \in Batch : (b \in open) ~> (b \notin open)

Spec == Safe /\ Closes
=============================================================================
