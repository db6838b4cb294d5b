----------------------------- MODULE SinkProofs -----------------------------
(***************************************************************************)
(* Proofs about the analytical sinks, for any number of batches, events,   *)
(* dispatchers, minutes and parts.                                         *)
(*   - Outbox: OutboxInv is inductive with leases that lapse at any time   *)
(*     and any number of crashes; no event is lost, and the dispatchers    *)
(*     implement DeliveryContract.                                         *)
(*   - Reconciler: a pass reports what the projection lacked throughout,   *)
(*     except in minutes with extra rows, whatever runs beside it, and     *)
(*     repairs no more than its budget.                                    *)
(***************************************************************************)
EXTENDS MCSinks, DataLemmas


-----------------------------------------------------------------------------
(* Types.                                                                  *)

LEMMA EmptyRecords == NoClaim \in Claimed /\ NoRow \in Row /\ GoneRow \in Row
BY OutboxAssumption DEF OutboxAssumption, Claimed, Row, NoClaim, NoRow, GoneRow

LEMMA InitTypeOK == Init => TypeOK
<1> SUFFICES ASSUME Init PROVE TypeOK
  OBVIOUS
<1>1. row \in [Batch -> Row] /\ older \in [Batch -> SUBSET Batch]
  BY EmptyRecords DEF Init
<1>2. claim \in [Dispatcher -> [Batch -> Claimed]]
  BY EmptyRecords DEF Init
<1>3. crashes \in 0 .. MaxCrashes
  BY OutboxAssumption DEF OutboxAssumption, Init
<1>4. QED
  BY <1>1, <1>2, <1>3 DEF Init, TypeOK

LEMMA NextAttemptType ==
  ASSUME TypeOK, NEW b \in Batch
  PROVE  NextAttempt(b) \in 0 .. MaxAttempts
BY OutboxAssumption DEF TypeOK, Row, NextAttempt

LEMMA UnqueueType ==
  ASSUME TypeOK, NEW S
  PROVE  Unqueue(S) \in [Batch -> SUBSET Batch]
BY DEF TypeOK, Unqueue

LEMMA DeadLetterRowsType ==
  ASSUME NEW b \in Batch, NEW events \in SUBSET Event, NEW reason \in Reason
  PROVE  DeadLetterRows(b, events, reason) \subseteq DeadLetter
BY DEF DeadLetterRows, DeadLetter

LEMMA RescheduledRow ==
  ASSUME NEW r \in Row, NEW p \in SUBSET Event
  PROVE  [r EXCEPT !.state = "held", !.payload = p] \in Row
BY ZenonT(30) DEF Row

LEMMA LeasedRow ==
  ASSUME NEW r \in Row, NEW n \in 0 .. MaxAttempts
  PROVE  [r EXCEPT !.state = "held", !.attempts = n] \in Row
BY ZenonT(30) DEF Row

LEMMA DueRow ==
  ASSUME NEW r \in Row
  PROVE  [r EXCEPT !.state = "due"] \in Row
BY ZenonT(30) DEF Row

\* The type invariant is inductive (every action of Outbox).
LEMMA NextTypeOK == TypeOK /\ [Next]_vars => TypeOK'
<1> SUFFICES ASSUME TypeOK, [Next]_vars PROVE TypeOK'
  OBVIOUS
<1> USE OutboxAssumption
<1>1. ASSUME NEW b \in Batch, NEW events \in SUBSET Event, Enqueue(b, events)
      PROVE  TypeOK'
  BY <1>1 DEF Enqueue, TypeOK, Row, Due
<1>2. ASSUME NEW b \in Batch, BecomesDue(b)
      PROVE  TypeOK'
  <2>1. row[b] \in Row
    BY DEF TypeOK
  <2>2. [row[b] EXCEPT !.state = "due"] \in Row
    BY <2>1, DueRow
  <2>3. QED
    BY <1>2, <2>2 DEF BecomesDue, TypeOK, Due
<1>3. ASSUME NEW d \in Dispatcher, Claim(d)
      PROVE  TypeOK'
  <2> PICK S \in SUBSET Due :
         /\ row' = [b \in Batch |->
              IF b \in S THEN [row[b] EXCEPT !.state = "held",
                                             !.attempts = NextAttempt(b)]
                         ELSE row[b]]
         /\ older' = Unqueue(S)
         /\ claim' = [claim EXCEPT ![d] = [b \in Batch |->
              IF b \in S THEN [phase |-> "claimed", events |-> row[b].payload,
                               attempts |-> NextAttempt(b),
                               retry |-> {}, dead |-> {}]
                         ELSE NoClaim]]
    BY <1>3 DEF Claim
  <2>0. \A b \in Batch : NextAttempt(b) \in 0 .. MaxAttempts
    BY NextAttemptType
  <2>1. row' \in [Batch -> Row]
    <3>1. \A b \in Batch : row[b] \in Row
      BY DEF TypeOK
    <3>2. \A b \in Batch :
            [row[b] EXCEPT !.state = "held", !.attempts = NextAttempt(b)] \in Row
      BY <2>0, <3>1, LeasedRow
    <3>3. QED
      BY <3>1, <3>2
  <2>2. older' \in [Batch -> SUBSET Batch]
    BY UnqueueType
  <2>3. claim' \in [Dispatcher -> [Batch -> Claimed]]
    <3> DEFINE held == [b \in Batch |->
              IF b \in S THEN [phase |-> "claimed", events |-> row[b].payload,
                               attempts |-> NextAttempt(b),
                               retry |-> {}, dead |-> {}]
                         ELSE NoClaim]
    <3>1. held \in [Batch -> Claimed]
      <4>1. ASSUME NEW b \in Batch
            PROVE  [phase |-> "claimed", events |-> row[b].payload,
                    attempts |-> NextAttempt(b), retry |-> {}, dead |-> {}]
                     \in Claimed
        <5>1. row[b].payload \in SUBSET Event
          BY DEF TypeOK, Row
        <5>2. QED
          BY <2>0, <5>1 DEF Claimed
      <4>2. QED
        BY <4>1, EmptyRecords
    <3>2. claim' = [claim EXCEPT ![d] = held]
      OBVIOUS
    <3> HIDE DEF held
    <3>3. QED
      BY <3>1, <3>2 DEF TypeOK
  <2>4. QED
    BY <1>3, <2>1, <2>2, <2>3 DEF Claim, TypeOK
<1>4. ASSUME NEW d \in Dispatcher, NEW b \in Batch, Deliver(d, b)
      PROVE  TypeOK'
  <2> PICK retry \in SUBSET claim[d][b].events,
           dead \in SUBSET claim[d][b].events :
         /\ \E landed \in SUBSET retry :
              sink' = sink \cup landed \cup Applied(claim[d][b].events, retry, dead)
         /\ claim' = [claim EXCEPT ![d][b] =
              [@ EXCEPT !.phase = "delivered", !.retry = retry, !.dead = dead]]
    BY <1>4 DEF Deliver
  <2>1. claim[d][b] \in Claimed
    BY DEF TypeOK
  <2>2. sink' \subseteq Event
    BY <2>1 DEF TypeOK, Claimed, Applied
  <2>3. claim' \in [Dispatcher -> [Batch -> Claimed]]
    BY <2>1 DEF TypeOK, Claimed
  <2>4. QED
    BY <1>4, <2>2, <2>3 DEF Deliver, TypeOK
<1>5. ASSUME NEW d \in Dispatcher, NEW b \in Batch, Settle(d, b)
      PROVE  TypeOK'
  <2>1. claim[d][b] \in Claimed
    BY DEF TypeOK
  <2>2. row' \in [Batch -> Row]
    <3>2. ASSUME Reschedule(b, claim[d][b].retry)
          PROVE  row' \in [Batch -> Row]
      <4>1. row[b] \in Row /\ claim[d][b].retry \in SUBSET Event
        BY <2>1 DEF TypeOK, Claimed
      <4>2. [row[b] EXCEPT !.state = "held", !.payload = claim[d][b].retry] \in Row
        BY <4>1, RescheduledRow
      <4>3. QED
        BY <3>2, <4>2 DEF Reschedule, TypeOK
    <3>3. ASSUME Complete(b)
          PROVE  row' \in [Batch -> Row]
      BY <3>3, EmptyRecords DEF Complete, TypeOK
    <3>4. QED
      BY <1>5, <3>2, <3>3 DEF Settle
  <2>3. dlq' \subseteq DeadLetter
    BY <1>5, <2>1, DeadLetterRowsType DEF Settle, TypeOK, Claimed, Reason
  <2>4. claim' \in [Dispatcher -> [Batch -> Claimed]]
    BY <1>5 DEF Settle, TypeOK, Claimed, NoClaim
  <2>5. older' \in [Batch -> SUBSET Batch]
    BY <1>5, UnqueueType DEF Settle
  <2>6. QED
    BY <1>5, <2>2, <2>3, <2>4, <2>5 DEF Settle, TypeOK
<1>6. ASSUME NEW d \in Dispatcher, Crash(d)
      PROVE  TypeOK'
  BY <1>6 DEF Crash, TypeOK, Claimed, NoClaim
<1>7. CASE PurgeDeadLetters
  BY <1>7 DEF PurgeDeadLetters, TypeOK, DeadLetter, EventsOf
<1>8. CASE UNCHANGED vars
  BY <1>8 DEF vars, TypeOK
<1>9. QED
  BY <1>1, <1>2, <1>3, <1>4, <1>5, <1>6, <1>7, <1>8 DEF Next

\* Every reachable state of the outbox is well typed (store.py, dispatcher.py).
THEOREM TypeCorrect == Spec => []TypeOK
<1>1. QED
  BY InitTypeOK, NextTypeOK, PTL DEF Spec

-----------------------------------------------------------------------------
(* What a step does to the resolved events.                                *)

LEMMA EventsOfUnion ==
  ASSUME NEW A, NEW B
  PROVE  EventsOf(A \cup B) = EventsOf(A) \cup EventsOf(B)
BY DEF EventsOf

LEMMA DeadLetterRowsEvents ==
  ASSUME NEW b, NEW events \in SUBSET Event, NEW reason
  PROVE  EventsOf(DeadLetterRows(b, events, reason)) = events
<1>1. CASE events = {}
  BY <1>1 DEF DeadLetterRows, EventsOf
<1>2. CASE events # {}
  <2> DEFINE r == [batch |-> b, events |-> events, reason |-> reason]
  <2>1. DeadLetterRows(b, events, reason) = {r} /\ r.events = events
    BY <1>2 DEF DeadLetterRows
  <2> HIDE DEF r
  <2>2. EventsOf({r}) = r.events
    BY <2>1 DEF EventsOf
  <2>3. QED
    BY <2>1, <2>2
<1>3. QED
  BY <1>1, <1>2

LEMMA SettleHandles ==
  ASSUME TypeOK, NEW d \in Dispatcher, NEW b \in Batch, Settle(d, b)
  PROVE  Handled' = Handled \cup claim[d][b].dead
                            \cup (IF Exhausted(d, b) THEN claim[d][b].retry ELSE {})
<1> DEFINE R == DeadLetterRows(b, claim[d][b].dead, "rejected")
           M == IF Exhausted(d, b)
                THEN DeadLetterRows(b, claim[d][b].retry, "max_attempts") ELSE {}
<1>1. dlq' = dlq \cup R \cup M /\ sink' = sink /\ purged' = purged
  BY DEF Settle
<1>2. claim[d][b].dead \in SUBSET Event /\ claim[d][b].retry \in SUBSET Event
  BY DEF TypeOK, Claimed
<1>3. EventsOf(R) = claim[d][b].dead
  BY <1>2, DeadLetterRowsEvents
<1>4. EventsOf(M) = IF Exhausted(d, b) THEN claim[d][b].retry ELSE {}
  <2>1. CASE Exhausted(d, b)
    BY <1>2, <2>1, DeadLetterRowsEvents
  <2>2. CASE ~Exhausted(d, b)
    BY <2>2 DEF EventsOf
  <2>3. QED
    BY <2>1, <2>2
<1> HIDE DEF R, M
<1>5. EventsOf(dlq') = EventsOf(dlq) \cup EventsOf(R) \cup EventsOf(M)
  <2>1. EventsOf((dlq \cup R) \cup M) = EventsOf(dlq \cup R) \cup EventsOf(M)
    BY EventsOfUnion
  <2>2. EventsOf(dlq \cup R) = EventsOf(dlq) \cup EventsOf(R)
    BY EventsOfUnion
  <2>3. QED
    BY <1>1, <2>1, <2>2
<1>6. Handled' = sink' \cup EventsOf(dlq') \cup purged'
  BY DEF Handled, EventsOf
<1>7. QED
  BY <1>1, <1>3, <1>4, <1>5, <1>6 DEF Handled

LEMMA PurgeHandles == PurgeDeadLetters => Handled' = Handled
<1> SUFFICES ASSUME PurgeDeadLetters PROVE Handled' = Handled
  OBVIOUS
<1> PICK old \in SUBSET dlq :
      /\ dlq' = dlq \ old
      /\ purged' = purged \cup EventsOf(old)
      /\ sink' = sink
  BY DEF PurgeDeadLetters
<1>1. EventsOf(dlq \ old) \cup EventsOf(old) = EventsOf(dlq)
  BY DEF EventsOf
<1>2. Handled' = sink' \cup EventsOf(dlq \ old) \cup purged'
  BY DEF Handled, EventsOf
<1>3. QED
  BY <1>1, <1>2 DEF Handled

LEMMA OthersHandle ==
  UNCHANGED <<sink, dlq, purged>> => Handled' = Handled
BY DEF Handled

-----------------------------------------------------------------------------
(* Batches carry only what they were enqueued with.                        *)

LEMMA NextOnlyEnqueued ==
  TypeOK /\ OnlyEnqueued /\ [Next]_vars => OnlyEnqueued'
<1> SUFFICES ASSUME TypeOK, OnlyEnqueued, [Next]_vars PROVE OnlyEnqueued'
  OBVIOUS
<1>1. ASSUME NEW b \in Batch, NEW events \in SUBSET Event, Enqueue(b, events)
      PROVE  OnlyEnqueued'
  BY <1>1 DEF Enqueue, OnlyEnqueued, TypeOK, Row, Holds
<1>2. ASSUME NEW b \in Batch, BecomesDue(b)
      PROVE  OnlyEnqueued'
  BY <1>2 DEF BecomesDue, OnlyEnqueued, TypeOK, Row, Holds
<1>3. ASSUME NEW d \in Dispatcher, Claim(d)
      PROVE  OnlyEnqueued'
  <2>0. PICK S \in SUBSET Due :
         /\ row' = [b \in Batch |->
              IF b \in S THEN [row[b] EXCEPT !.state = "held",
                                             !.attempts = NextAttempt(b)]
                         ELSE row[b]]
         /\ claim' = [claim EXCEPT ![d] = [b \in Batch |->
              IF b \in S THEN [phase |-> "claimed", events |-> row[b].payload,
                               attempts |-> NextAttempt(b),
                               retry |-> {}, dead |-> {}]
                         ELSE NoClaim]]
    BY <1>3 DEF Claim
  <2>1. ASSUME NEW b \in Batch
        PROVE  /\ row'[b].payload = row[b].payload
               /\ (row'[b].state = "none") = (row[b].state = "none")
               /\ b \in S => row'[b].state = "held"
    BY <2>0 DEF TypeOK, Row, Due
  <2>2. ASSUME NEW b \in Batch, NEW e \in Dispatcher
        PROVE  \/ e = d /\ claim'[e][b] = NoClaim
               \/ e = d /\ b \in S /\ claim'[e][b].events = row[b].payload
                        /\ claim'[e][b].retry = {} /\ claim'[e][b].dead = {}
               \/ claim'[e][b] = claim[e][b]
    BY <2>0 DEF TypeOK
  <2>3. enqueued' = enqueued
    BY <1>3 DEF Claim
  <2>5. ASSUME NEW e \in Dispatcher, NEW b \in Batch
        PROVE  /\ claim'[e][b].phase # "none" => row'[b].state # "none"
               /\ claim'[e][b].events \subseteq enqueued[b]
               /\ claim'[e][b].retry \subseteq claim'[e][b].events
               /\ claim'[e][b].dead \subseteq claim'[e][b].events
    <3>1. CASE claim'[e][b] = NoClaim
      BY <3>1 DEF NoClaim
    <3>2. CASE /\ b \in S /\ claim'[e][b].events = row[b].payload
               /\ claim'[e][b].retry = {} /\ claim'[e][b].dead = {}
      BY <3>2, <2>1 DEF OnlyEnqueued
    <3>3. CASE claim'[e][b] = claim[e][b]
      BY <3>3, <2>1 DEF OnlyEnqueued, Holds
    <3>4. QED
      BY <3>1, <3>2, <3>3, <2>2
  <2>4. QED
    BY <2>1, <2>3, <2>5 DEF OnlyEnqueued, Holds
<1>4. ASSUME NEW d \in Dispatcher, NEW b \in Batch, Deliver(d, b)
      PROVE  OnlyEnqueued'
  <2>1. ASSUME NEW e \in Dispatcher, NEW c \in Batch
        PROVE  /\ claim'[e][c].events = claim[e][c].events
               /\ Holds(e, c)' => Holds(e, c)
               /\ \/ /\ claim'[e][c].retry \subseteq claim[e][c].events
                     /\ claim'[e][c].dead \subseteq claim[e][c].events
                  \/ claim'[e][c] = claim[e][c]
    BY <1>4 DEF Deliver, TypeOK, Claimed, Holds
  <2>2. QED
    <3>1. row' = row /\ enqueued' = enqueued
      BY <1>4 DEF Deliver
    <3>2. SUFFICES ASSUME NEW c \in Batch, NEW e \in Dispatcher
                   PROVE  /\ Holds(e, c)' => row'[c].state # "none"
                          /\ claim'[e][c].events \subseteq enqueued'[c]
                          /\ claim'[e][c].retry \subseteq claim'[e][c].events
                          /\ claim'[e][c].dead \subseteq claim'[e][c].events
      BY <3>1 DEF OnlyEnqueued, Holds
    <3>3. QED
      BY <2>1, <3>1 DEF OnlyEnqueued, Holds
<1>5. ASSUME NEW d \in Dispatcher, NEW b \in Batch, Settle(d, b)
      PROVE  OnlyEnqueued'
  <2>1. ASSUME NEW e \in Dispatcher, NEW c \in Batch
        PROVE  claim'[e][c] = claim[e][c] \/ claim'[e][c] = NoClaim
    BY <1>5 DEF Settle, TypeOK
  <2>2. ASSUME NEW c \in Batch
        PROVE  /\ (row'[c].state = "none") = (row[c].state = "none")
               /\ row'[c].payload \subseteq row[c].payload \cup claim[d][b].retry
               /\ c # b => row'[c].payload \subseteq row[c].payload
    <3>1. ASSUME Reschedule(b, claim[d][b].retry)
          PROVE  \/ row'[c] = row[c]
                 \/ c = b /\ Present(b) /\ row'[b].state = "held"
                          /\ row'[b].payload = claim[d][b].retry
      BY <3>1 DEF Reschedule, TypeOK, Row
    <3>2. ASSUME Complete(b)
          PROVE  \/ row'[c] = row[c]
                 \/ c = b /\ Present(b) /\ row'[b] = GoneRow
      BY <3>2 DEF Complete, TypeOK
    <3>3. QED
      BY <1>5, <3>1, <3>2 DEF Settle, Present, GoneRow
  <2>3. QED
    BY <1>5, <2>1, <2>2 DEF Settle, OnlyEnqueued, NoClaim, Holds
<1>6. ASSUME NEW d \in Dispatcher, Crash(d)
      PROVE  OnlyEnqueued'
  BY <1>6 DEF Crash, OnlyEnqueued, NoClaim, TypeOK, Holds
<1>7. CASE PurgeDeadLetters
  BY <1>7 DEF PurgeDeadLetters, OnlyEnqueued, Holds
<1>8. CASE UNCHANGED vars
  BY <1>8 DEF vars, OnlyEnqueued, Holds
<1>9. QED
  BY <1>1, <1>2, <1>3, <1>4, <1>5, <1>6, <1>7, <1>8 DEF Next

-----------------------------------------------------------------------------
(* No event is lost.  RowCovers and HolderCovers are the two invariants of  *)
(* Outbox, batch by batch.                                                 *)

RowCovers(b) ==
  enqueued[b] \subseteq Handled \cup (IF Present(b) THEN row[b].payload ELSE {})

HolderCovers(d, b) ==
  Holds(d, b) => enqueued[b] \subseteq Handled \cup Unsettled(d, b)

Covered ==
  /\ \A b \in Batch : RowCovers(b)
  /\ \A d \in Dispatcher, b \in Batch : HolderCovers(d, b)

LEMMA CoveredIsBoth == Covered <=> NoEventLost /\ HoldersCover
BY DEF Covered, RowCovers, HolderCovers, NoEventLost, HoldersCover

\* Once resolved, an event stays resolved, whatever the step.
LEMMA HandledGrows == TypeOK /\ [Next]_vars => Handled \subseteq Handled'
<1> SUFFICES ASSUME TypeOK, [Next]_vars PROVE Handled \subseteq Handled'
  OBVIOUS
<1>1. ASSUME NEW d \in Dispatcher, NEW b \in Batch, Deliver(d, b)
      PROVE  Handled \subseteq Handled'
  BY <1>1 DEF Deliver, Handled, EventsOf
<1>2. ASSUME NEW d \in Dispatcher, NEW b \in Batch, Settle(d, b)
      PROVE  Handled \subseteq Handled'
  BY <1>2, SettleHandles
<1>3. CASE PurgeDeadLetters
  BY <1>3, PurgeHandles
<1>4. CASE UNCHANGED <<sink, dlq, purged>>
  BY <1>4, OthersHandle
<1>5. QED
  BY <1>1, <1>2, <1>3, <1>4 DEF Next, Enqueue, BecomesDue, Claim, Crash, vars

\* A step that leaves a row and its history alone, or only marks it due or
\* held, keeps it covered.
LEMMA SameRowCovered ==
  ASSUME Handled \subseteq Handled', NEW b \in Batch, RowCovers(b),
         enqueued'[b] = enqueued[b], row'[b].payload = row[b].payload,
         Present(b) => row'[b].state \in {"due", "held"}
  PROVE  RowCovers(b)'
BY DEF RowCovers, Present

LEMMA SameClaimCovered ==
  ASSUME Handled \subseteq Handled', NEW d \in Dispatcher, NEW b \in Batch,
         HolderCovers(d, b), enqueued'[b] = enqueued[b],
         claim'[d][b] = claim[d][b] \/ claim'[d][b] = NoClaim
  PROVE  HolderCovers(d, b)'
BY DEF HolderCovers, Holds, Unsettled, NoClaim

LEMMA NextCovered ==
  TypeOK /\ OnlyEnqueued /\ Covered /\ [Next]_vars => Covered'
<1> SUFFICES ASSUME TypeOK, OnlyEnqueued, Covered, [Next]_vars PROVE Covered'
  OBVIOUS
<1>0. Handled \subseteq Handled'
  BY HandledGrows
<1>c. /\ \A b \in Batch : RowCovers(b)
      /\ \A d \in Dispatcher, b \in Batch : HolderCovers(d, b)
  BY DEF Covered
<1>1. ASSUME NEW x \in Batch, NEW events \in SUBSET Event, Enqueue(x, events)
      PROVE  Covered'
  <2>1. ASSUME NEW b \in Batch PROVE RowCovers(b)'
    <3>1. CASE b = x
      BY <1>1, <3>1 DEF Enqueue, TypeOK, RowCovers, Present
    <3>2. CASE b # x
      <4>1. row'[b] = row[b] /\ enqueued'[b] = enqueued[b]
        BY <1>1, <3>2 DEF Enqueue, TypeOK
      <4>2. QED
        BY <1>0, <1>c, <4>1, SameRowCovered DEF Present
    <3>3. QED
      BY <3>1, <3>2
  <2>2. ASSUME NEW d \in Dispatcher, NEW b \in Batch PROVE HolderCovers(d, b)'
    <3>1. claim'[d][b] = claim[d][b]
      BY <1>1 DEF Enqueue
    <3>2. CASE b = x
      <4>1. ~Holds(d, b)
        BY <1>1, <3>2 DEF Enqueue, OnlyEnqueued
      <4>2. QED
        BY <3>1, <4>1 DEF HolderCovers, Holds
    <3>3. CASE b # x
      <4>1. enqueued'[b] = enqueued[b]
        BY <1>1, <3>3 DEF Enqueue, TypeOK
      <4>2. QED
        BY <1>0, <1>c, <3>1, <4>1, SameClaimCovered
    <3>4. QED
      BY <3>2, <3>3
  <2>3. QED
    BY <2>1, <2>2 DEF Covered
<1>2. ASSUME NEW x \in Batch, BecomesDue(x)
      PROVE  Covered'
  <2>1. ASSUME NEW b \in Batch PROVE RowCovers(b)'
    <3>1. /\ enqueued'[b] = enqueued[b] /\ row'[b].payload = row[b].payload
          /\ Present(b) => row'[b].state \in {"due", "held"}
      BY <1>2 DEF BecomesDue, TypeOK, Row, Present
    <3>2. QED
      BY <1>0, <1>c, <3>1, SameRowCovered
  <2>2. ASSUME NEW d \in Dispatcher, NEW b \in Batch PROVE HolderCovers(d, b)'
    <3>1. claim'[d][b] = claim[d][b] /\ enqueued'[b] = enqueued[b]
      BY <1>2 DEF BecomesDue
    <3>2. QED
      BY <1>0, <1>c, <3>1, SameClaimCovered
  <2>3. QED
    BY <2>1, <2>2 DEF Covered
<1>3. ASSUME NEW x \in Dispatcher, Claim(x)
      PROVE  Covered'
  <2>0. PICK S \in SUBSET Due :
         /\ row' = [b \in Batch |->
              IF b \in S THEN [row[b] EXCEPT !.state = "held",
                                             !.attempts = NextAttempt(b)]
                         ELSE row[b]]
         /\ claim' = [claim EXCEPT ![x] = [b \in Batch |->
              IF b \in S THEN [phase |-> "claimed", events |-> row[b].payload,
                               attempts |-> NextAttempt(b),
                               retry |-> {}, dead |-> {}]
                         ELSE NoClaim]]
         /\ enqueued' = enqueued
    BY <1>3 DEF Claim
  <2>1. ASSUME NEW b \in Batch PROVE RowCovers(b)'
    <3>1. /\ enqueued'[b] = enqueued[b] /\ row'[b].payload = row[b].payload
          /\ Present(b) => row'[b].state \in {"due", "held"}
      BY <2>0 DEF TypeOK, Row, Present, Due
    <3>2. QED
      BY <1>0, <1>c, <3>1, SameRowCovered
  <2>2. ASSUME NEW d \in Dispatcher, NEW b \in Batch PROVE HolderCovers(d, b)'
    <3>1. \/ claim'[d][b] = claim[d][b] \/ claim'[d][b] = NoClaim
          \/ b \in S /\ claim'[d][b].phase = "claimed"
                     /\ claim'[d][b].events = row[b].payload
      BY <2>0 DEF TypeOK
    <3>2. CASE claim'[d][b] = claim[d][b] \/ claim'[d][b] = NoClaim
      BY <1>0, <1>c, <2>0, <3>2, SameClaimCovered
    <3>3. CASE b \in S /\ claim'[d][b].phase = "claimed"
                       /\ claim'[d][b].events = row[b].payload
      \* What a claim reads is what the row still owes.
      <4>1. enqueued[b] \subseteq Handled \cup row[b].payload
        BY <1>c, <3>3 DEF RowCovers, Present, Due
      <4>2. Unsettled(d, b)' = row[b].payload
        BY <3>3 DEF Unsettled
      <4>3. enqueued' = enqueued
        BY <2>0
      <4>4. QED
        BY <1>0, <4>1, <4>2, <4>3 DEF HolderCovers
    <3>4. QED
      BY <3>1, <3>2, <3>3
  <2>3. QED
    BY <2>1, <2>2 DEF Covered
<1>6. ASSUME NEW x \in Dispatcher, Crash(x)
      PROVE  Covered'
  <2>1. row' = row /\ enqueued' = enqueued
    BY <1>6 DEF Crash
  <2>2. ASSUME NEW d \in Dispatcher, NEW b \in Batch
        PROVE  claim'[d][b] = claim[d][b] \/ claim'[d][b] = NoClaim
    BY <1>6 DEF Crash, TypeOK
  <2>3. ASSUME NEW b \in Batch PROVE RowCovers(b)'
    BY <1>0, <1>c, <2>1, SameRowCovered DEF Present
  <2>4. ASSUME NEW d \in Dispatcher, NEW b \in Batch PROVE HolderCovers(d, b)'
    BY <1>0, <1>c, <2>1, <2>2, SameClaimCovered
  <2>5. QED
    BY <2>3, <2>4 DEF Covered
<1>7. CASE UNCHANGED <<row, claim, enqueued>>
  <2>1. ASSUME NEW b \in Batch PROVE RowCovers(b)'
    BY <1>0, <1>c, <1>7, SameRowCovered DEF Present
  <2>2. ASSUME NEW d \in Dispatcher, NEW b \in Batch PROVE HolderCovers(d, b)'
    BY <1>0, <1>c, <1>7, SameClaimCovered
  <2>3. QED
    BY <2>1, <2>2 DEF Covered
<1>4. ASSUME NEW x \in Dispatcher, NEW y \in Batch, Deliver(x, y)
      PROVE  Covered'
  <2>0. PICK retry \in SUBSET claim[x][y].events,
             dead \in SUBSET claim[x][y].events :
         /\ \E landed \in SUBSET retry :
              sink' = sink \cup landed \cup Applied(claim[x][y].events, retry, dead)
         /\ claim' = [claim EXCEPT ![x][y] =
              [@ EXCEPT !.phase = "delivered", !.retry = retry, !.dead = dead]]
         /\ UNCHANGED <<row, dlq, enqueued, purged>>
         /\ claim[x][y].phase = "claimed"
    BY <1>4 DEF Deliver
  <2>1. claim[x][y].events \ (retry \cup dead) \subseteq Handled'
    BY <2>0 DEF Handled, Applied
  <2>2. ASSUME NEW b \in Batch PROVE RowCovers(b)'
    BY <1>0, <1>c, <2>0, SameRowCovered DEF Present
  <2>3. ASSUME NEW d \in Dispatcher, NEW b \in Batch PROVE HolderCovers(d, b)'
    <3>1. CASE d = x /\ b = y
      <4>1. enqueued[y] \subseteq Handled \cup claim[x][y].events
        BY <1>c, <2>0 DEF HolderCovers, Holds, Unsettled
      <4>2. /\ claim'[x][y].phase = "delivered"
            /\ claim'[x][y].retry = retry /\ claim'[x][y].dead = dead
        BY <2>0 DEF TypeOK, Claimed
      <4>3. Unsettled(x, y)' = retry \cup dead
        BY <4>2 DEF Unsettled
      <4>4. enqueued' = enqueued
        BY <2>0
      <4>5. QED
        BY <1>0, <2>1, <3>1, <4>1, <4>3, <4>4 DEF HolderCovers
    <3>2. CASE ~(d = x /\ b = y)
      <4>1. claim'[d][b] = claim[d][b]
        BY <2>0, <3>2 DEF TypeOK
      <4>2. QED
        BY <1>0, <1>c, <2>0, <4>1, SameClaimCovered
    <3>3. QED
      BY <3>1, <3>2
  <2>4. QED
    BY <2>2, <2>3 DEF Covered
<1>5. ASSUME NEW x \in Dispatcher, NEW y \in Batch, Settle(x, y)
      PROVE  Covered'
  <2>0. enqueued' = enqueued
    BY <1>5 DEF Settle
  <2>1. enqueued[y] \subseteq Handled \cup claim[x][y].retry \cup claim[x][y].dead
    BY <1>5, <1>c DEF Settle, InFlight, HolderCovers, Holds, Unsettled
  <2>2. /\ claim[x][y].dead \subseteq Handled'
        /\ Exhausted(x, y) => claim[x][y].retry \subseteq Handled'
    BY <1>5, SettleHandles
  <2>3. ASSUME NEW b \in Batch PROVE RowCovers(b)'
    <3>1. CASE b # y
      <4>1. row'[b] = row[b]
        BY <1>5, <3>1 DEF Settle, Reschedule, Complete, TypeOK
      <4>2. QED
        BY <1>0, <1>c, <2>0, <4>1, SameRowCovered DEF Present
    <3>2. CASE b = y /\ claim[x][y].retry # {} /\ ~Exhausted(x, y)
      <4>1. Reschedule(y, claim[x][y].retry)
        BY <1>5, <3>2 DEF Settle
      <4>2. CASE Present(y)
        <5>1. row'[y].state = "held" /\ row'[y].payload = claim[x][y].retry
          BY <4>1, <4>2 DEF Reschedule, TypeOK, Row
        <5>2. Present(y)'
          BY <5>1 DEF Present
        <5>3. QED
          BY <1>0, <2>0, <2>1, <2>2, <3>2, <5>1, <5>2 DEF RowCovers
      <4>3. CASE ~Present(y)
        <5>1. row' = row
          BY <4>1, <4>3 DEF Reschedule
        <5>2. QED
          BY <1>0, <1>c, <2>0, <3>2, <5>1, SameRowCovered DEF Present
      <4>4. QED
        BY <4>2, <4>3
    <3>3. CASE b = y /\ (claim[x][y].retry = {} \/ Exhausted(x, y))
      <4>1. enqueued[y] \subseteq Handled'
        BY <1>0, <2>1, <2>2, <3>3
      <4>2. QED
        BY <2>0, <3>3, <4>1 DEF RowCovers
    <3>4. QED
      BY <3>1, <3>2, <3>3
  <2>4. ASSUME NEW d \in Dispatcher, NEW b \in Batch PROVE HolderCovers(d, b)'
    <3>1. claim'[d][b] = claim[d][b] \/ claim'[d][b] = NoClaim
      BY <1>5 DEF Settle, TypeOK
    <3>2. QED
      BY <1>0, <1>c, <2>0, <3>1, SameClaimCovered
  <2>5. QED
    BY <2>3, <2>4 DEF Covered
<1>8. QED
  BY <1>1, <1>2, <1>3, <1>4, <1>5, <1>6, <1>7 DEF Next, PurgeDeadLetters, vars

-----------------------------------------------------------------------------
(* The theorems.                                                           *)

LEMMA InitInv == Init => OutboxInv
<1> SUFFICES ASSUME Init PROVE OutboxInv
  OBVIOUS
<1>1. OnlyEnqueued /\ NoEventLost /\ HoldersCover
  BY DEF Init, OnlyEnqueued, NoEventLost, HoldersCover, Holds, NoRow, NoClaim
<1>2. QED
  BY <1>1, InitTypeOK DEF OutboxInv

LEMMA NextInv == OutboxInv /\ [Next]_vars => OutboxInv'
<1>1. Covered' => NoEventLost' /\ HoldersCover'
  BY DEF Covered, RowCovers, HolderCovers, NoEventLost, HoldersCover
<1>2. QED
  BY <1>1, NextTypeOK, NextOnlyEnqueued, NextCovered, CoveredIsBoth DEF OutboxInv

\* The inductive invariant: a row covers what its batch still owes, and so
\* does every claim on it, current or stale (_settle names rows by id only).
THEOREM OutboxInvariant == Spec => []OutboxInv
BY InitInv, NextInv, PTL DEF Spec

\* No lapsed lease, stale settlement, partial delivery or crash drops an
\* event of a committed batch (drain_once, _settle).
THEOREM NothingLost == Spec => []NoEventLost
BY OutboxInvariant, PTL DEF OutboxInv

\* Whoever still holds a batch knows every event of it that is unresolved.
THEOREM StaleHoldersHarmless == Spec => []HoldersCover
BY OutboxInvariant, PTL DEF OutboxInv

-----------------------------------------------------------------------------
(* Before a lease lapses under a dispatcher at work, rows have one owner.   *)

HolderOwns ==
  \A d \in Dispatcher, b \in Batch : Holds(d, b) =>
    /\ row[b].state = "held"
    /\ claim[d][b].events = row[b].payload
    /\ claim[d][b].retry \cap claim[d][b].dead = {}

OneHolder ==
  \A d1, d2 \in Dispatcher, b \in Batch :
    Holds(d1, b) /\ Holds(d2, b) => d1 = d2

WrittenOff ==
  \A rec \in dlq :
    /\ row[rec.batch].state # "none"
    /\ Present(rec.batch) => rec.events \cap row[rec.batch].payload = {}

Owned == HolderOwns /\ OneHolder /\ WrittenOff

LeaseInv == ~overran => Owned

\* What every step but Claim and Deliver does to a claim.
LEMMA FewerClaims ==
  ASSUME Owned,
         \A d \in Dispatcher, b \in Batch :
           claim'[d][b] = claim[d][b] \/ claim'[d][b] = NoClaim
  PROVE  /\ OneHolder'
         /\ \A d \in Dispatcher, b \in Batch :
              Holds(d, b)' => Holds(d, b) /\ claim'[d][b] = claim[d][b]
<1>1. \A d \in Dispatcher, b \in Batch :
        Holds(d, b)' => Holds(d, b) /\ claim'[d][b] = claim[d][b]
  BY DEF Holds, NoClaim
<1>2. QED
  BY <1>1 DEF Owned, OneHolder

LEMMA EnqueueOwned ==
  ASSUME OutboxInv, Owned, NEW x \in Batch, NEW events \in SUBSET Event,
         Enqueue(x, events)
  PROVE  Owned'
<1>1. row[x].state = "none" /\ claim' = claim /\ dlq' = dlq
  BY DEF Enqueue
<1>2. \A b \in Batch \ {x} : row'[b] = row[b]
  BY DEF Enqueue, OutboxInv, TypeOK
<1>3. \A d \in Dispatcher : ~Holds(d, x)
  BY <1>1 DEF OutboxInv, OnlyEnqueued
<1>4. HolderOwns' /\ OneHolder'
  BY <1>1, <1>2, <1>3 DEF Owned, HolderOwns, OneHolder, Holds
<1>5. \A rec \in dlq : rec.batch \in Batch \ {x}
  BY <1>1 DEF OutboxInv, TypeOK, DeadLetter, Owned, WrittenOff
<1>6. WrittenOff'
  BY <1>1, <1>2, <1>5 DEF Owned, WrittenOff, Present
<1>7. QED
  BY <1>4, <1>6 DEF Owned

LEMMA BecomesDueOwned ==
  ASSUME OutboxInv, Owned, NEW x \in Batch, BecomesDue(x), ~overran'
  PROVE  Owned'
<1>1. claim' = claim /\ dlq' = dlq /\ row[x].state = "held"
  BY DEF BecomesDue
<1>2. \A d \in Dispatcher : ~Holds(d, x)
  BY DEF BecomesDue
<1>3. \A b \in Batch \ {x} : row'[b] = row[b]
  BY DEF BecomesDue, OutboxInv, TypeOK
<1>8. row'[x].payload = row[x].payload /\ row'[x].state = "due"
  BY DEF BecomesDue, OutboxInv, TypeOK, Row
<1>4. HolderOwns' /\ OneHolder'
  <2>1. \A d \in Dispatcher, b \in Batch : Holds(d, b)' = Holds(d, b)
    BY <1>1 DEF Holds
  <2>2. QED
    BY <1>1, <1>2, <1>3, <2>1 DEF Owned, HolderOwns, OneHolder
<1>5. ASSUME NEW rec \in dlq
      PROVE  /\ row'[rec.batch].state # "none"
             /\ Present(rec.batch)' => rec.events \cap row'[rec.batch].payload = {}
  <2>1. rec.batch \in Batch
    BY DEF OutboxInv, TypeOK, DeadLetter
  <2>2. /\ row[rec.batch].state # "none"
        /\ Present(rec.batch) => rec.events \cap row[rec.batch].payload = {}
    BY DEF Owned, WrittenOff
  <2>3. CASE rec.batch = x
    BY <1>1, <1>8, <2>2, <2>3 DEF Present
  <2>4. CASE rec.batch # x
    BY <1>3, <2>1, <2>2, <2>4 DEF Present
  <2>5. QED
    BY <2>3, <2>4
<1>6. WrittenOff'
  BY <1>1, <1>5 DEF WrittenOff
<1>7. QED
  BY <1>4, <1>6 DEF Owned

LEMMA ClaimOwned ==
  ASSUME OutboxInv, Owned, NEW x \in Dispatcher, Claim(x)
  PROVE  Owned'
<1> PICK S \in SUBSET Due :
       /\ row' = [b \in Batch |->
            IF b \in S THEN [row[b] EXCEPT !.state = "held",
                                           !.attempts = NextAttempt(b)]
                       ELSE row[b]]
       /\ claim' = [claim EXCEPT ![x] = [b \in Batch |->
            IF b \in S THEN [phase |-> "claimed", events |-> row[b].payload,
                             attempts |-> NextAttempt(b),
                             retry |-> {}, dead |-> {}]
                       ELSE NoClaim]]
  BY DEF Claim
<1>1. dlq' = dlq
  BY DEF Claim
<1>2. \A b \in Batch :
        /\ row'[b].payload = row[b].payload
        /\ b \in S => row[b].state = "due" /\ row'[b].state = "held"
        /\ b \notin S => row'[b] = row[b]
  BY DEF OutboxInv, TypeOK, Row, Due
<1>3. \A d \in Dispatcher, b \in Batch : Holds(d, b)' =>
        \/ /\ d = x /\ b \in S
           /\ claim'[d][b].events = row[b].payload
           /\ claim'[d][b].retry = {}
        \/ d # x /\ Holds(d, b) /\ claim'[d][b] = claim[d][b]
  BY DEF OutboxInv, TypeOK, Holds, NoClaim
<1>0. S \subseteq Batch
  BY DEF Due
<1>4. \A d \in Dispatcher, b \in S : ~Holds(d, b)
  BY <1>0, <1>2 DEF Owned, HolderOwns
<1>5. ASSUME NEW d \in Dispatcher, NEW b \in Batch, Holds(d, b)'
      PROVE  /\ row'[b].state = "held"
             /\ claim'[d][b].events = row'[b].payload
             /\ claim'[d][b].retry \cap claim'[d][b].dead = {}
  <2>1. CASE /\ d = x /\ b \in S
             /\ claim'[d][b].events = row[b].payload
             /\ claim'[d][b].retry = {}
    BY <1>2, <2>1
  <2>2. CASE d # x /\ Holds(d, b) /\ claim'[d][b] = claim[d][b]
    <3>1. b \notin S
      BY <1>4, <2>2
    <3>2. QED
      BY <1>2, <2>2, <3>1 DEF Owned, HolderOwns
  <2>3. QED
    BY <1>3, <1>5, <2>1, <2>2
<1>6. OneHolder'
  BY <1>3, <1>4 DEF Owned, OneHolder
<1>7. \A rec \in dlq : rec.batch \in Batch
  BY DEF OutboxInv, TypeOK, DeadLetter
<1>8. WrittenOff'
  BY <1>1, <1>2, <1>7 DEF Owned, WrittenOff, Present
<1>9. HolderOwns'
  BY <1>5 DEF HolderOwns
<1>10. QED
  BY <1>6, <1>8, <1>9 DEF Owned

LEMMA DeliverOwned ==
  ASSUME OutboxInv, Owned, NEW x \in Dispatcher, NEW y \in Batch, Deliver(x, y)
  PROVE  Owned'
<1> PICK retry \in SUBSET claim[x][y].events, dead \in SUBSET claim[x][y].events :
       /\ Report(claim[x][y].events, retry, dead)
       /\ claim' = [claim EXCEPT ![x][y] =
            [@ EXCEPT !.phase = "delivered", !.retry = retry, !.dead = dead]]
       /\ UNCHANGED <<row, dlq>>
       /\ Holds(x, y)
  BY DEF Deliver, Holds
<1>1. retry \cap dead = {}
  BY DEF Report
<1>2. \A d \in Dispatcher, b \in Batch :
        /\ Holds(d, b)' => Holds(d, b)
        /\ claim'[d][b].events = claim[d][b].events
        /\ \/ claim'[d][b] = claim[d][b]
           \/ claim'[d][b].retry = retry /\ claim'[d][b].dead = dead
  BY DEF OutboxInv, TypeOK, Claimed, Holds
<1>3. HolderOwns'
  BY <1>1, <1>2 DEF Owned, HolderOwns
<1>4. OneHolder' /\ WrittenOff'
  BY <1>2 DEF Owned, OneHolder, WrittenOff, Present
<1>5. QED
  BY <1>3, <1>4 DEF Owned

LEMMA SettleOwned ==
  ASSUME OutboxInv, Owned, NEW x \in Dispatcher, NEW y \in Batch, Settle(x, y)
  PROVE  Owned'
<1>0. Holds(x, y) /\ row[y].state = "held" /\ Present(y)
  BY DEF Settle, InFlight, Holds, Owned, HolderOwns, Present
<1>1. \A d \in Dispatcher, b \in Batch :
        claim'[d][b] = claim[d][b] \/ claim'[d][b] = NoClaim
  BY DEF Settle, OutboxInv, TypeOK
<1>2. ~Holds(x, y)'
  BY DEF Settle, OutboxInv, TypeOK, Holds, NoClaim
<1>3. \A d \in Dispatcher, b \in Batch :
        Holds(d, b)' => Holds(d, b) /\ claim'[d][b] = claim[d][b] /\ b # y
  BY <1>0, <1>1, <1>2, FewerClaims DEF Owned, OneHolder
<1>4. /\ \A b \in Batch \ {y} : row'[b] = row[b]
      /\ row'[y].state # "none"
      /\ Present(y)' => /\ claim[x][y].retry # {} /\ ~Exhausted(x, y)
                        /\ row'[y].payload = claim[x][y].retry
  <2>1. CASE claim[x][y].retry # {} /\ ~Exhausted(x, y)
    <3>1. row' = [row EXCEPT ![y] =
                    [@ EXCEPT !.state = "held", !.payload = claim[x][y].retry]]
      BY <1>0, <2>1 DEF Settle, Reschedule
    <3>2. QED
      BY <2>1, <3>1 DEF OutboxInv, TypeOK, Row
  <2>2. CASE ~(claim[x][y].retry # {} /\ ~Exhausted(x, y))
    <3>1. row' = [row EXCEPT ![y] = GoneRow]
      BY <1>0, <2>2 DEF Settle, Complete
    <3>2. QED
      BY <3>1 DEF OutboxInv, TypeOK, Present, GoneRow
  <2>3. QED
    BY <2>1, <2>2
<1>5. HolderOwns'
  BY <1>3, <1>4 DEF Owned, HolderOwns
<1>6. ASSUME NEW rec \in dlq'
      PROVE  /\ row'[rec.batch].state # "none"
             /\ Present(rec.batch)' => rec.events \cap row'[rec.batch].payload = {}
  <2>1. CASE rec \in dlq
    <3>1. rec.batch \in Batch
      BY <2>1 DEF OutboxInv, TypeOK, DeadLetter
    <3>2. /\ row[rec.batch].state # "none"
          /\ Present(rec.batch) => rec.events \cap row[rec.batch].payload = {}
      BY <2>1 DEF Owned, WrittenOff
    <3>3. CASE rec.batch # y
      BY <1>4, <3>1, <3>2, <3>3 DEF Present
    <3>4. CASE rec.batch = y
      <4>1. claim[x][y].retry \subseteq row[y].payload
        BY <1>0 DEF OutboxInv, OnlyEnqueued, Owned, HolderOwns
      <4>2. QED
        BY <1>0, <1>4, <3>2, <3>4, <4>1
    <3>5. QED
      BY <3>3, <3>4
  <2>2. CASE rec \notin dlq
    <3>1. \/ rec \in DeadLetterRows(y, claim[x][y].dead, "rejected")
          \/ Exhausted(x, y) /\ rec \in DeadLetterRows(y, claim[x][y].retry, "max_attempts")
      BY <2>2 DEF Settle
    <3>2. rec.batch = y /\ (rec.events = claim[x][y].dead \/ Exhausted(x, y))
      BY <3>1 DEF DeadLetterRows
    <3>3. claim[x][y].retry \cap claim[x][y].dead = {}
      BY <1>0 DEF Owned, HolderOwns
    <3>4. QED
      BY <1>4, <3>2, <3>3
  <2>3. QED
    BY <2>1, <2>2
<1>7. WrittenOff'
  BY <1>6 DEF WrittenOff, Present
<1>8. QED
  BY <1>1, <1>5, <1>7, FewerClaims DEF Owned

LEMMA NextLease == OutboxInv /\ LeaseInv /\ [Next]_vars => LeaseInv'
<1> SUFFICES ASSUME OutboxInv, LeaseInv, [Next]_vars, ~overran'
             PROVE  Owned'
  BY DEF LeaseInv
<1>0. ~overran
  BY DEF Next, vars, Enqueue, BecomesDue, Claim, Deliver, Settle, Crash,
         PurgeDeadLetters
<1>1. Owned
  BY <1>0 DEF LeaseInv
<1>2. ASSUME NEW d \in Dispatcher, Crash(d)
      PROVE  Owned'
  <2>1. UNCHANGED <<row, dlq>>
    BY <1>2 DEF Crash
  <2>2. \A e \in Dispatcher, b \in Batch :
          claim'[e][b] = claim[e][b] \/ claim'[e][b] = NoClaim
    BY <1>2 DEF Crash, OutboxInv, TypeOK
  <2>3. HolderOwns'
    BY <1>1, <2>1, <2>2, FewerClaims DEF Owned, HolderOwns
  <2>4. WrittenOff'
    BY <1>1, <2>1 DEF Owned, WrittenOff, Present
  <2>5. QED
    BY <1>1, <2>2, <2>3, <2>4, FewerClaims DEF Owned
<1>3. CASE PurgeDeadLetters
  BY <1>1, <1>3 DEF PurgeDeadLetters, Owned, HolderOwns, OneHolder, WrittenOff,
                    Holds, Present
<1>4. CASE UNCHANGED vars
  BY <1>1, <1>4 DEF vars, Owned, HolderOwns, OneHolder, WrittenOff, Holds, Present
<1>5. QED
  BY <1>1, <1>2, <1>3, <1>4, EnqueueOwned, BecomesDueOwned, ClaimOwned,
     DeliverOwned, SettleOwned DEF Next

LEMMA LeaseInvariant == Spec => []LeaseInv
<1>1. Init => LeaseInv
  BY DEF Init, LeaseInv, Owned, HolderOwns, OneHolder, WrittenOff, Holds, NoClaim
<1>2. QED
  BY <1>1, NextLease, OutboxInvariant, PTL DEF Spec

\* Until a delivery outlasts its lease, at most one dispatcher holds a batch,
\* for any number of them and of crashes (store.claim).
THEOREM OneHolderAtATime == Spec => []SingleHolder
<1>1. LeaseInv => SingleHolder
  BY DEF LeaseInv, Owned, OneHolder, SingleHolder
<1>2. QED
  BY <1>1, LeaseInvariant, PTL

\* Until then, an event on a dead letter is not pending in its batch again
\* (_settle, store.reschedule).
THEOREM DeadLettersFinal == Spec => []DeadLetterIsFinal
<1>1. LeaseInv => DeadLetterIsFinal
  BY DEF LeaseInv, Owned, WrittenOff, DeadLetterIsFinal
<1>2. QED
  BY <1>1, LeaseInvariant, PTL

LEMMA StepShrinks ==
  ASSUME OutboxInv, Owned, [Next]_vars, NEW b \in Batch, Present(b), Present(b)'
  PROVE  row'[b].payload \subseteq row[b].payload
<1>1. ASSUME NEW x \in Batch, NEW events \in SUBSET Event, Enqueue(x, events)
      PROVE  row'[b].payload \subseteq row[b].payload
  BY <1>1 DEF Enqueue, OutboxInv, TypeOK, Present
<1>2. ASSUME NEW x \in Batch, BecomesDue(x)
      PROVE  row'[b].payload \subseteq row[b].payload
  BY <1>2 DEF BecomesDue, OutboxInv, TypeOK, Row
<1>3. ASSUME NEW d \in Dispatcher, Claim(d)
      PROVE  row'[b].payload \subseteq row[b].payload
  <2>1. PICK S \in SUBSET Due :
           row' = [c \in Batch |->
              IF c \in S THEN [row[c] EXCEPT !.state = "held",
                                             !.attempts = NextAttempt(c)]
                         ELSE row[c]]
    BY <1>3 DEF Claim
  <2>2. QED
    BY <2>1 DEF OutboxInv, TypeOK, Row
<1>4. ASSUME NEW d \in Dispatcher, NEW x \in Batch, Settle(d, x)
      PROVE  row'[b].payload \subseteq row[b].payload
  <2>1. claim[d][x].retry \subseteq row[x].payload
    BY <1>4 DEF Settle, InFlight, Holds, OutboxInv, OnlyEnqueued, Owned, HolderOwns
  <2>2. ASSUME Reschedule(x, claim[d][x].retry)
        PROVE  row'[b].payload \subseteq row[b].payload
    BY <2>1, <2>2 DEF Reschedule, OutboxInv, TypeOK, Row
  <2>3. ASSUME Complete(x)
        PROVE  row'[b].payload \subseteq row[b].payload
    BY <2>3 DEF Complete, OutboxInv, TypeOK, GoneRow
  <2>4. QED
    BY <1>4, <2>2, <2>3 DEF Settle
<1>5. ASSUME row' = row
      PROVE  row'[b].payload \subseteq row[b].payload
  BY <1>5
<1>6. QED
  BY <1>1, <1>2, <1>3, <1>4, <1>5 DEF Next, Deliver, Crash, PurgeDeadLetters, vars

\* Until then, a rewritten row owes no event it did not owe before
\* (store.reschedule).
THEOREM RowsShrink == Spec => PayloadOnlyShrinks
<1>1. OutboxInv /\ LeaseInv /\ [Next]_vars =>
        [~overran => \A b \in Batch : Present(b) /\ Present(b)' =>
           row'[b].payload \subseteq row[b].payload]_vars
  BY StepShrinks DEF LeaseInv
<1>2. QED
  BY <1>1, OutboxInvariant, LeaseInvariant, PTL DEF Spec, PayloadOnlyShrinks

-----------------------------------------------------------------------------
(* The dispatchers implement DeliveryContract.                             *)

Obligations == {b \in Batch : Present(b)}

\* Every step that is not an Enqueue resolves events of accepted batches and
\* closes only batches all of whose events are resolved.
LEMMA ResolvesStep ==
  ASSUME OutboxInv, OutboxInv', [Next]_vars, enqueued' = enqueued,
         Handled' \subseteq Handled \cup UNION {enqueued[b] : b \in Batch},
         Obligations' \subseteq Obligations
  PROVE  Contract!Next \/ UNCHANGED Contract!contract
<1> DEFINE events == Handled' \ Handled
           closed == Obligations \ Obligations'
<1>1. /\ events \in SUBSET Event /\ closed \in SUBSET Batch
      /\ events \subseteq UNION {enqueued[b] : b \in Batch}
      /\ Handled' = Handled \cup events
      /\ Obligations' = Obligations \ closed
      /\ closed \subseteq Obligations
  <2>1. Handled \subseteq Handled'
    BY HandledGrows DEF OutboxInv
  <2>2. Handled' \subseteq Event
    BY DEF OutboxInv, TypeOK, Handled, EventsOf
  <2>3. QED
    BY <2>1, <2>2 DEF Obligations
<1>2. \A b \in closed : enqueued[b] \subseteq Handled'
  <2>1. \A b \in closed : b \in Batch /\ ~Present(b)'
    BY DEF Obligations
  <2>2. \A b \in Batch : ~Present(b)' => enqueued'[b] \subseteq Handled'
    BY DEF OutboxInv, NoEventLost
  <2>3. QED
    BY <2>1, <2>2
<1> HIDE DEF events, closed
<1>3. Contract!Resolve(events, closed)
  BY <1>1, <1>2 DEF Contract!Resolve, Obligations
<1>4. QED
  BY <1>1, <1>3 DEF Contract!Next

LEMMA ContractStep ==
  OutboxInv /\ OutboxInv' /\ [Next]_vars
    => Contract!Next \/ UNCHANGED Contract!contract
<1> SUFFICES ASSUME OutboxInv, OutboxInv', [Next]_vars
             PROVE  Contract!Next \/ UNCHANGED Contract!contract
  OBVIOUS
<1>1. ASSUME NEW b \in Batch, NEW events \in SUBSET Event, Enqueue(b, events)
      PROVE  Contract!Accept(b, events)
  <2>1. enqueued[b] = {} /\ b \notin Obligations
    BY <1>1 DEF Enqueue, OutboxInv, OnlyEnqueued, Obligations, Present
  <2>2. Obligations' = Obligations \cup {b}
    BY <1>1 DEF Enqueue, OutboxInv, TypeOK, Obligations, Present
  <2>3. Handled' = Handled
    BY <1>1, OthersHandle DEF Enqueue
  <2>4. QED
    BY <1>1, <2>1, <2>2, <2>3 DEF Enqueue, Contract!Accept, Obligations
<1>2. ASSUME enqueued' = enqueued, Handled' = Handled, Obligations' \subseteq Obligations
      PROVE  Contract!Next \/ UNCHANGED Contract!contract
  BY <1>2, ResolvesStep
<1>3. ASSUME NEW b \in Batch, BecomesDue(b)
      PROVE  Contract!Next \/ UNCHANGED Contract!contract
  <2>1. enqueued' = enqueued /\ Handled' = Handled
    BY <1>3, OthersHandle DEF BecomesDue
  <2>2. Obligations' \subseteq Obligations
    BY <1>3 DEF BecomesDue, OutboxInv, TypeOK, Row, Obligations, Present
  <2>3. QED
    BY <1>2, <2>1, <2>2
<1>4. ASSUME NEW d \in Dispatcher, Claim(d)
      PROVE  Contract!Next \/ UNCHANGED Contract!contract
  <2>1. enqueued' = enqueued /\ Handled' = Handled
    BY <1>4, OthersHandle DEF Claim
  <2>2. PICK S \in SUBSET Due :
           row' = [b \in Batch |->
              IF b \in S THEN [row[b] EXCEPT !.state = "held",
                                             !.attempts = NextAttempt(b)]
                         ELSE row[b]]
    BY <1>4 DEF Claim
  <2>3. Obligations' \subseteq Obligations
    BY <2>2 DEF OutboxInv, TypeOK, Row, Obligations, Present, Due
  <2>4. QED
    BY <1>2, <2>1, <2>3
<1>5. ASSUME NEW d \in Dispatcher, NEW b \in Batch, Deliver(d, b)
      PROVE  Contract!Next \/ UNCHANGED Contract!contract
  <2>1. enqueued' = enqueued /\ row' = row
    BY <1>5 DEF Deliver
  <2>2. Handled' \subseteq Handled \cup claim[d][b].events
    BY <1>5 DEF Deliver, Handled, EventsOf, Applied
  <2>3. claim[d][b].events \subseteq enqueued[b]
    BY DEF OutboxInv, OnlyEnqueued
  <2>4. Handled' \subseteq Handled \cup UNION {enqueued[c] : c \in Batch}
    BY <2>2, <2>3
  <2>5. Obligations' \subseteq Obligations
    BY <2>1 DEF Obligations, Present
  <2>6. QED
    BY <2>1, <2>4, <2>5, ResolvesStep
<1>6. ASSUME NEW d \in Dispatcher, NEW b \in Batch, Settle(d, b)
      PROVE  Contract!Next \/ UNCHANGED Contract!contract
  <2>1. enqueued' = enqueued
    BY <1>6 DEF Settle
  <2>2. Handled' \subseteq Handled \cup claim[d][b].dead \cup claim[d][b].retry
    BY <1>6, SettleHandles DEF OutboxInv
  <2>3. claim[d][b].dead \cup claim[d][b].retry \subseteq enqueued[b]
    BY DEF OutboxInv, OnlyEnqueued
  <2>4. Handled' \subseteq Handled \cup UNION {enqueued[c] : c \in Batch}
    BY <2>2, <2>3
  <2>5. Obligations' \subseteq Obligations
    <3>1. ASSUME Reschedule(b, claim[d][b].retry)
          PROVE  Obligations' \subseteq Obligations
      BY <3>1 DEF Reschedule, OutboxInv, TypeOK, Row, Obligations, Present
    <3>2. ASSUME Complete(b)
          PROVE  Obligations' \subseteq Obligations
      BY <3>2 DEF Complete, GoneRow, OutboxInv, TypeOK, Row, Obligations, Present
    <3>3. QED
      BY <1>6, <3>1, <3>2 DEF Settle
  <2>6. QED
    BY <2>1, <2>4, <2>5, ResolvesStep
<1>7. ASSUME UNCHANGED <<row, enqueued>>, Handled' = Handled
      PROVE  Contract!Next \/ UNCHANGED Contract!contract
  BY <1>2, <1>7 DEF Obligations, Present
<1>8. ASSUME NEW d \in Dispatcher, Crash(d)
      PROVE  Contract!Next \/ UNCHANGED Contract!contract
  BY <1>7, <1>8, OthersHandle DEF Crash
<1>9. CASE PurgeDeadLetters
  BY <1>7, <1>9, PurgeHandles DEF PurgeDeadLetters
<1>10. CASE UNCHANGED vars
  BY <1>7, <1>10, OthersHandle DEF vars
<1>11. QED
  BY <1>1, <1>3, <1>4, <1>5, <1>6, <1>8, <1>9, <1>10 DEF Next, Contract!Next

\* The outbox keeps its contract: each step of the dispatchers is an Accept,
\* a Resolve or a stutter of DeliveryContract (drain_once, _settle).
THEOREM ContractImplemented == Spec => ImplementsContract
<1>1. Init => Contract!Init
  BY DEF Init, Contract!Init, Present, NoRow, Handled, EventsOf
<1>2. QED
  BY <1>1, OutboxInvariant, ContractStep, PTL
  DEF Spec, ImplementsContract, Contract!Safe

-----------------------------------------------------------------------------
(* The projection reconciler.                                              *)

\* What the proof needs of the type of a pass.
PassShape == [at: {"idle", "counted", "drill", "source", "repair"},
              counted: SUBSET EventId, todo: SUBSET Minutes, source: SUBSET EventId,
              selected: SUBSET EventId, budget: Int, found: SUBSET EventId]

Shaped ==
  /\ netEvents \subseteq EventId
  /\ rows \subseteq EventId \X Part
  /\ pass \in PassShape

\* The events of the history were counted and have no row.
StillAbsent ==
  /\ absent \subseteq netEvents
  /\ pass.at # "idle" => absent \subseteq pass.counted
  /\ \A e \in absent : RowsOf(e) = {}

\* Each of them was found already, or its minute is still to be drilled.
Drilled ==
  pass.at \in {"drill", "source", "repair"} =>
    \A e \in absent : MinuteOf[e] \in masked \cup pass.todo \/ e \in pass.found

\* Those of the minute being drilled are among the ids read.
Sourced ==
  pass.at = "source" => \A e \in absent : IsFirst(MinuteOf[e]) => e \in pass.source

ReconcileInv == Shaped /\ StillAbsent /\ Drilled /\ Sourced

LEMMA InitReconcile == ReconcileInit => ReconcileInv
BY DEF ReconcileInit, ReconcileInv, Shaped, PassShape, StillAbsent, Drilled, Sourced, NoPass, RowsOf

\* A minute without extra rows that lacks a counted event is short.
LEMMA ShortMinute ==
  ASSUME ReconcileInv, pass.at = "counted", NEW e \in absent,
         \A r \in RowsIn(MinuteOf[e]) : ~Extra(r)
  PROVE  MinuteOf[e] \in Diverging
<1> DEFINE m == MinuteOf[e]
           S == RowsIn(m)
           C == InMinute(pass.counted, m)
           T == C \ {e}
           f == [r \in S |-> r[1]]
<1>1. e \in EventId /\ e \in C /\ m \in Minutes
  BY DEF ReconcileInv, Shaped, StillAbsent, InMinute, Minutes
<1>2. IsFiniteSet(C)
  <2>1. C \subseteq EventId
    BY DEF ReconcileInv, Shaped, PassShape, InMinute
  <2>2. QED
    BY <2>1, FS_Subset, ReconcilerAssumption DEF ReconcilerAssumption
<1>3. f \in Injection(S, T)
  <2>1. ASSUME NEW r \in S
        PROVE  r[1] \in T /\ RowsOf(r[1]) = {r}
    BY DEF RowsIn, Extra, InMinute, ReconcileInv, StillAbsent, RowsOf
  <2>2. ASSUME NEW r \in S, NEW q \in S, r[1] = q[1]
        PROVE  r = q
    BY <2>1, <2>2
  <2>3. QED
    BY <2>1, <2>2 DEF Injection, IsInjective
<1>4. IsFiniteSet(T) /\ Cardinality(T) = Cardinality(C) - 1
  BY <1>1, <1>2, FS_RemoveElement
<1>5. Cardinality(C) \in Nat
  BY <1>2, FS_CardinalityType
<1>6. IsFiniteSet(S) /\ Cardinality(S) =< Cardinality(T)
  BY <1>3, <1>4, FS_Injection
<1>7. Cardinality(S) \in Nat
  BY <1>6, FS_CardinalityType
<1>8. Cardinality(S) < Cardinality(C)
  BY <1>4, <1>5, <1>6, <1>7
<1>9. QED
  BY <1>1, <1>8 DEF Diverging, RowCount

\* Steps that leave the pass alone, store no less and give no absent event a row.
LEMMA Beside ==
  ASSUME ReconcileInv, UNCHANGED <<pass, masked>>,
         netEvents \subseteq netEvents', netEvents' \subseteq EventId,
         rows' \subseteq EventId \X Part,
         absent' \subseteq absent,
         \A e \in absent' : RowsOf(e)' = {}
  PROVE  ReconcileInv'
BY DEF ReconcileInv, Shaped, StillAbsent, Drilled, Sourced, IsFirst

LEMMA NextReconcile == ReconcileInv /\ [ReconcileNext]_reconcileVars => ReconcileInv'
<1> SUFFICES ASSUME ReconcileInv, [ReconcileNext]_reconcileVars
             PROVE  ReconcileInv'
  OBVIOUS
<1>1. ASSUME NEW e \in EventId, Ingested(e) PROVE ReconcileInv'
  <2>1. \A d \in absent' : RowsOf(d)' = {}
    BY <1>1 DEF Ingested, ReconcileInv, StillAbsent, RowsOf
  <2>2. QED
    BY <1>1, <2>1, Beside DEF Ingested, ReconcileInv, Shaped
<1>2. ASSUME NEW e \in EventId, Delivered(e) PROVE ReconcileInv'
  <2>1. PICK p \in Part : rows' = rows \cup {<<e, p>>}
    BY <1>2 DEF Delivered
  <2>2. \A d \in absent' : RowsOf(d)' = {}
    BY <1>2, <2>1 DEF Delivered, ReconcileInv, StillAbsent, RowsOf
  <2>3. QED
    BY <1>2, <2>1, <2>2, Beside DEF Delivered, ReconcileInv, Shaped
<1>3. ASSUME NEW e \in EventId, DeadLettered(e) PROVE ReconcileInv'
  <2>1. \A d \in absent' : RowsOf(d)' = {}
    BY <1>3 DEF DeadLettered, ReconcileInv, StillAbsent, RowsOf
  <2>2. QED
    BY <1>3, <2>1, Beside DEF DeadLettered, ReconcileInv, Shaped
<1>4. ASSUME NEW e \in EventId, Merged(e) \/ RowsLost(e) PROVE ReconcileInv'
  <2>1. rows' \subseteq rows
    BY <1>4 DEF Merged, RowsLost, RowsOf
  <2>2. UNCHANGED <<netEvents, pass, absent, masked>>
    BY <1>4 DEF Merged, RowsLost
  <2>3. \A d \in absent' : RowsOf(d)' = {}
    BY <2>1, <2>2 DEF ReconcileInv, StillAbsent, RowsOf
  <2>4. QED
    BY <2>1, <2>2, <2>3, Beside DEF ReconcileInv, Shaped
<1>5. CASE CountExpected
  <2> DEFINE C == {e \in netEvents : InWindow(MinuteOf[e])}
  <2>0. C \subseteq netEvents /\ C \in SUBSET EventId
    BY DEF ReconcileInv, Shaped
  <2>1. /\ pass' = [NoPass EXCEPT !.at = "counted", !.counted = C]
        /\ absent' = C \ Projected
        /\ UNCHANGED <<netEvents, rows>>
    BY <1>5 DEF CountExpected
  <2> HIDE DEF C
  <2>2. pass' \in PassShape /\ pass'.at = "counted" /\ pass'.counted = C
    <3>1. NoPass \in PassShape
      BY DEF NoPass, PassShape
    <3>2. QED
      BY <2>0, <2>1, <3>1 DEF PassShape
  <2>3. Shaped'
    BY <2>1, <2>2 DEF ReconcileInv, Shaped
  <2>4. StillAbsent'
    BY <2>0, <2>1, <2>2 DEF ReconcileInv, Shaped, StillAbsent, Projected, RowsOf
  <2>5. QED
    BY <2>2, <2>3, <2>4 DEF ReconcileInv, Drilled, Sourced
<1>6. CASE CountPresent
  <2>1. /\ pass' = [pass EXCEPT !.at = "drill", !.todo = Diverging, !.budget = RepairBudget]
        /\ masked' = {m \in Minutes : \E r \in RowsIn(m) : Extra(r)}
        /\ UNCHANGED <<netEvents, rows, absent>>
        /\ pass.at = "counted"
    BY <1>6 DEF CountPresent
  <2>2. Shaped'
    <3>1. RepairBudget \in Int /\ Diverging \in SUBSET Minutes
      BY ReconcilerAssumption DEF ReconcilerAssumption, Diverging
    <3>2. pass' \in PassShape
      BY <2>1, <3>1 DEF ReconcileInv, Shaped, PassShape
    <3>3. QED
      BY <2>1, <3>2 DEF ReconcileInv, Shaped
  <2>3. StillAbsent'
    BY <2>1 DEF ReconcileInv, Shaped, PassShape, StillAbsent, RowsOf
  <2>4. ASSUME NEW e \in absent, MinuteOf[e] \notin masked'
        PROVE  MinuteOf[e] \in Diverging
    <3>1. MinuteOf[e] \in Minutes
      BY DEF ReconcileInv, Shaped, StillAbsent, Minutes
    <3>2. QED
      BY <2>1, <2>4, <3>1, ShortMinute
  <2>5. pass'.todo = Diverging /\ pass'.at = "drill"
    BY <2>1 DEF ReconcileInv, Shaped, PassShape
  <2>6. Drilled' /\ Sourced'
    BY <2>1, <2>4, <2>5 DEF Drilled, Sourced
  <2>7. QED
    BY <2>2, <2>3, <2>6 DEF ReconcileInv
<1>7. CASE ReadSource
  <2>1. PICK m \in pass.todo :
          /\ IsFirst(m)
          /\ pass' = [pass EXCEPT !.at = "source", !.source = InMinute(netEvents, m)]
    BY <1>7 DEF ReadSource
  <2>2. UNCHANGED <<netEvents, rows, absent, masked>> /\ pass.at = "drill"
    BY <1>7 DEF ReadSource
  <2>3. Shaped'
    BY <2>1, <2>2 DEF ReconcileInv, Shaped, PassShape, InMinute
  <2>4. /\ pass'.at = "source" /\ pass'.source = InMinute(netEvents, m)
        /\ UNCHANGED <<pass.counted, pass.todo, pass.found>>
    BY <2>1 DEF ReconcileInv, Shaped, PassShape
  <2>5. StillAbsent' /\ Drilled'
    BY <2>2, <2>4 DEF ReconcileInv, StillAbsent, Drilled, RowsOf
  <2>6. ASSUME NEW e \in absent, IsFirst(MinuteOf[e])
        PROVE  e \in InMinute(netEvents, m)
    <3>1. m \in Nat /\ MinuteOf[e] \in Nat
      BY <2>1, ReconcilerAssumption
      DEF ReconcileInv, Shaped, PassShape, Minutes, StillAbsent, ReconcilerAssumption
    <3>2. m = MinuteOf[e]
      BY <2>1, <2>6, <3>1 DEF IsFirst
    <3>3. QED
      BY <3>2 DEF InMinute, ReconcileInv, StillAbsent
  <2>7. Sourced'
    BY <2>2, <2>4, <2>6 DEF Sourced, IsFirst
  <2>8. QED
    BY <2>3, <2>5, <2>7 DEF ReconcileInv
<1>8. CASE ReadProjection
  <2>1. /\ pass.at = "source"
        /\ pass' = [pass EXCEPT !.at = IF Selected = {} THEN "drill" ELSE "repair",
                                !.todo = {m \in @ : ~IsFirst(m)},
                                !.source = {},
                                !.selected = Selected,
                                !.found = @ \cup Missing]
        /\ UNCHANGED <<netEvents, rows, absent, masked>>
    BY <1>8 DEF ReadProjection
  <2>2. /\ pass'.at \in {"drill", "repair"}
        /\ pass'.todo = {m \in pass.todo : ~IsFirst(m)}
        /\ pass'.found = pass.found \cup Missing
        /\ pass'.counted = pass.counted
    BY <2>1 DEF ReconcileInv, Shaped, PassShape
  <2>3. Shaped'
    BY <2>1 DEF ReconcileInv, Shaped, PassShape, Missing, Selected
  <2>4. StillAbsent' /\ Sourced'
    BY <2>1, <2>2 DEF ReconcileInv, StillAbsent, Sourced, RowsOf
  <2>5. ASSUME NEW e \in absent, IsFirst(MinuteOf[e])
        PROVE  e \in Missing
    BY <2>1, <2>5 DEF ReconcileInv, Sourced, StillAbsent, Missing, Projected
  <2>6. Drilled'
    BY <2>1, <2>2, <2>5 DEF ReconcileInv, Drilled
  <2>7. QED
    BY <2>3, <2>4, <2>6 DEF ReconcileInv
<1>9. CASE EnqueueRepair
  <2>1. /\ pass.at = "repair"
        /\ pass' = [pass EXCEPT !.at = "drill", !.selected = {},
                                !.budget = @ - Cardinality(pass.selected)]
        /\ UNCHANGED <<netEvents, rows, absent, masked>>
    BY <1>9 DEF EnqueueRepair
  <2>2. Cardinality(pass.selected) \in Nat
    <3>1. IsFiniteSet(pass.selected)
      BY FS_Subset, ReconcilerAssumption
      DEF ReconcileInv, Shaped, PassShape, ReconcilerAssumption
    <3>2. QED
      BY <3>1, FS_CardinalityType
  <2>3. Shaped'
    <3>1. pass.budget - Cardinality(pass.selected) \in Int
      BY <2>2 DEF ReconcileInv, Shaped, PassShape
    <3>2. pass' \in PassShape
      BY <2>1, <3>1 DEF ReconcileInv, Shaped, PassShape
    <3>3. QED
      BY <2>1, <3>2 DEF ReconcileInv, Shaped
  <2>4. pass'.at = "drill" /\ UNCHANGED <<pass.counted, pass.todo, pass.found>>
    BY <2>1 DEF ReconcileInv, Shaped, PassShape
  <2>5. QED
    BY <2>1, <2>3, <2>4 DEF ReconcileInv, StillAbsent, Drilled, Sourced, RowsOf
<1>10. CASE PublishPass \/ PassFails
  BY <1>10 DEF PublishPass, PassFails, PassEnds, ReconcileInv, Shaped, PassShape, StillAbsent,
               Drilled, Sourced, NoPass
<1>11. CASE MinutePasses \/ UNCHANGED reconcileVars
  BY <1>11 DEF MinutePasses, reconcileVars, ReconcileInv, Shaped, StillAbsent, Drilled, Sourced, RowsOf, IsFirst
<1>12. QED
  BY <1>1, <1>2, <1>3, <1>4, <1>5, <1>6, <1>7, <1>8, <1>9, <1>10, <1>11
  DEF ReconcileNext, PassStep

\* A pass that ends has reported every event of its window that was stored before
\* it began and that the projection lacked throughout, except in minutes with extra rows
\* (reconcile_sink, _diverging_minutes).
THEOREM MissingAreReported == ReconcileSpec => []MissingReported
<1>1. ReconcileInv => MissingReported
  BY DEF ReconcileInv, Drilled, MissingReported, Finished
<1>2. QED
  BY <1>1, InitReconcile, NextReconcile, PTL DEF ReconcileSpec

-----------------------------------------------------------------------------
(* The types of both components, and the budget of a pass.                 *)

\* A pass never selects more than is left of its budget: without this the
\* budget would not stay a number of events.
WithinBudget ==
  pass.at = "repair" => Cardinality(pass.selected) =< pass.budget

ReconcileTyped == ReconcileTypeOK /\ WithinBudget

\* missing[:budget]
LEMMA SelectedWithinBudget ==
  ASSUME ReconcileTypeOK
  PROVE  Selected \in SUBSET EventId /\ Cardinality(Selected) =< pass.budget
<1>1. Missing \in SUBSET EventId /\ pass.budget \in Nat
  BY ReconcilerAssumption DEF ReconcilerAssumption, ReconcileTypeOK, Pass, Missing
<1>2. Missing \in SUBSET Nat /\ IsFiniteSet(Missing)
  BY <1>1, FS_Subset, ReconcilerAssumption DEF ReconcilerAssumption
<1>3. Cardinality(Selected) =< pass.budget
  BY <1>1, <1>2, FirstFew DEF Selected
<1>4. QED
  BY <1>1, <1>3 DEF Selected

LEMMA NoPassType == NoPass \in Pass
BY ReconcilerAssumption DEF ReconcilerAssumption, NoPass, Pass

LEMMA OneMoreType == \A n \in 0 .. MaxPending : OneMore(n) \in 0 .. MaxPending
BY ReconcilerAssumption DEF ReconcilerAssumption, OneMore

\* What happens beside a pass, and how a pass ends.
LEMMA AroundTyped ==
  ASSUME ReconcileTyped,
         \/ \E e \in EventId : \/ Ingested(e) \/ Delivered(e) \/ DeadLettered(e)
                               \/ Merged(e) \/ RowsLost(e)
         \/ MinutePasses \/ PublishPass \/ PassFails
  PROVE  ReconcileTyped'
<1>1. ASSUME NEW e \in EventId, Ingested(e) PROVE ReconcileTyped'
  <2>1. waiting' \in [EventId -> 0 .. MaxPending]
    BY <1>1, OneMoreType DEF Ingested, ReconcileTyped, ReconcileTypeOK
  <2>2. QED
    BY <1>1, <2>1 DEF Ingested, ReconcileTyped, ReconcileTypeOK, WithinBudget
<1>2. ASSUME NEW e \in EventId, waiting[e] > 0
      PROVE  [waiting EXCEPT ![e] = @ - 1] \in [EventId -> 0 .. MaxPending]
  BY <1>2, ReconcilerAssumption DEF ReconcilerAssumption, ReconcileTyped, ReconcileTypeOK
<1>3. WithFault => reconcileFaults' \in 0 .. ReconcileFaults
  BY ReconcilerAssumption
  DEF ReconcilerAssumption, WithFault, ReconcileTyped, ReconcileTypeOK
<1>4. ASSUME NEW e \in EventId, Delivered(e) PROVE ReconcileTyped'
  <2>1. PICK p \in Part : rows' = rows \cup {<<e, p>>}
    BY <1>4 DEF Delivered
  <2>2. waiting' \in [EventId -> 0 .. MaxPending]
    BY <1>2, <1>4 DEF Delivered
  <2>3. QED
    BY <1>4, <2>1, <2>2 DEF Delivered, ReconcileTyped, ReconcileTypeOK, WithinBudget
<1>5. ASSUME NEW e \in EventId, DeadLettered(e) PROVE ReconcileTyped'
  <2>1. waiting' \in [EventId -> 0 .. MaxPending]
    BY <1>2, <1>5 DEF DeadLettered
  <2>2. reconcileFaults' \in 0 .. ReconcileFaults
    BY <1>3, <1>5 DEF DeadLettered, ReconcileTyped, ReconcileTypeOK
  <2>3. QED
    BY <1>5, <2>1, <2>2 DEF DeadLettered, ReconcileTyped, ReconcileTypeOK, WithinBudget
<1>6. ASSUME NEW e \in EventId, Merged(e) \/ RowsLost(e) PROVE ReconcileTyped'
  <2>1. rows' \subseteq rows
    BY <1>6 DEF Merged, RowsLost, RowsOf
  <2>2. reconcileFaults' \in 0 .. ReconcileFaults
    BY <1>3, <1>6 DEF Merged, RowsLost, ReconcileTyped, ReconcileTypeOK
  <2>3. UNCHANGED <<netEvents, waiting, horizon, pass, absent, masked>>
    BY <1>6 DEF Merged, RowsLost
  <2>4. QED
    BY <2>1, <2>2, <2>3 DEF ReconcileTyped, ReconcileTypeOK, WithinBudget
<1>7. ASSUME PublishPass \/ PassFails PROVE ReconcileTyped'
  <2>1. reconcileFaults' \in 0 .. ReconcileFaults
    BY <1>3, <1>7 DEF PublishPass, PassFails, ReconcileTyped, ReconcileTypeOK
  <2>2. pass' = NoPass /\ absent' = {} /\ masked' = {} /\ UNCHANGED <<netEvents, waiting, rows, horizon>>
    BY <1>7 DEF PublishPass, PassFails, PassEnds
  <2>3. pass'.at = "idle"
    BY <2>2 DEF NoPass
  <2>4. QED
    BY <2>1, <2>2, <2>3, NoPassType DEF ReconcileTyped, ReconcileTypeOK, WithinBudget
<1>8. ASSUME MinutePasses PROVE ReconcileTyped'
  <2>1. horizon' \in 0 .. MaxHorizon
    BY <1>8, ReconcilerAssumption
    DEF ReconcilerAssumption, MinutePasses, ReconcileTyped, ReconcileTypeOK
  <2>2. QED
    BY <1>8, <2>1 DEF MinutePasses, ReconcileTyped, ReconcileTypeOK, WithinBudget
<1>9. QED
  BY <1>1, <1>4, <1>5, <1>6, <1>7, <1>8

\* A pass changes itself, and what waits when it repairs.
LEMMA PassTyped ==
  ASSUME ReconcileTyped, PassStep, ~PublishPass
  PROVE  ReconcileTyped'
<1> USE DEF ReconcileTyped
<1>1. CASE CountExpected
  <2> DEFINE C == {e \in netEvents : InWindow(MinuteOf[e])}
  <2>1. C \in SUBSET EventId
    BY DEF ReconcileTypeOK
  <2>2. /\ pass' = [NoPass EXCEPT !.at = "counted", !.counted = C]
        /\ absent' = C \ Projected
        /\ UNCHANGED <<netEvents, waiting, rows, horizon, masked, reconcileFaults>>
    BY <1>1 DEF CountExpected
  <2> HIDE DEF C
  <2>3. pass' \in Pass /\ pass'.at = "counted"
    BY <2>1, <2>2, NoPassType DEF NoPass, Pass
  <2>4. absent' \subseteq EventId
    BY <2>1, <2>2
  <2>5. QED
    BY <2>2, <2>3, <2>4 DEF ReconcileTypeOK, WithinBudget
<1>2. CASE CountPresent
  <2>1. Diverging \in SUBSET Minutes /\ RepairBudget \in 0 .. RepairBudget
    BY ReconcilerAssumption DEF ReconcilerAssumption, Diverging
  <2>2. pass' \in Pass /\ pass'.at = "drill"
    BY <1>2, <2>1 DEF CountPresent, ReconcileTypeOK, Pass
  <2>3. masked' \subseteq Minutes
    BY <1>2 DEF CountPresent
  <2>4. QED
    BY <1>2, <2>2, <2>3 DEF CountPresent, ReconcileTypeOK, WithinBudget
<1>3. CASE ReadSource
  <2>1. PICK m \in pass.todo :
          pass' = [pass EXCEPT !.at = "source", !.source = InMinute(netEvents, m)]
    BY <1>3 DEF ReadSource
  <2>2. InMinute(netEvents, m) \in SUBSET EventId
    BY DEF InMinute, ReconcileTypeOK
  <2>3. pass' \in Pass /\ pass'.at = "source"
    BY <2>1, <2>2 DEF ReconcileTypeOK, Pass
  <2>4. QED
    BY <1>3, <2>3 DEF ReadSource, ReconcileTypeOK, WithinBudget
<1>4. CASE ReadProjection
  <2>1. Missing \in SUBSET EventId /\ {m \in pass.todo : ~IsFirst(m)} \in SUBSET Minutes
    BY DEF ReconcileTypeOK, Pass, Missing
  <2>2. Selected \in SUBSET EventId /\ Cardinality(Selected) =< pass.budget
    BY SelectedWithinBudget
  <2>3. /\ pass' \in Pass
        /\ pass'.selected = Selected /\ pass'.budget = pass.budget
    BY <1>4, <2>1, <2>2 DEF ReadProjection, ReconcileTypeOK, Pass
  <2>4. QED
    BY <1>4, <2>2, <2>3 DEF ReadProjection, ReconcileTypeOK, WithinBudget
<1>5. CASE EnqueueRepair
  <2>1. pass.selected \in SUBSET EventId /\ pass.budget \in 0 .. RepairBudget
    BY DEF ReconcileTypeOK, Pass
  <2>2. Cardinality(pass.selected) \in Nat
    BY <2>1, FS_Subset, FS_CardinalityType, ReconcilerAssumption DEF ReconcilerAssumption
  <2>3. Cardinality(pass.selected) =< pass.budget
    BY <1>5 DEF EnqueueRepair, WithinBudget
  <2>4. pass.budget - Cardinality(pass.selected) \in 0 .. RepairBudget
    BY <2>1, <2>2, <2>3, ReconcilerAssumption DEF ReconcilerAssumption
  <2>5. pass' \in Pass /\ pass'.at = "drill"
    BY <1>5, <2>4 DEF EnqueueRepair, ReconcileTypeOK, Pass
  <2>6. waiting' \in [EventId -> 0 .. MaxPending]
    BY <1>5, OneMoreType DEF EnqueueRepair, ReconcileTypeOK
  <2>7. QED
    BY <1>5, <2>5, <2>6 DEF EnqueueRepair, ReconcileTypeOK, WithinBudget
<1>6. QED
  BY <1>1, <1>2, <1>3, <1>4, <1>5 DEF PassStep

LEMMA NextReconcileTyped ==
  ReconcileTyped /\ [ReconcileNext]_reconcileVars => ReconcileTyped'
<1>1. ASSUME ReconcileTyped, UNCHANGED reconcileVars PROVE ReconcileTyped'
  BY <1>1 DEF reconcileVars, ReconcileTyped, ReconcileTypeOK, WithinBudget
<1>2. QED
  BY <1>1, AroundTyped, PassTyped DEF ReconcileNext

\* The repairs of a pass never exceed repair_max_events (reconciler.py:259):
\* what it selects fits in what is left of its budget.
THEOREM RepairsBudgeted == ReconcileSpec => [](ReconcileTypeOK /\ WithinBudget)
<1>1. ReconcileInit => ReconcileTyped
  BY NoPassType, ReconcilerAssumption
  DEF ReconcilerAssumption, ReconcileInit, ReconcileTyped, ReconcileTypeOK, WithinBudget, NoPass
<1>2. ReconcileTyped => ReconcileTypeOK /\ WithinBudget
  BY DEF ReconcileTyped
<1>3. QED
  BY <1>1, <1>2, NextReconcileTyped, PTL DEF ReconcileSpec

\* A step of the composition is a step of one component; the other rests.
LEMMA StepOfPart ==
  [MCNext]_allVars => [Next]_vars /\ [ReconcileNext]_reconcileVars
<1>1. CASE InOutbox(Next)
  BY <1>1 DEF InOutbox
<1>2. CASE InReconciler(ReconcileNext)
  BY <1>2 DEF InReconciler
<1>3. CASE UNCHANGED allVars
  BY <1>3 DEF allVars
<1>4. QED
  BY <1>1, <1>2, <1>3 DEF MCNext

\* Each component sees a behaviour of its own specification, so what is proved
\* of one holds in the composition.
THEOREM PartsRun == MCSpec => Spec /\ ReconcileSpec
<1>1. MCInit => Init /\ ReconcileInit
  BY DEF MCInit
<1>2. [MCNext]_allVars => [Next]_vars /\ [ReconcileNext]_reconcileVars
  BY StepOfPart
<1>3. QED
  BY <1>1, <1>2, PTL DEF MCSpec, Spec, ReconcileSpec

\* The variables of the outbox and of the reconciler keep their types, whatever
\* the dispatchers and the passes do.
THEOREM SinksTyped == MCSpec => []SinksTypeOK
<1>1. TypeOK /\ (ReconcileTypeOK /\ WithinBudget) => SinksTypeOK
  BY DEF SinksTypeOK
<1>2. QED
  BY <1>1, PartsRun, TypeCorrect, RepairsBudgeted, PTL
=============================================================================
