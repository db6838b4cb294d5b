--------------------------- MODULE FeatureProofs ---------------------------
(***************************************************************************)
(* Proofs about the three components of the features run, for any number   *)
(* of processes and any bounds.                                            *)
(*   - StreamIndexer: nothing leaves the stream without a cause, and a     *)
(*     dead letter for max_retries was earned.                             *)
(*   - ResponseActions: the types, what a result keeps, and the bound on   *)
(*     the shell commands that wait.                                       *)
(*   - SingleFlight: a value is computed once at a time, however often the *)
(*     lock expires and Redis fails.                                       *)
(*   - All three: the types of their variables.                            *)
(***************************************************************************)
EXTENDS MCFeatures, FiniteSetTheorems, TLAPS

-----------------------------------------------------------------------------
(* The indexers of the event stream.                                       *)

Typed ==
  /\ published \in 0 .. StreamLength
  /\ group \in BOOLEAN
  /\ delivered \in 0 .. published
  /\ pending \in [Entry -> Indexer \cup {Nobody}]
  /\ attempts \in [Entry -> 0 .. IndexRetries]
  /\ tries \in [Entry -> 0 .. IndexRetries]
  /\ indexer \in [Indexer -> Consumer]

WrittenOff(e) == (\E reason \in Reason : <<e, reason>> \in parked) \/ e \in dropped

\* What an indexer is about to acknowledge, or to dead-letter as refused for good,
\* has its cause already.
AcksHaveCause ==
  \A w \in Indexer :
    /\ \A e \in indexer[w].ok : docOf[e] \in indexed
    /\ \A e \in indexer[w].dead : WrittenOff(e)
    /\ \A e \in indexer[w].refused : Permanent(docOf[e])

\* Transient answers whose attempt is still to be counted.
Owed(e) == {w \in Indexer : /\ indexer[w].pc = "settle"
                            /\ e \in indexer[w].batch \ (indexer[w].ok \cup indexer[w].refused)}

\* No attempt is counted that was not made.
AttemptsCovered ==
  \A e \in Entry :
    \/ e \in miscounted
    \/ tries[e] = IndexRetries
    \/ attempts[e] + Cardinality(Owed(e)) <= tries[e]

-----------------------------------------------------------------------------
\* The shapes an indexer's state takes.
LEMMA PageOf ==
  ASSUME NEW S \in SUBSET Entry
  PROVE  Page(S) \in SUBSET Entry
BY DEF Page

LEMMA StartingShape == Starting \in Consumer
BY DEF Starting, Consumer, Loop

LEMMA ProcessShape ==
  ASSUME NEW p \in Consumer, NEW page \in SUBSET Entry, NEW next \in Loop
  PROVE  /\ Process(p, page, next) \in Consumer
         /\ Process(p, page, next).ok = {} /\ Process(p, page, next).dead = {}
         /\ Process(p, page, next).refused = {}
         /\ Process(p, page, next).pc \in {"sift", "bulk"}
BY DEF Process, Starting, Consumer, Loop

LEMMA ReturnShape ==
  ASSUME NEW p \in Consumer
  PROVE  /\ Return(p) \in Consumer
         /\ Return(p).ok = {} /\ Return(p).dead = {} /\ Return(p).refused = {}
         /\ Return(p).pc \in Loop
BY DEF Return, Starting, Consumer, Loop

\* A step of an indexer leaves the other indexers alone.
LEMMA BecomeShape ==
  ASSUME Typed, NEW w \in Indexer, NEW p \in Consumer, Become(w, p)
  PROVE  /\ indexer' \in [Indexer -> Consumer]
         /\ indexer'[w] = p
         /\ \A v \in Indexer \ {w} : indexer'[v] = indexer[v]
BY DEF Typed, Become

\* What a step of indexer w does to the state of w, and the rest of Typed.
LEMMA NextTyped == Typed /\ [StreamNext]_streamVars => Typed'
<1> SUFFICES ASSUME Typed, [StreamNext]_streamVars PROVE Typed'
  OBVIOUS
<1> USE StreamAssumption DEF StreamAssumption
<1>1. CASE Publish
  BY <1>1 DEF Typed, Publish
<1>2. ASSUME NEW w \in Indexer, Replay(w) PROVE Typed'
  <2>1. indexer[w] \in Consumer /\ Page({e \in Own(w) : e > indexer[w].cursor}) \in SUBSET Entry
    BY PageOf DEF Typed, Own
  <2>2. ASSUME NEW last \in Last(Page({e \in Own(w) : e > indexer[w].cursor}))
        PROVE  [Process(indexer[w], Page({e \in Own(w) : e > indexer[w].cursor}), "replay")
                  EXCEPT !.cursor = last] \in Consumer
    <3>1. last \in Entry
      BY <2>1 DEF Last
    <3>2. QED
      BY <2>1, <3>1, ProcessShape DEF Consumer, Loop
  <2>3. [indexer[w] EXCEPT !.pc = "loop", !.cursor = 0] \in Consumer
    BY <2>1 DEF Consumer, Loop
  <2>4. indexer' \in [Indexer -> Consumer]
    BY <1>2, <2>2, <2>3, BecomeShape DEF Replay
  <2>5. QED
    BY <1>2, <2>4 DEF Typed, Replay
<1>3. ASSUME NEW w \in Indexer, Reclaim(w) PROVE Typed'
  <2>1. PICK page \in SUBSET Entry :
          /\ pending' = [e \in Entry |-> IF e \in page THEN w ELSE pending[e]]
          /\ Become(w, Process(indexer[w], page, "loop"))
    BY <1>3 DEF Reclaim
  <2>2. indexer' \in [Indexer -> Consumer]
    BY <2>1, ProcessShape, BecomeShape DEF Typed, Loop
  <2>3. QED
    BY <1>3, <2>1, <2>2 DEF Typed, Reclaim
<1>4. ASSUME NEW w \in Indexer, Drain(w) PROVE Typed'
  <2>1. indexer[w] \in Consumer /\ Page(Own(w)) \in SUBSET Entry
    BY PageOf DEF Typed, Own
  <2>2. [indexer[w] EXCEPT !.pc = "read"] \in Consumer
    BY <2>1 DEF Consumer, Loop
  <2>3. indexer' \in [Indexer -> Consumer]
    BY <1>4, <2>1, <2>2, ProcessShape, BecomeShape DEF Drain, Loop
  <2>4. QED
    BY <1>4, <2>3 DEF Typed, Drain
<1>5. ASSUME NEW w \in Indexer, ReadNew(w) PROVE Typed'
  <2>1. delivered' \in 0 .. published /\ (delivered + 1) .. ReadUpTo \in SUBSET Entry
    BY <1>5 DEF ReadNew, ReadUpTo, Typed, Entry
  <2>2. [indexer[w] EXCEPT !.pc = "loop"] \in Consumer
    BY DEF Typed, Consumer, Loop
  <2>3. indexer' \in [Indexer -> Consumer]
    BY <1>5, <2>1, <2>2, ProcessShape, BecomeShape DEF ReadNew, Typed, Loop
  <2>4. QED
    BY <1>5, <2>1, <2>3 DEF Typed, ReadNew
<1>6. ASSUME NEW w \in Indexer, ReadFails(w) PROVE Typed'
  <2>1. [indexer[w] EXCEPT !.pc = IF indexer[w].pc = "replay" THEN "replay" ELSE "loop",
                           !.cursor = 0] \in Consumer
    BY DEF Typed, Consumer, Loop
  <2>2. indexer' \in [Indexer -> Consumer]
    BY <1>6, <2>1, BecomeShape DEF ReadFails
  <2>3. QED
    BY <1>6, <2>2 DEF Typed, ReadFails
<1>7. ASSUME NEW w \in Indexer, Sift(w) PROVE Typed'
  <2>1. ASSUME NEW bad PROVE [indexer[w] EXCEPT !.pc = "bulk", !.batch = @ \ bad] \in Consumer
    BY DEF Typed, Consumer, Loop
  <2>2. indexer' \in [Indexer -> Consumer]
    BY <1>7, <2>1, ReturnShape, BecomeShape DEF Sift, Typed
  <2>3. pending' \in [Entry -> Indexer \cup {Nobody}]
    BY <1>7 DEF Sift, Typed
  <2>4. QED
    BY <1>7, <2>2, <2>3 DEF Typed, Sift
<1>8. ASSUME NEW w \in Indexer, BulkAnswered(w) PROVE Typed'
  <2>1. ASSUME NEW kept \in SUBSET Entry, NEW ok \in SUBSET kept, NEW refused \in SUBSET kept
        PROVE  [indexer[w] EXCEPT !.pc = "settle", !.batch = kept, !.ok = ok,
                                  !.refused = refused] \in Consumer
    BY DEF Typed, Consumer, Loop
  <2>2. ByDocId(indexer[w].batch) \in SUBSET Entry
    BY DEF ByDocId, Typed, Consumer
  <2>3. indexer' \in [Indexer -> Consumer]
    BY <1>8, <2>1, <2>2, BecomeShape DEF BulkAnswered
  <2>4. tries' \in [Entry -> 0 .. IndexRetries]
    BY <1>8 DEF BulkAnswered, Typed
  <2>5. QED
    BY <1>8, <2>3, <2>4 DEF Typed, BulkAnswered
<1>9. ASSUME NEW w \in Indexer, BulkUnreachable(w) PROVE Typed'
  <2>1. [indexer[w] EXCEPT !.left = TRUE] \in Consumer
    BY DEF Typed, Consumer
  <2>2. indexer' \in [Indexer -> Consumer]
    BY <1>9, <2>1, ReturnShape, BecomeShape DEF BulkUnreachable
  <2>3. QED
    BY <1>9, <2>2 DEF Typed, BulkUnreachable
<1>10. ASSUME NEW e \in Entry, NEW failing
       PROVE  Attempt(e, failing) \in 0 .. IndexRetries
  BY DEF Attempt, Typed
<1>11. ASSUME NEW w \in Indexer, NEW e \in Entry, SettleIndexed(w, e) PROVE Typed'
  <2>1. [indexer[w] EXCEPT !.batch = @ \ {e}] \in Consumer
    BY DEF Typed, Consumer
  <2>2. indexer' \in [Indexer -> Consumer] /\ attempts' \in [Entry -> 0 .. IndexRetries]
    BY <1>11, <2>1, BecomeShape DEF SettleIndexed, Typed
  <2>3. QED
    BY <1>11, <2>2 DEF Typed, SettleIndexed
<1>12. ASSUME NEW w \in Indexer, NEW e \in Entry, SettleRefused(w, e) PROVE Typed'
  <2>1. [indexer[w] EXCEPT !.batch = @ \ {e}, !.refused = @ \ {e}, !.dead = @ \cup {e}]
          \in Consumer
    BY DEF Typed, Consumer
  <2>2. indexer' \in [Indexer -> Consumer] /\ attempts' \in [Entry -> 0 .. IndexRetries]
    BY <1>12, <2>1, BecomeShape DEF SettleRefused, DeadLetterAs, Typed
  <2>3. QED
    BY <1>12, <2>2 DEF Typed, SettleRefused
<1>13. ASSUME NEW w \in Indexer, NEW e \in Entry, GiveUp(w, e) PROVE Typed'
  <2>1. [indexer[w] EXCEPT !.batch = @ \ {e}, !.dead = @ \cup {e}] \in Consumer
    BY DEF Typed, Consumer
  <2>2. indexer' \in [Indexer -> Consumer] /\ attempts' \in [Entry -> 0 .. IndexRetries]
    BY <1>10, <1>13, <2>1, BecomeShape DEF GiveUp, DeadLetterAs, Typed
  <2>3. QED
    BY <1>13, <2>2 DEF Typed, GiveUp
<1>14. ASSUME NEW w \in Indexer, NEW e \in Entry, LeaveForRetry(w, e) PROVE Typed'
  <2>1. [indexer[w] EXCEPT !.batch = @ \ {e}, !.left = TRUE] \in Consumer
    BY DEF Typed, Consumer
  <2>2. indexer' \in [Indexer -> Consumer] /\ attempts' \in [Entry -> 0 .. IndexRetries]
    BY <1>10, <1>14, <2>1, BecomeShape DEF LeaveForRetry, Typed
  <2>3. QED
    BY <1>14, <2>2 DEF Typed, LeaveForRetry
<1>15. ASSUME NEW w \in Indexer, Ack(w) PROVE Typed'
  <2>1. indexer' \in [Indexer -> Consumer] /\ pending' \in [Entry -> Indexer \cup {Nobody}]
    BY <1>15, ReturnShape, BecomeShape DEF Ack, Typed
  <2>2. QED
    BY <1>15, <2>1 DEF Typed, Ack
<1>16. ASSUME NEW w \in Indexer, StreamCrash(w) \/ Restart(w) PROVE Typed'
  <2>1. [Starting EXCEPT !.pc = "down"] \in Consumer
    BY DEF Starting, Consumer, Loop
  <2>2. indexer' \in [Indexer -> Consumer]
    BY <1>16, <2>1, StartingShape, BecomeShape DEF StreamCrash, Restart
  <2>3. QED
    BY <1>16, <2>2 DEF Typed, StreamCrash, Restart
<1>17. ASSUME NEW w \in Indexer, EnsureGroup(w) PROVE Typed'
  <2>1. [Starting EXCEPT !.pc = "replay"] \in Consumer
    BY DEF Starting, Consumer, Loop
  <2>2. indexer' \in [Indexer -> Consumer]
    BY <1>17, <2>1, BecomeShape DEF EnsureGroup, Typed
  <2>3. delivered' \in 0 .. published
    BY <1>17 DEF EnsureGroup, Typed
  <2>4. QED
    BY <1>17, <2>2, <2>3 DEF Typed, EnsureGroup
<1>18. CASE StreamLost
  <2>1. pending' \in [Entry -> Indexer \cup {Nobody}] /\ attempts' \in [Entry -> 0 .. IndexRetries]
    BY <1>18 DEF StreamLost
  <2>2. delivered' = published /\ published' = published
    BY <1>18 DEF StreamLost
  <2>3. delivered' \in 0 .. published' /\ published' \in 0 .. StreamLength
    BY <2>2 DEF Typed
  <2>4. group' \in BOOLEAN
    BY <1>18 DEF StreamLost
  <2>5. UNCHANGED <<tries, indexer>>
    BY <1>18 DEF StreamLost
  <2>6. QED
    BY <2>1, <2>3, <2>4, <2>5 DEF Typed
<1>19. CASE UNCHANGED streamVars
  BY <1>19 DEF Typed, streamVars
<1>20. QED
  BY <1>1, <1>2, <1>3, <1>4, <1>5, <1>6, <1>7, <1>8, <1>9, <1>11, <1>12, <1>13, <1>14,
     <1>15, <1>16, <1>17, <1>18, <1>19 DEF StreamNext, Work
-----------------------------------------------------------------------------
\* What is indexed, written off or skipped stays so.
LEMMA CausesStay ==
  ASSUME [StreamNext]_streamVars
  PROVE  /\ docOf' = docOf
         /\ indexed \subseteq indexed'
         /\ parked \subseteq parked' /\ dropped \subseteq dropped'
         /\ skipped \subseteq skipped'
<1> DEFINE Stay == /\ docOf' = docOf
                   /\ indexed \subseteq indexed'
                   /\ parked \subseteq parked' /\ dropped \subseteq dropped'
                   /\ skipped \subseteq skipped'
<1>1. CASE Publish \/ StreamLost
  BY <1>1 DEF Publish, StreamLost
<1>2. ASSUME NEW w \in Indexer, EnsureGroup(w) \/ Replay(w) \/ Drain(w) \/ ReadFails(w)
      PROVE  Stay
  BY <1>2 DEF EnsureGroup, Replay, Drain, ReadFails
<1>3. ASSUME NEW w \in Indexer, Reclaim(w) \/ ReadNew(w) PROVE Stay
  BY <1>3 DEF Reclaim, ReadNew
<1>4. ASSUME NEW w \in Indexer, Sift(w) PROVE Stay
  BY <1>4 DEF Sift
<1>5. ASSUME NEW w \in Indexer, BulkAnswered(w) \/ BulkUnreachable(w) PROVE Stay
  BY <1>5 DEF BulkAnswered, BulkUnreachable
<1>6. ASSUME NEW w \in Indexer, NEW e \in Entry, SettleIndexed(w, e) \/ LeaveForRetry(w, e)
      PROVE  Stay
  BY <1>6 DEF SettleIndexed, LeaveForRetry
<1>7. ASSUME NEW w \in Indexer, NEW e \in Entry, SettleRefused(w, e) \/ GiveUp(w, e)
      PROVE  Stay
  BY <1>7 DEF SettleRefused, GiveUp, DeadLetterAs
<1>8. ASSUME NEW w \in Indexer, Ack(w) \/ StreamCrash(w) \/ Restart(w) PROVE Stay
  BY <1>8 DEF Ack, StreamCrash, Restart
<1>9. CASE UNCHANGED streamVars
  BY <1>9 DEF streamVars
<1>10. QED
  BY <1>1, <1>2, <1>3, <1>4, <1>5, <1>6, <1>7, <1>8, <1>9 DEF StreamNext, Work

\* The state an indexer takes may be acknowledged if the one it had could.
LEMMA AcksStay ==
  ASSUME Typed, AcksHaveCause, [StreamNext]_streamVars, NEW w \in Indexer,
         NEW p \in Consumer, Become(w, p),
         \A e \in p.ok : docOf[e] \in indexed',
         \A e \in p.dead : e \in indexer[w].dead \/ WrittenOff(e)',
         \A e \in p.refused : e \in indexer[w].refused \/ Permanent(docOf[e])
  PROVE  AcksHaveCause'
<1>1. ASSUME NEW e, WrittenOff(e) PROVE WrittenOff(e)'
  BY <1>1, CausesStay DEF WrittenOff
<1>2. indexer'[w] = p /\ \A v \in Indexer \ {w} : indexer'[v] = indexer[v]
  BY BecomeShape
<1>3. ASSUME NEW v \in Indexer, NEW e \in indexer'[v].ok PROVE docOf'[e] \in indexed'
  BY <1>2, <1>3, CausesStay DEF AcksHaveCause
<1>4. ASSUME NEW v \in Indexer, NEW e \in indexer'[v].dead PROVE WrittenOff(e)'
  BY <1>1, <1>2, <1>4 DEF AcksHaveCause
<1>5. ASSUME NEW v \in Indexer, NEW e \in indexer'[v].refused PROVE Permanent(docOf'[e])
  BY <1>2, <1>5, CausesStay DEF AcksHaveCause
<1>6. QED
  BY <1>3, <1>4, <1>5 DEF AcksHaveCause, Permanent

LEMMA NextAcksHaveCause ==
  Typed /\ AcksHaveCause /\ [StreamNext]_streamVars => AcksHaveCause'
<1> SUFFICES ASSUME Typed, AcksHaveCause, [StreamNext]_streamVars PROVE AcksHaveCause'
  OBVIOUS
<1>1. ASSUME indexer' = indexer PROVE AcksHaveCause'
  <2>1. ASSUME NEW e, WrittenOff(e) PROVE WrittenOff(e)'
    BY <2>1, CausesStay DEF WrittenOff
  <2>2. QED
    BY <1>1, <2>1, CausesStay DEF AcksHaveCause
<1>2. ASSUME NEW w \in Indexer, NEW p \in Consumer, Become(w, p),
             p.ok \subseteq indexer[w].ok, p.dead \subseteq indexer[w].dead,
             p.refused \subseteq indexer[w].refused
      PROVE  AcksHaveCause'
  BY <1>2, AcksStay, CausesStay DEF AcksHaveCause
<1>3. ASSUME NEW w \in Indexer, NEW page \in SUBSET Entry, NEW next \in Loop,
             Become(w, Process(indexer[w], page, next))
      PROVE  AcksHaveCause'
  BY <1>2, <1>3, ProcessShape DEF Typed
<1>4. ASSUME NEW w \in Indexer, Replay(w) PROVE AcksHaveCause'
  <2> DEFINE page == Page({e \in Own(w) : e > indexer[w].cursor})
  <2>1. indexer[w] \in Consumer /\ page \in SUBSET Entry
    BY PageOf DEF Typed, Own
  <2>2. ASSUME NEW last \in Last(page),
               Become(w, [Process(indexer[w], page, "replay") EXCEPT !.cursor = last])
        PROVE  AcksHaveCause'
    <3>1. last \in Entry
      BY <2>1 DEF Last
    <3>2. /\ [Process(indexer[w], page, "replay") EXCEPT !.cursor = last] \in Consumer
          /\ [Process(indexer[w], page, "replay") EXCEPT !.cursor = last].ok = {}
          /\ [Process(indexer[w], page, "replay") EXCEPT !.cursor = last].dead = {}
          /\ [Process(indexer[w], page, "replay") EXCEPT !.cursor = last].refused = {}
      BY <2>1, <3>1, ProcessShape DEF Consumer, Loop
    <3>3. QED
      BY <1>2, <2>2, <3>2
  <2>3. ASSUME Become(w, [indexer[w] EXCEPT !.pc = "loop", !.cursor = 0])
        PROVE  AcksHaveCause'
    <3>1. /\ [indexer[w] EXCEPT !.pc = "loop", !.cursor = 0] \in Consumer
          /\ [indexer[w] EXCEPT !.pc = "loop", !.cursor = 0].ok = indexer[w].ok
          /\ [indexer[w] EXCEPT !.pc = "loop", !.cursor = 0].dead = indexer[w].dead
          /\ [indexer[w] EXCEPT !.pc = "loop", !.cursor = 0].refused = indexer[w].refused
      BY <2>1 DEF Consumer, Loop
    <3>2. QED
      BY <1>2, <2>3, <3>1
  <2>4. QED
    BY <1>4, <2>2, <2>3 DEF Replay
<1>5. ASSUME NEW w \in Indexer, Reclaim(w) PROVE AcksHaveCause'
  BY <1>3, <1>5 DEF Reclaim, Loop
<1>6. ASSUME NEW w \in Indexer, NEW pc \in Loop, Become(w, [indexer[w] EXCEPT !.pc = pc])
      PROVE  AcksHaveCause'
  <2>1. /\ [indexer[w] EXCEPT !.pc = pc] \in Consumer
        /\ [indexer[w] EXCEPT !.pc = pc].ok = indexer[w].ok
        /\ [indexer[w] EXCEPT !.pc = pc].dead = indexer[w].dead
        /\ [indexer[w] EXCEPT !.pc = pc].refused = indexer[w].refused
    BY DEF Typed, Consumer, Loop
  <2>2. QED
    BY <1>2, <1>6, <2>1
<1>7. ASSUME NEW w \in Indexer, Drain(w) PROVE AcksHaveCause'
  <2>1. Page(Own(w)) \in SUBSET Entry
    BY PageOf DEF Own
  <2>2. QED
    BY <1>3, <1>6, <1>7, <2>1 DEF Drain, Loop
<1>8. ASSUME NEW w \in Indexer, ReadNew(w) PROVE AcksHaveCause'
  <2>1. (delivered + 1) .. ReadUpTo \in SUBSET Entry
    BY StreamAssumption DEF StreamAssumption, ReadUpTo, Typed, Entry
  <2>2. QED
    BY <1>3, <1>6, <1>8, <2>1 DEF ReadNew, Loop
<1>9. ASSUME NEW w \in Indexer, ReadFails(w) PROVE AcksHaveCause'
  <2> DEFINE p == [indexer[w] EXCEPT
                     !.pc = IF indexer[w].pc = "replay" THEN "replay" ELSE "loop",
                     !.cursor = 0]
  <2>1. /\ p \in Consumer /\ p.ok = indexer[w].ok /\ p.dead = indexer[w].dead
        /\ p.refused = indexer[w].refused
    BY DEF Typed, Consumer, Loop
  <2>2. Become(w, p)
    BY <1>9 DEF ReadFails
  <2> HIDE DEF p
  <2>3. QED
    BY <1>2, <2>1, <2>2
<1>10. ASSUME NEW w \in Indexer, NEW q \in Consumer, Become(w, Return(q))
       PROVE  AcksHaveCause'
  BY <1>2, <1>10, ReturnShape
<1>11. ASSUME NEW w \in Indexer, Sift(w) PROVE AcksHaveCause'
  <2> DEFINE bad == {e \in indexer[w].batch : docOf[e] = NoId}
             p == [indexer[w] EXCEPT !.pc = "bulk", !.batch = @ \ bad]
  <2>1. /\ p \in Consumer /\ p.ok = indexer[w].ok /\ p.dead = indexer[w].dead
        /\ p.refused = indexer[w].refused
    BY DEF Typed, Consumer, Loop
  <2>2. Become(w, p) \/ Become(w, Return(indexer[w]))
    BY <1>11 DEF Sift
  <2>3. indexer[w] \in Consumer
    BY DEF Typed
  <2> HIDE DEF p
  <2>4. QED
    BY <1>2, <1>10, <2>1, <2>2, <2>3
<1>12. ASSUME NEW w \in Indexer, BulkAnswered(w) PROVE AcksHaveCause'
  <2>1. PICK ok, refused \in SUBSET ByDocId(indexer[w].batch) :
          /\ \A e \in refused : Permanent(docOf[e])
          /\ Documents(ok) \subseteq indexed'
          /\ Become(w, [indexer[w] EXCEPT !.pc = "settle",
                                          !.batch = ByDocId(indexer[w].batch),
                                          !.ok = ok, !.refused = refused])
    BY <1>12 DEF BulkAnswered
  <2> DEFINE p == [indexer[w] EXCEPT !.pc = "settle", !.batch = ByDocId(indexer[w].batch),
                                     !.ok = ok, !.refused = refused]
  <2>2. ByDocId(indexer[w].batch) \in SUBSET Entry
    BY DEF ByDocId, Typed, Consumer
  <2>3. p \in Consumer /\ p.ok = ok /\ p.dead = indexer[w].dead /\ p.refused = refused
    BY <2>1, <2>2 DEF Typed, Consumer
  <2>4. \A e \in ok : docOf[e] \in indexed'
    BY <2>1 DEF Documents
  <2>5. Become(w, p)
    BY <2>1
  <2> HIDE DEF p
  <2>6. QED
    BY <2>1, <2>3, <2>4, <2>5, AcksStay
<1>13. ASSUME NEW w \in Indexer, BulkUnreachable(w) PROVE AcksHaveCause'
  <2>1. [indexer[w] EXCEPT !.left = TRUE] \in Consumer
    BY DEF Typed, Consumer
  <2>2. QED
    BY <1>10, <1>13, <2>1 DEF BulkUnreachable
<1>14. ASSUME NEW w \in Indexer, NEW e \in Entry, SettleIndexed(w, e) PROVE AcksHaveCause'
  <2>1. /\ [indexer[w] EXCEPT !.batch = @ \ {e}] \in Consumer
        /\ [indexer[w] EXCEPT !.batch = @ \ {e}].ok = indexer[w].ok
        /\ [indexer[w] EXCEPT !.batch = @ \ {e}].dead = indexer[w].dead
        /\ [indexer[w] EXCEPT !.batch = @ \ {e}].refused = indexer[w].refused
    BY DEF Typed, Consumer
  <2>2. QED
    BY <1>2, <1>14, <2>1 DEF SettleIndexed
<1>15. ASSUME NEW w \in Indexer, NEW e \in Entry, LeaveForRetry(w, e) PROVE AcksHaveCause'
  <2> DEFINE p == [indexer[w] EXCEPT !.batch = @ \ {e}, !.left = TRUE]
  <2>1. /\ p \in Consumer /\ p.ok = indexer[w].ok /\ p.dead = indexer[w].dead
        /\ p.refused = indexer[w].refused
    BY DEF Typed, Consumer
  <2>2. Become(w, p)
    BY <1>15 DEF LeaveForRetry
  <2> HIDE DEF p
  <2>3. QED
    BY <1>2, <2>1, <2>2
<1>16. ASSUME NEW w \in Indexer, NEW e \in Entry, SettleRefused(w, e) PROVE AcksHaveCause'
  <2> DEFINE p == [indexer[w] EXCEPT !.batch = @ \ {e}, !.refused = @ \ {e},
                                     !.dead = @ \cup {e}]
  <2>1. /\ p \in Consumer /\ p.ok = indexer[w].ok /\ p.dead = indexer[w].dead \cup {e}
        /\ p.refused \subseteq indexer[w].refused
    BY DEF Typed, Consumer
  <2>2. Become(w, p) /\ WrittenOff(e)'
    BY <1>16 DEF SettleRefused, DeadLetterAs, WrittenOff, Reason
  <2>3. \A x \in p.ok : docOf[x] \in indexed'
    BY <2>1, CausesStay DEF AcksHaveCause
  <2> HIDE DEF p
  <2>4. QED
    BY <2>1, <2>2, <2>3, AcksStay
<1>17. ASSUME NEW w \in Indexer, NEW e \in Entry, GiveUp(w, e) PROVE AcksHaveCause'
  <2> DEFINE p == [indexer[w] EXCEPT !.batch = @ \ {e}, !.dead = @ \cup {e}]
  <2>1. /\ p \in Consumer /\ p.ok = indexer[w].ok /\ p.dead = indexer[w].dead \cup {e}
        /\ p.refused \subseteq indexer[w].refused
    BY DEF Typed, Consumer
  <2>2. Become(w, p) /\ WrittenOff(e)'
    BY <1>17 DEF GiveUp, DeadLetterAs, WrittenOff, Reason
  <2>3. \A x \in p.ok : docOf[x] \in indexed'
    BY <2>1, CausesStay DEF AcksHaveCause
  <2> HIDE DEF p
  <2>4. QED
    BY <2>1, <2>2, <2>3, AcksStay
<1>18. ASSUME NEW w \in Indexer, Ack(w) PROVE AcksHaveCause'
  <2>1. indexer[w] \in Consumer /\ Become(w, Return(indexer[w]))
    BY <1>18 DEF Typed, Ack
  <2>2. QED
    BY <1>10, <2>1
<1>19. ASSUME NEW w \in Indexer, StreamCrash(w) \/ Restart(w) PROVE AcksHaveCause'
  <2>1. /\ [Starting EXCEPT !.pc = "down"] \in Consumer
        /\ [Starting EXCEPT !.pc = "down"].ok = {} /\ [Starting EXCEPT !.pc = "down"].dead = {}
        /\ [Starting EXCEPT !.pc = "down"].refused = {}
        /\ Starting.ok = {} /\ Starting.dead = {} /\ Starting.refused = {}
    BY DEF Starting, Consumer, Loop
  <2>2. QED
    BY <1>2, <1>19, <2>1, StartingShape DEF StreamCrash, Restart
<1>20. ASSUME NEW w \in Indexer, EnsureGroup(w) PROVE AcksHaveCause'
  <2> DEFINE p == [Starting EXCEPT !.pc = "replay"]
  <2>1. p \in Consumer /\ p.ok = {} /\ p.dead = {} /\ p.refused = {}
    BY DEF Starting, Consumer, Loop
  <2>2. Become(w, p) \/ indexer' = indexer
    BY <1>20 DEF EnsureGroup
  <2> HIDE DEF p
  <2>3. QED
    BY <1>1, <1>2, <2>1, <2>2
<1>21. CASE Publish \/ StreamLost \/ UNCHANGED streamVars
  BY <1>1, <1>21 DEF Publish, StreamLost, streamVars
<1>22. QED
  BY <1>4, <1>5, <1>7, <1>8, <1>9, <1>11, <1>12, <1>13, <1>14, <1>15, <1>16, <1>17,
     <1>18, <1>19, <1>20, <1>21 DEF StreamNext, Work

LEMMA NextSettled ==
  Typed /\ AcksHaveCause /\ SettledWithCause /\ [StreamNext]_streamVars => SettledWithCause'
<1> SUFFICES ASSUME Typed, AcksHaveCause, SettledWithCause, [StreamNext]_streamVars
             PROVE  SettledWithCause'
  OBVIOUS
<1> DEFINE Cause(e) == docOf[e] \in indexed \/ WrittenOff(e) \/ e \in skipped
<1>1. ASSUME NEW e, Cause(e)
      PROVE  docOf'[e] \in indexed' \/ WrittenOff(e)' \/ e \in skipped'
  BY <1>1, CausesStay DEF WrittenOff
<1>2. ASSUME \A e \in 1 .. delivered' :
               pending'[e] = Nobody =>
                 \/ e \in 1 .. delivered /\ pending[e] = Nobody
                 \/ Cause(e) \/ WrittenOff(e)' \/ e \in skipped'
      PROVE  SettledWithCause'
  <2>1. \A e \in 1 .. delivered : pending[e] = Nobody => Cause(e)
    BY DEF SettledWithCause, WrittenOff
  <2>2. ASSUME NEW e \in 1 .. delivered', pending'[e] = Nobody
        PROVE  docOf'[e] \in indexed' \/ WrittenOff(e)' \/ e \in skipped'
    BY <1>1, <1>2, <2>1, <2>2
  <2>3. QED
    BY <2>2 DEF SettledWithCause, WrittenOff
<1> HIDE DEF Cause
<1>3. ASSUME delivered' = delivered, pending' = pending PROVE SettledWithCause'
  BY <1>2, <1>3
<1>4. CASE Publish \/ UNCHANGED streamVars
  BY <1>3, <1>4 DEF Publish, streamVars
<1>5. ASSUME NEW w \in Indexer,
             \/ Replay(w) \/ Drain(w) \/ ReadFails(w) \/ BulkAnswered(w)
             \/ BulkUnreachable(w) \/ StreamCrash(w) \/ Restart(w)
      PROVE  SettledWithCause'
  BY <1>3, <1>5 DEF Replay, Drain, ReadFails, BulkAnswered, BulkUnreachable, StreamCrash,
                    Restart
<1>6. ASSUME NEW w \in Indexer, NEW e \in Entry,
             \/ SettleIndexed(w, e) \/ SettleRefused(w, e)
             \/ GiveUp(w, e) \/ LeaveForRetry(w, e)
      PROVE  SettledWithCause'
  BY <1>3, <1>6 DEF SettleIndexed, SettleRefused, GiveUp, LeaveForRetry
<1>7. 1 .. delivered \subseteq Entry /\ Nobody \notin Indexer
  BY StreamAssumption DEF StreamAssumption, Typed, Entry
<1>8. ASSUME NEW w \in Indexer, Reclaim(w) PROVE SettledWithCause'
  <2>1. delivered' = delivered
    BY <1>8 DEF Reclaim
  <2>2. \A e \in Entry : pending'[e] = Nobody => pending[e] = Nobody
    BY <1>7, <1>8 DEF Reclaim
  <2>3. QED
    BY <1>2, <1>7, <2>1, <2>2
<1>9. ASSUME NEW w \in Indexer, ReadNew(w) PROVE SettledWithCause'
  <2>1. delivered' = ReadUpTo /\ ReadUpTo \in delivered .. published
    BY <1>9, StreamAssumption DEF StreamAssumption, ReadNew, ReadUpTo, Typed
  <2>2. \A e \in Entry : pending'[e] = Nobody =>
          pending[e] = Nobody /\ e \notin (delivered + 1) .. ReadUpTo
    BY <1>7, <1>9 DEF ReadNew
  <2>3. 1 .. delivered' \subseteq Entry
    BY <2>1, StreamAssumption DEF StreamAssumption, Typed, Entry
  <2>4. \A e \in 1 .. delivered' : e \notin (delivered + 1) .. ReadUpTo => e \in 1 .. delivered
    BY <2>1 DEF Typed
  <2>5. QED
    BY <1>2, <2>2, <2>3, <2>4
<1>10. ASSUME NEW w \in Indexer, Sift(w) PROVE SettledWithCause'
  <2> DEFINE bad == {e \in indexer[w].batch : docOf[e] = NoId}
  <2>1. delivered' = delivered
    BY <1>10 DEF Sift
  <2>2. \A e \in bad : WrittenOff(e)'
    BY <1>10 DEF Sift, WrittenOff, Reason
  <2>3. \A e \in Entry : pending'[e] = Nobody => pending[e] = Nobody \/ e \in bad
    BY <1>10 DEF Sift
  <2>4. QED
    BY <1>2, <1>7, <2>1, <2>2, <2>3
<1>11. ASSUME NEW w \in Indexer, Ack(w) PROVE SettledWithCause'
  <2>1. delivered' = delivered
    BY <1>11 DEF Ack
  <2>2. \A e \in Acked(indexer[w]) : Cause(e)
    BY DEF Acked, AcksHaveCause, Cause
  <2>3. \A e \in Entry : pending'[e] = Nobody =>
          pending[e] = Nobody \/ e \in Acked(indexer[w])
    BY <1>11 DEF Ack
  <2>4. QED
    BY <1>2, <1>7, <2>1, <2>2, <2>3
<1>12. ASSUME NEW w \in Indexer, EnsureGroup(w) PROVE SettledWithCause'
  <2>1. pending' = pending
    BY <1>12 DEF EnsureGroup
  <2>2. CASE group
    BY <1>3, <1>12, <2>1, <2>2 DEF EnsureGroup
  <2>3. CASE ~group
    <3>1. (delivered + 1) .. delivered' \subseteq skipped'
      BY <1>12, <2>3 DEF EnsureGroup
    <3>2. delivered' \in Nat
      BY <1>12 DEF EnsureGroup, Typed
    <3>3. \A e \in 1 .. delivered' : e \in 1 .. delivered \/ e \in (delivered + 1) .. delivered'
      BY <3>2 DEF Typed
    <3>4. QED
      BY <1>2, <2>1, <3>1, <3>3
  <2>4. QED
    BY <2>2, <2>3
<1>13. CASE StreamLost
  <2>1. delivered' = published
    BY <1>13 DEF StreamLost
  <2>2. \A e \in 1 .. published : pending[e] # Nobody \/ e > delivered => e \in skipped'
    BY <1>13 DEF StreamLost
  <2>3. \A e \in 1 .. published : e > delivered \/ e \in 1 .. delivered
    BY DEF Typed
  <2>4. QED
    BY <1>2, <2>1, <2>2, <2>3
<1>14. QED
  BY <1>4, <1>5, <1>6, <1>8, <1>9, <1>10, <1>11, <1>12, <1>13 DEF StreamNext, Work

LEMMA InitTyped == StreamInit => Typed /\ AcksHaveCause /\ SettledWithCause
<1> SUFFICES ASSUME StreamInit PROVE Typed /\ AcksHaveCause /\ SettledWithCause
  OBVIOUS
<1>1. Typed
  <2>1. group \in BOOLEAN
    BY DEF StreamInit
  <2>2. /\ published \in 0 .. StreamLength /\ delivered \in 0 .. published
        /\ pending \in [Entry -> Indexer \cup {Nobody}]
        /\ attempts \in [Entry -> 0 .. IndexRetries] /\ tries \in [Entry -> 0 .. IndexRetries]
        /\ indexer \in [Indexer -> Consumer]
    BY StartingShape, StreamAssumption DEF StreamAssumption, StreamInit
  <2>3. QED
    BY <2>1, <2>2 DEF Typed
<1>2. AcksHaveCause
  BY DEF StreamInit, AcksHaveCause, Starting
<1>3. SettledWithCause
  BY DEF StreamInit, SettledWithCause
<1>4. QED
  BY <1>1, <1>2, <1>3

\* No entry leaves the stream without its document in Elasticsearch, an entry
\* in the dead letter stream, or a write to it that failed, except those that the
\* group was created behind or that were lost with Redis: for any number of
\* indexers that start at any time, crash, overtake one another, and see any item
\* of a bulk fail.
THEOREM NothingDropped == StreamSpec => []SettledWithCause
BY InitTyped, NextTyped, NextAcksHaveCause, NextSettled, PTL DEF StreamSpec
-----------------------------------------------------------------------------
LEMMA OwedFinite ==
  ASSUME NEW e
  PROVE  IsFiniteSet(Owed(e)) /\ Cardinality(Owed(e)) \in Nat
<1>1. Owed(e) \in SUBSET Indexer
  BY DEF Owed
<1>2. QED
  BY <1>1, StreamAssumption, FS_Subset, FS_CardinalityType DEF StreamAssumption

LEMMA OwedLess ==
  ASSUME NEW e, NEW S \in SUBSET Owed(e)
  PROVE  /\ Cardinality(S) \in Nat /\ Cardinality(S) <= Cardinality(Owed(e))
BY OwedFinite, FS_Subset, FS_CardinalityType

\* p has an attempt at e to count.
Owes(p, e) == p.pc = "settle" /\ e \in p.batch \ (p.ok \cup p.refused)

\* How a step of indexer w changes what is owed for e.
LEMMA OwedStep ==
  ASSUME Typed, NEW w \in Indexer, NEW p \in Consumer, Become(w, p), NEW e \in Entry
  PROVE  Owed(e)' = IF Owes(p, e) THEN Owed(e) \cup {w} ELSE Owed(e) \ {w}
<1>1. indexer'[w] = p /\ \A v \in Indexer \ {w} : indexer'[v] = indexer[v]
  BY BecomeShape
<1>2. QED
  BY <1>1 DEF Owed, Owes

\* A step that counts no attempt and owes none it did not owe.
LEMMA NoneOwed ==
  ASSUME Typed, AttemptsCovered, NEW w \in Indexer, NEW p \in Consumer, Become(w, p),
         \A e \in Entry : Owes(p, e) => Owes(indexer[w], e),
         tries' = tries, miscounted \subseteq miscounted',
         attempts' \in [Entry -> 0 .. IndexRetries],
         \A e \in Entry : attempts'[e] <= attempts[e]
  PROVE  AttemptsCovered'
<1> SUFFICES ASSUME NEW e \in Entry, e \notin miscounted', tries[e] # IndexRetries
             PROVE  attempts'[e] + Cardinality(Owed(e)') <= tries'[e]
  BY DEF AttemptsCovered
<1>1. attempts[e] + Cardinality(Owed(e)) <= tries[e]
  BY DEF AttemptsCovered
<1>2. Owed(e)' \in SUBSET Owed(e)
  BY OwedStep DEF Owed, Owes
<1>3. Cardinality(Owed(e)') \in Nat /\ Cardinality(Owed(e)') <= Cardinality(Owed(e))
  BY <1>2, OwedLess
<1>4. /\ attempts[e] \in Nat /\ attempts'[e] \in Nat /\ tries[e] \in Nat
      /\ Cardinality(Owed(e)) \in Nat
  BY OwedFinite, StreamAssumption DEF Typed, StreamAssumption
<1>5. QED
  BY <1>1, <1>3, <1>4

\* Nothing but the place in the loop changes, or the batch is not settled.
LEMMA ReturnOwes ==
  ASSUME NEW p \in Consumer, NEW e
  PROVE  /\ p.pc # "settle" => ~Owes(p, e)
         /\ ~Owes(Return(p), e)
BY ReturnShape DEF Owes, Loop

\* The attempt at entry e is counted: n attempts by then, e no longer owed.
LEMMA Counting ==
  ASSUME Typed, AttemptsCovered, NEW w \in Indexer, NEW p \in Consumer, Become(w, p),
         NEW e \in Entry, Owes(indexer[w], e), ~Owes(p, e),
         \A x \in Entry \ {e} : Owes(p, x) => Owes(indexer[w], x),
         tries' = tries, miscounted \subseteq miscounted',
         attempts' \in [Entry -> 0 .. IndexRetries],
         \A x \in Entry \ {e} : attempts'[x] = attempts[x],
         e \in miscounted' \/ attempts'[e] <= Attempt(e, {})
  PROVE  AttemptsCovered'
<1> SUFFICES ASSUME NEW x \in Entry, x \notin miscounted', tries[x] # IndexRetries
             PROVE  attempts'[x] + Cardinality(Owed(x)') <= tries'[x]
  BY DEF AttemptsCovered
<1>1. attempts[x] + Cardinality(Owed(x)) <= tries[x]
  BY DEF AttemptsCovered
<1>2. /\ attempts[x] \in 0 .. IndexRetries /\ attempts'[x] \in Nat /\ tries[x] \in 0 .. IndexRetries
      /\ Cardinality(Owed(x)) \in Nat /\ IsFiniteSet(Owed(x)) /\ IndexRetries \in Nat
  BY OwedFinite, StreamAssumption DEF Typed, StreamAssumption
<1>3. CASE x = e
  <2>1. w \in Owed(e) /\ Owed(e)' = Owed(e) \ {w}
    BY OwedStep DEF Owed, Owes
  <2>2. Cardinality(Owed(e)') = Cardinality(Owed(e)) - 1
    BY <1>2, <1>3, <2>1, FS_RemoveElement
  <2>3. attempts'[e] <= attempts[e] + 1
    BY <1>1, <1>2, <1>3 DEF Attempt
  <2>4. QED
    BY <1>1, <1>2, <1>3, <2>2, <2>3
<1>4. CASE x # e
  <2>1. Owed(x)' \in SUBSET Owed(x)
    BY <1>4, OwedStep DEF Owed, Owes
  <2>2. Cardinality(Owed(x)') \in Nat /\ Cardinality(Owed(x)') <= Cardinality(Owed(x))
    BY <2>1, OwedLess
  <2>3. QED
    BY <1>1, <1>2, <1>4, <2>2
<1>5. QED
  BY <1>3, <1>4

LEMMA NextCovered ==
  Typed /\ AttemptsCovered /\ [StreamNext]_streamVars => AttemptsCovered'
<1> SUFFICES ASSUME Typed, AttemptsCovered, [StreamNext]_streamVars PROVE AttemptsCovered'
  OBVIOUS
<1> DEFINE Uncounted == attempts' = attempts /\ tries' = tries /\ miscounted' = miscounted
<1>1. CASE Publish \/ UNCHANGED streamVars
  BY <1>1 DEF Publish, streamVars, AttemptsCovered, Owed
<1>2. ASSUME NEW w \in Indexer, NEW p \in Consumer, Become(w, p), Uncounted,
             p.pc # "settle"
      PROVE  AttemptsCovered'
  <2>1. \A e \in Entry : ~Owes(p, e) /\ attempts[e] \in 0 .. IndexRetries
    BY <1>2 DEF Owes, Typed
  <2>2. \A e \in Entry : attempts'[e] <= attempts[e]
    BY <1>2, <2>1, StreamAssumption DEF StreamAssumption
  <2>3. QED
    BY <1>2, <2>1, <2>2, NoneOwed DEF Typed
<1>3. ASSUME NEW w \in Indexer, \/ Replay(w) \/ Reclaim(w) \/ Drain(w) \/ ReadNew(w)
                                \/ ReadFails(w) \/ Sift(w) \/ BulkUnreachable(w)
                                \/ StreamCrash(w) \/ Restart(w) \/ Ack(w)
      PROVE  indexer' \in [Indexer -> Consumer] /\ Uncounted
  BY <1>3, NextTyped DEF Typed, Replay, Reclaim, Drain, ReadNew, ReadFails, Sift,
     BulkUnreachable, StreamCrash, Restart, Ack
<1>4. ASSUME NEW w \in Indexer, NEW p, Become(w, p) PROVE indexer'[w] = p
  BY <1>4 DEF Become, Typed
<1>5. ASSUME NEW w \in Indexer, \/ Replay(w) \/ Reclaim(w) \/ Drain(w) \/ ReadNew(w)
                                \/ ReadFails(w) \/ Sift(w) \/ BulkUnreachable(w)
                                \/ StreamCrash(w) \/ Restart(w) \/ Ack(w)
      PROVE  AttemptsCovered'
  <2>1. PICK p : Become(w, p)
    BY <1>5 DEF Replay, Reclaim, Drain, ReadNew, ReadFails, Sift, BulkUnreachable,
       StreamCrash, Restart, Ack
  <2>2. p \in Consumer /\ Uncounted
    BY <1>3, <1>4, <1>5, <2>1
  <2>3. indexer'[w] = p
    BY <1>4, <2>1
  <2>4. indexer[w] \in Consumer
    BY DEF Typed
  <2>5. indexer'[w].pc # "settle"
    <3>1. ASSUME NEW q \in Consumer, Become(w, Return(q)) PROVE indexer'[w].pc # "settle"
      BY <1>4, <3>1, ReturnShape DEF Loop
    <3>2. ASSUME NEW page \in SUBSET Entry, NEW next \in Loop,
                 Become(w, Process(indexer[w], page, next))
          PROVE  indexer'[w].pc # "settle"
      BY <1>4, <2>4, <3>2, ProcessShape
    <3>3. ASSUME NEW pc \in Loop \cup {"bulk"}, NEW c, NEW b,
                 \/ Become(w, [indexer[w] EXCEPT !.pc = pc])
                 \/ Become(w, [indexer[w] EXCEPT !.pc = pc, !.cursor = c])
                 \/ Become(w, [indexer[w] EXCEPT !.pc = pc, !.batch = b])
          PROVE  indexer'[w].pc # "settle"
      BY <1>4, <2>4, <3>3 DEF Consumer, Loop
    <3>4. CASE Replay(w)
      <4> DEFINE page == Page({e \in Own(w) : e > indexer[w].cursor})
      <4>1. page \in SUBSET Entry
        BY PageOf DEF Own
      <4>2. ASSUME NEW last, Become(w, [Process(indexer[w], page, "replay")
                                          EXCEPT !.cursor = last])
            PROVE  indexer'[w].pc # "settle"
        BY <1>4, <2>4, <4>1, <4>2, ProcessShape DEF Consumer, Loop
      <4>3. QED
        BY <3>3, <3>4, <4>2 DEF Replay, Loop
    <3>5. CASE Reclaim(w)
      BY <3>2, <3>5 DEF Reclaim, Loop
    <3>6. CASE Drain(w)
      <4>1. Page(Own(w)) \in SUBSET Entry
        BY PageOf DEF Own
      <4>2. QED
        BY <3>2, <3>3, <3>6, <4>1 DEF Drain, Loop
    <3>7. CASE ReadNew(w)
      <4>1. (delivered + 1) .. ReadUpTo \in SUBSET Entry
        BY StreamAssumption DEF StreamAssumption, ReadUpTo, Typed, Entry
      <4>2. QED
        BY <3>2, <3>3, <3>7, <4>1 DEF ReadNew, Loop
    <3>8. CASE ReadFails(w)
      BY <3>3, <3>8 DEF ReadFails, Loop
    <3>9. CASE Sift(w)
      BY <2>4, <3>1, <3>3, <3>9 DEF Sift
    <3>10. CASE BulkUnreachable(w)
      <4>1. [indexer[w] EXCEPT !.left = TRUE] \in Consumer
        BY <2>4 DEF Consumer
      <4>2. QED
        BY <3>1, <3>10, <4>1 DEF BulkUnreachable
    <3>11. CASE StreamCrash(w) \/ Restart(w)
      BY <1>4, <3>11 DEF StreamCrash, Restart, Starting
    <3>12. CASE Ack(w)
      BY <2>4, <3>1, <3>12 DEF Ack
    <3>13. QED
      BY <1>5, <3>4, <3>5, <3>6, <3>7, <3>8, <3>9, <3>10, <3>11, <3>12
  <2>6. QED
    BY <1>2, <2>1, <2>2, <2>3, <2>5
<1>6. ASSUME NEW w \in Indexer, BulkAnswered(w) PROVE AttemptsCovered'
  <2> DEFINE kept == ByDocId(indexer[w].batch)
  <2>1. PICK ok, refused \in SUBSET kept :
          /\ tries' = [e \in Entry |->
               IF e \in kept \ (ok \cup refused) /\ tries[e] < IndexRetries
               THEN tries[e] + 1 ELSE tries[e]]
          /\ Become(w, [indexer[w] EXCEPT !.pc = "settle", !.batch = kept, !.ok = ok,
                                          !.refused = refused])
    BY <1>6 DEF BulkAnswered
  <2> DEFINE p == [indexer[w] EXCEPT !.pc = "settle", !.batch = kept, !.ok = ok,
                                     !.refused = refused]
  <2>2. kept \in SUBSET Entry
    BY DEF ByDocId, Typed, Consumer
  <2>3. p \in Consumer /\ p.batch = kept /\ p.ok = ok /\ p.refused = refused
    BY <2>1, <2>2 DEF Typed, Consumer
  <2>4. Become(w, p)
    BY <2>1
  <2> HIDE DEF p
  <2>5. indexer[w].pc = "bulk" /\ attempts' = attempts /\ miscounted' = miscounted
    BY <1>6 DEF BulkAnswered
  <2> SUFFICES ASSUME NEW e \in Entry, e \notin miscounted, tries'[e] # IndexRetries
               PROVE  attempts[e] + Cardinality(Owed(e)') <= tries'[e]
    BY <2>5 DEF AttemptsCovered
  <2>6. /\ attempts[e] \in Nat /\ tries[e] \in 0 .. IndexRetries /\ IndexRetries \in Nat
        /\ Cardinality(Owed(e)) \in Nat /\ IsFiniteSet(Owed(e))
    BY OwedFinite, StreamAssumption DEF Typed, StreamAssumption
  <2>7. tries[e] # IndexRetries /\ attempts[e] + Cardinality(Owed(e)) <= tries[e]
    BY <2>1, <2>6 DEF AttemptsCovered
  <2>8. w \notin Owed(e)
    BY <2>5 DEF Owed
  <2>9. CASE e \in kept \ (ok \cup refused)
    <3>1. Cardinality(Owed(e)') <= Cardinality(Owed(e)) + 1
      <4>1. Owed(e)' = Owed(e) \cup {w} \/ Owed(e)' = Owed(e) \ {w}
        BY <2>3, <2>4, OwedStep
      <4>2. Owed(e) \ {w} = Owed(e)
        BY <2>8
      <4>3. Cardinality(Owed(e) \cup {w}) = Cardinality(Owed(e)) + 1
        BY <2>6, <2>8, FS_AddElement
      <4>4. QED
        BY <2>6, <4>1, <4>2, <4>3
    <3>2. tries'[e] = tries[e] + 1
      BY <2>1, <2>6, <2>7, <2>9
    <3>3. Cardinality(Owed(e)') \in Nat
      <4>1. IsFiniteSet(Owed(e) \cup {w}) /\ IsFiniteSet(Owed(e) \ {w})
        BY <2>6, FS_AddElement, FS_RemoveElement
      <4>2. QED
        BY <2>3, <2>4, <4>1, OwedStep, FS_CardinalityType
    <3>4. QED
      BY <2>6, <2>7, <3>1, <3>2, <3>3
  <2>10. CASE e \notin kept \ (ok \cup refused)
    <3>1. ~Owes(p, e)
      BY <2>3, <2>10 DEF Owes
    <3>2. Owed(e)' = Owed(e)
      BY <2>3, <2>4, <2>8, <3>1, OwedStep
    <3>3. tries'[e] = tries[e]
      BY <2>1, <2>10
    <3>4. QED
      BY <2>7, <3>2, <3>3
  <2>11. QED
    BY <2>9, <2>10
<1>7. ASSUME NEW w \in Indexer, NEW e \in Entry, SettleIndexed(w, e) \/ SettleRefused(w, e)
      PROVE  AttemptsCovered'
  <2>1. indexer[w] \in Consumer /\ attempts \in [Entry -> 0 .. IndexRetries]
    BY DEF Typed
  <2>2. PICK p \in Consumer : /\ Become(w, p) /\ p.pc = indexer[w].pc
                              /\ p.batch = indexer[w].batch \ {e}
                              /\ p.ok = indexer[w].ok
                              /\ p.refused \in {indexer[w].refused, indexer[w].refused \ {e}}
    <3>1. CASE SettleIndexed(w, e)
      <4> DEFINE q == [indexer[w] EXCEPT !.batch = @ \ {e}]
      <4>1. /\ q \in Consumer /\ q.pc = indexer[w].pc /\ q.batch = indexer[w].batch \ {e}
            /\ q.ok = indexer[w].ok /\ q.refused = indexer[w].refused
        BY <2>1 DEF Consumer
      <4>2. Become(w, q)
        BY <3>1 DEF SettleIndexed
      <4> HIDE DEF q
      <4>3. QED
        BY <4>1, <4>2
    <3>2. CASE SettleRefused(w, e)
      <4> DEFINE q == [indexer[w] EXCEPT !.batch = @ \ {e}, !.refused = @ \ {e},
                                         !.dead = @ \cup {e}]
      <4>1. /\ q \in Consumer /\ q.pc = indexer[w].pc /\ q.batch = indexer[w].batch \ {e}
            /\ q.ok = indexer[w].ok /\ q.refused = indexer[w].refused \ {e}
        BY <2>1 DEF Consumer
      <4>2. Become(w, q)
        BY <3>2 DEF SettleRefused
      <4> HIDE DEF q
      <4>3. QED
        BY <4>1, <4>2
    <3>3. QED
      BY <1>7, <3>1, <3>2
  <2>3. tries' = tries /\ miscounted' = miscounted
    BY <1>7 DEF SettleIndexed, SettleRefused
  <2>4. /\ attempts' \in [Entry -> 0 .. IndexRetries]
        /\ \A x \in Entry : attempts'[x] <= attempts[x]
    BY <1>7, <2>1, StreamAssumption
       DEF SettleIndexed, SettleRefused, DeadLetterAs, StreamAssumption
  <2>5. \A x \in Entry : Owes(p, x) => Owes(indexer[w], x)
    BY <2>2 DEF Owes
  <2>6. QED
    BY <2>2, <2>3, <2>4, <2>5, NoneOwed
<1>8. ASSUME NEW w \in Indexer, NEW e \in Entry, GiveUp(w, e) \/ LeaveForRetry(w, e)
      PROVE  AttemptsCovered'
  <2>1. indexer[w] \in Consumer /\ attempts \in [Entry -> 0 .. IndexRetries]
    BY DEF Typed
  <2>2. PICK p \in Consumer : /\ Become(w, p) /\ p.pc = indexer[w].pc
                              /\ p.batch = indexer[w].batch \ {e}
                              /\ p.ok = indexer[w].ok /\ p.refused = indexer[w].refused
    <3>1. CASE GiveUp(w, e)
      <4> DEFINE q == [indexer[w] EXCEPT !.batch = @ \ {e}, !.dead = @ \cup {e}]
      <4>1. /\ q \in Consumer /\ q.pc = indexer[w].pc /\ q.batch = indexer[w].batch \ {e}
            /\ q.ok = indexer[w].ok /\ q.refused = indexer[w].refused
        BY <2>1 DEF Consumer
      <4>2. Become(w, q)
        BY <3>1 DEF GiveUp
      <4> HIDE DEF q
      <4>3. QED
        BY <4>1, <4>2
    <3>2. CASE LeaveForRetry(w, e)
      <4> DEFINE q == [indexer[w] EXCEPT !.batch = @ \ {e}, !.left = TRUE]
      <4>1. /\ q \in Consumer /\ q.pc = indexer[w].pc /\ q.batch = indexer[w].batch \ {e}
            /\ q.ok = indexer[w].ok /\ q.refused = indexer[w].refused
        BY <2>1 DEF Consumer
      <4>2. Become(w, q)
        BY <3>2 DEF LeaveForRetry
      <4> HIDE DEF q
      <4>3. QED
        BY <4>1, <4>2
    <3>3. QED
      BY <1>8, <3>1, <3>2
  <2>3. Owes(indexer[w], e) /\ ~Owes(p, e)
    BY <1>8, <2>2 DEF GiveUp, LeaveForRetry, First, Owes
  <2>4. \A x \in Entry \ {e} : Owes(p, x) => Owes(indexer[w], x)
    BY <2>2 DEF Owes
  <2>5. tries' = tries /\ miscounted \subseteq miscounted'
    BY <1>8 DEF GiveUp, LeaveForRetry
  <2>6. attempts' \in [Entry -> 0 .. IndexRetries]
    BY <1>8, NextTyped DEF Typed
  <2>7. \A x \in Entry \ {e} : attempts'[x] = attempts[x]
    BY <1>8, <2>1 DEF GiveUp, LeaveForRetry, DeadLetterAs
  <2>8. e \in miscounted' \/ attempts'[e] <= Attempt(e, {})
    <3>1. Attempt(e, {}) \in 0 .. IndexRetries /\ IndexRetries \in Nat
      BY <2>1, StreamAssumption DEF Attempt, StreamAssumption
    <3>2. CASE LeaveForRetry(w, e)
      BY <2>1, <3>1, <3>2 DEF LeaveForRetry
    <3>3. CASE GiveUp(w, e)
      <4>1. PICK failing :
              /\ "count" \in failing => e \in miscounted'
              /\ DeadLetterAs(e, "max_retries",
                   IF "count" \in failing THEN attempts[e] ELSE Attempt(e, failing), failing)
        BY <3>3 DEF GiveUp
      <4>2. CASE "count" \in failing
        BY <4>1, <4>2
      <4>3. CASE "count" \notin failing
        <5>1. Attempt(e, failing) = Attempt(e, {})
          BY <4>3 DEF Attempt
        <5>2. attempts'[e] \in {0, Attempt(e, {})}
          BY <2>1, <4>1, <4>3, <5>1 DEF DeadLetterAs
        <5>3. QED
          BY <3>1, <5>2
      <4>4. QED
        BY <4>2, <4>3
    <3>4. QED
      BY <1>8, <3>2, <3>3
  <2>9. QED
    BY <2>2, <2>3, <2>4, <2>5, <2>6, <2>7, <2>8, Counting
<1>9. ASSUME NEW w \in Indexer, EnsureGroup(w) PROVE AttemptsCovered'
  <2> DEFINE p == [Starting EXCEPT !.pc = "replay"]
  <2>1. p \in Consumer /\ p.pc # "settle"
    BY DEF Starting, Consumer, Loop
  <2>2. (Become(w, p) \/ indexer' = indexer) /\ Uncounted
    BY <1>9 DEF EnsureGroup
  <2> HIDE DEF p
  <2>3. CASE Become(w, p)
    BY <1>2, <2>1, <2>2, <2>3
  <2>4. CASE indexer' = indexer
    BY <2>2, <2>4 DEF AttemptsCovered, Owed
  <2>5. QED
    BY <2>2, <2>3, <2>4
<1>10. CASE StreamLost
  <2>1. /\ attempts' = [e \in Entry |-> 0]
        /\ tries' = tries /\ miscounted' = miscounted /\ indexer' = indexer
    BY <1>10 DEF StreamLost
  <2>2. \A e : Owed(e)' = Owed(e)
    BY <2>1 DEF Owed
  <2>3. ASSUME NEW e \in Entry, attempts[e] + Cardinality(Owed(e)) <= tries[e]
        PROVE  attempts'[e] + Cardinality(Owed(e)') <= tries'[e]
    <3>1. attempts[e] \in Nat /\ tries[e] \in Nat /\ Cardinality(Owed(e)) \in Nat
      BY OwedFinite, StreamAssumption DEF Typed, StreamAssumption
    <3>2. attempts'[e] = 0
      BY <2>1
    <3>3. QED
      BY <2>1, <2>2, <2>3, <3>1, <3>2
  <2>4. QED
    BY <2>1, <2>3 DEF AttemptsCovered
<1>11. QED
  BY <1>1, <1>5, <1>6, <1>7, <1>8, <1>9, <1>10 DEF StreamNext, Work

\* What was counted stays counted.
LEMMA CountsStay ==
  ASSUME Typed, [StreamNext]_streamVars
  PROVE  /\ \A x \in Entry : tries[x] = IndexRetries => tries'[x] = IndexRetries
         /\ miscounted \subseteq miscounted'
<1> DEFINE Stay == /\ \A x \in Entry : tries[x] = IndexRetries => tries'[x] = IndexRetries
                   /\ miscounted \subseteq miscounted'
<1>1. CASE Publish \/ StreamLost \/ UNCHANGED streamVars
  BY <1>1 DEF Publish, StreamLost, streamVars
<1>2. ASSUME NEW w \in Indexer, EnsureGroup(w) \/ Replay(w) \/ Reclaim(w) \/ Drain(w)
      PROVE  Stay
  BY <1>2 DEF EnsureGroup, Replay, Reclaim, Drain
<1>3. ASSUME NEW w \in Indexer, ReadNew(w) \/ ReadFails(w) PROVE Stay
  BY <1>3 DEF ReadNew, ReadFails
<1>4. ASSUME NEW w \in Indexer, Sift(w) \/ BulkUnreachable(w) PROVE Stay
  BY <1>4 DEF Sift, BulkUnreachable
<1>5. ASSUME NEW w \in Indexer, BulkAnswered(w) PROVE Stay
  <2>1. miscounted' = miscounted
    BY <1>5 DEF BulkAnswered
  <2>2. PICK transient : tries' = [e \in Entry |->
                           IF e \in transient /\ tries[e] < IndexRetries
                           THEN tries[e] + 1 ELSE tries[e]]
    BY <1>5 DEF BulkAnswered
  <2>3. IndexRetries \in Nat
    BY StreamAssumption DEF StreamAssumption
  <2>4. ASSUME NEW x \in Entry, tries[x] = IndexRetries PROVE tries'[x] = IndexRetries
    <3>1. ~(tries[x] < IndexRetries)
      BY <2>3, <2>4
    <3>2. QED
      BY <2>2, <2>4, <3>1
  <2>5. QED
    BY <2>1, <2>4
<1>6. ASSUME NEW w \in Indexer, NEW e \in Entry, SettleIndexed(w, e) \/ SettleRefused(w, e)
      PROVE  Stay
  BY <1>6 DEF SettleIndexed, SettleRefused
<1>7. ASSUME NEW w \in Indexer, NEW e \in Entry, GiveUp(w, e) PROVE Stay
  BY <1>7 DEF GiveUp
<1>8. ASSUME NEW w \in Indexer, NEW e \in Entry, LeaveForRetry(w, e) PROVE Stay
  BY <1>8 DEF LeaveForRetry
<1>9. ASSUME NEW w \in Indexer, Ack(w) \/ StreamCrash(w) \/ Restart(w) PROVE Stay
  BY <1>9 DEF Ack, StreamCrash, Restart
<1>10. QED
  BY <1>1, <1>2, <1>3, <1>4, <1>5, <1>6, <1>7, <1>8, <1>9 DEF StreamNext, Work

\* An indexer that gives up has the last answer in hand.
LEMMA NextEarned ==
  Typed /\ AttemptsCovered /\ DeadLetterEarned /\ [StreamNext]_streamVars => DeadLetterEarned'
<1> SUFFICES ASSUME Typed, AttemptsCovered, DeadLetterEarned, [StreamNext]_streamVars
             PROVE  DeadLetterEarned'
  OBVIOUS
<1>1. /\ \A x \in Entry : tries[x] = IndexRetries => tries'[x] = IndexRetries
      /\ miscounted \subseteq miscounted'
  BY CountsStay
<1>2. miscounted \subseteq miscounted'
  BY <1>1
<1>3. ASSUME \A x \in Entry : <<x, "max_retries">> \in parked' => <<x, "max_retries">> \in parked
      PROVE  DeadLetterEarned'
  BY <1>1, <1>2, <1>3 DEF DeadLetterEarned
<1>4. CASE Publish \/ StreamLost \/ UNCHANGED streamVars
  BY <1>3, <1>4 DEF Publish, StreamLost, streamVars
<1>5. ASSUME NEW w \in Indexer,
             \/ EnsureGroup(w) \/ Replay(w) \/ Reclaim(w) \/ Drain(w) \/ ReadNew(w)
             \/ ReadFails(w) \/ BulkAnswered(w) \/ BulkUnreachable(w) \/ Ack(w) \/ StreamCrash(w) \/ Restart(w)
      PROVE  DeadLetterEarned'
  BY <1>3, <1>5 DEF EnsureGroup, Replay, Reclaim, Drain, ReadNew, ReadFails, BulkAnswered,
     BulkUnreachable, Ack, StreamCrash, Restart
<1>6. ASSUME NEW w \in Indexer, Sift(w) PROVE DeadLetterEarned'
  BY <1>3, <1>6 DEF Sift
<1>7. ASSUME NEW w \in Indexer, NEW e \in Entry,
             SettleIndexed(w, e) \/ SettleRefused(w, e) \/ LeaveForRetry(w, e)
      PROVE  DeadLetterEarned'
  BY <1>3, <1>7 DEF SettleIndexed, SettleRefused, LeaveForRetry, DeadLetterAs
<1>8. ASSUME NEW w \in Indexer, NEW e \in Entry, GiveUp(w, e) PROVE DeadLetterEarned'
  <2>1. PICK failing : /\ Exhausted(e, failing)
                       /\ "count" \in failing => e \in miscounted'
    BY <1>8 DEF GiveUp
  <2>2. w \in Owed(e)
    BY <1>8 DEF GiveUp, First, Owed
  <2>3. Cardinality(Owed(e)) \in Nat /\ Cardinality(Owed(e)) >= 1
    <3>1. Owed(e) # {}
      BY <2>2
    <3>2. Cardinality(Owed(e)) # 0
      BY <3>1, OwedFinite, FS_EmptySet
    <3>3. QED
      BY <3>2, OwedFinite
  <2>4. attempts[e] \in 0 .. IndexRetries /\ tries[e] \in 0 .. IndexRetries /\ IndexRetries \in Nat
    BY StreamAssumption DEF Typed, StreamAssumption
  <2>5. e \in miscounted' \/ tries[e] = IndexRetries
    <3>1. CASE "count" \in failing
      BY <2>1, <3>1
    <3>2. CASE "count" \notin failing
      <4>1. attempts[e] + 1 >= IndexRetries
        BY <2>1, <2>4, <3>2 DEF Exhausted, Attempt
      <4>2. QED
        BY <1>2, <2>3, <2>4, <4>1 DEF AttemptsCovered
    <3>3. QED
      BY <3>1, <3>2
  <2>6. \A x \in Entry : <<x, "max_retries">> \in parked' =>
          x = e \/ <<x, "max_retries">> \in parked
    BY <1>8 DEF GiveUp, DeadLetterAs
  <2>7. QED
    BY <1>1, <1>2, <2>5, <2>6 DEF DeadLetterEarned
<1>9. QED
  BY <1>4, <1>5, <1>6, <1>7, <1>8 DEF StreamNext, Work

LEMMA InitCovered == StreamInit => AttemptsCovered /\ DeadLetterEarned
<1> SUFFICES ASSUME StreamInit PROVE AttemptsCovered /\ DeadLetterEarned
  OBVIOUS
<1>1. \A e : Owed(e) = {}
  BY DEF StreamInit, Owed, Starting
<1>2. AttemptsCovered
  BY <1>1, FS_EmptySet DEF StreamInit, AttemptsCovered
<1>3. QED
  BY <1>2 DEF StreamInit, DeadLetterEarned

\* However many indexers share an entry, it is dead-lettered for max_retries
\* only after that many answers of Elasticsearch, or when a failing Redis made
\* the indexer take the next attempt for the last.
THEOREM RetriesEarned == StreamSpec => []DeadLetterEarned
BY InitTyped, NextTyped, InitCovered, NextCovered, NextEarned, PTL DEF StreamSpec

-----------------------------------------------------------------------------
(* Response actions.                                                       *)

StatusNames == {"none", "running"} \cup Runnable \cup Final

\* Every action writes statuses by the same few shapes.
LEMMA NextResponseType == ResponseTypeOK /\ [ResponseNext]_responseVars => ResponseTypeOK'
<1> SUFFICES ASSUME ResponseTypeOK, [ResponseNext]_responseVars PROVE ResponseTypeOK'
  OBVIOUS
<1> USE DEF ResponseTypeOK, Runnable, Terminal, Final
<1>1. ASSUME NEW c \in Creator, CountActions(c) PROVE ResponseTypeOK'
  BY <1>1 DEF CountActions
<1>2. ASSUME NEW c \in Creator, NEW a \in Action, CreateAction(c, a) PROVE ResponseTypeOK'
  BY <1>2 DEF CreateAction
<1>3. CASE Poll
  BY <1>3 DEF Poll
<1>4. ASSUME NEW a \in Action, NEW s \in {"running"} \cup Terminal, Report(a, s)
      PROVE  ResponseTypeOK'
  BY <1>4 DEF Report
<1>5. ASSUME NEW a \in Action, Cancel(a) PROVE ResponseTypeOK'
  BY <1>5 DEF Cancel
<1>6. ASSUME NEW a \in Action, Lapse(a) \/ Age(a) PROVE ResponseTypeOK'
  BY <1>6 DEF Lapse, Age, Rows
<1>7. ASSUME NEW v \in Viewer, View(v) PROVE ResponseTypeOK'
  BY <1>7 DEF View
<1>8. ASSUME NEW v \in Viewer, MarkExpired(v) PROVE ResponseTypeOK'
  <2>1. view[v] \subseteq Action
    OBVIOUS
  <2>2. status' \in [Action -> {"none", "running"} \cup Runnable \cup Final]
    BY <1>8 DEF MarkExpired
  <2>3. overwritten' \subseteq Action /\ view' \in [Viewer -> SUBSET Action]
    BY <1>8, <2>1 DEF MarkExpired
  <2>4. QED
    BY <1>8, <2>2, <2>3 DEF MarkExpired
<1>9. CASE AgentChanges
  BY <1>9 DEF AgentChanges
<1>10. CASE UNCHANGED responseVars
  BY <1>10 DEF responseVars
<1>11. QED
  BY <1>1, <1>2, <1>3, <1>4, <1>5, <1>6, <1>7, <1>8, <1>9, <1>10 DEF ResponseNext

LEMMA ResponseTypes == ResponseSpec => []ResponseTypeOK
<1>1. ResponseInit => ResponseTypeOK
  BY DEF ResponseInit, ResponseTypeOK, Runnable, Terminal, Final, AgentKind
<1>2. QED
  BY <1>1, NextResponseType, PTL DEF ResponseSpec

-----------------------------------------------------------------------------
\* Only a stale write takes a row away from what its agent reported.
AllAgree == \A a \in Action : a \notin overwritten => Agrees(a)

\* A step leaves the action alone, moves it on from a status that is not
\* final, or is a stale write that is remembered as such.
LEMMA StepOfAction ==
  ASSUME ResponseTypeOK, [ResponseNext]_responseVars, NEW a \in Action
  PROVE  /\ overwritten \subseteq overwritten'
         /\ received \subseteq received'
         /\ \/ status'[a] = status[a] /\ result'[a] = result[a]
            \/ /\ status[a] = "none" /\ status'[a] = "pending"
               /\ result'[a] = result[a]
            \/ /\ status[a] \in Runnable
               /\ status'[a] \in {"delivered", "failed", "cancelled", "expired"}
               /\ result'[a] = result[a]
            \/ /\ status[a] \in Runnable \cup {"running"}
               /\ status'[a] \in Terminal \cup {"running"}
               /\ result'[a] = status'[a] /\ a \in received
            \/ a \in overwritten'
<1> DEFINE Moves ==
      \/ status'[a] = status[a] /\ result'[a] = result[a]
      \/ /\ status[a] = "none" /\ status'[a] = "pending"
         /\ result'[a] = result[a]
      \/ /\ status[a] \in Runnable
         /\ status'[a] \in {"delivered", "failed", "cancelled", "expired"}
         /\ result'[a] = result[a]
      \/ /\ status[a] \in Runnable \cup {"running"}
         /\ status'[a] \in Terminal \cup {"running"}
         /\ result'[a] = status'[a] /\ a \in received
      \/ a \in overwritten'
<1> DEFINE Goal == overwritten \subseteq overwritten' /\ received \subseteq received' /\ Moves
<1> USE DEF ResponseTypeOK, Runnable, Terminal, Final
<1>1. ASSUME NEW c \in Creator, CountActions(c) PROVE Goal
  BY <1>1 DEF CountActions
<1>2. ASSUME NEW c \in Creator, NEW b \in Action, CreateAction(c, b) PROVE Goal
  BY <1>2 DEF CreateAction
<1>3. CASE Poll
  BY <1>3 DEF Poll, Expired
<1>4. ASSUME NEW b \in Action, NEW s \in {"running"} \cup Terminal, Report(b, s)
      PROVE  Goal
  BY <1>4 DEF Report, Executable
<1>5. ASSUME NEW b \in Action, Cancel(b) PROVE Goal
  BY <1>5 DEF Cancel
<1>6. ASSUME NEW b \in Action, Lapse(b) \/ Age(b) PROVE Goal
  BY <1>6 DEF Lapse, Age
<1>7. ASSUME NEW v \in Viewer, View(v) PROVE Goal
  BY <1>7 DEF View
<1>8. ASSUME NEW v \in Viewer, MarkExpired(v) PROVE Goal
  BY <1>8 DEF MarkExpired
<1>9. CASE AgentChanges
  BY <1>9 DEF AgentChanges
<1>10. CASE UNCHANGED responseVars
  BY <1>10 DEF responseVars
<1>11. Goal
  BY <1>1, <1>2, <1>3, <1>4, <1>5, <1>6, <1>7, <1>8, <1>9, <1>10 DEF ResponseNext
<1>12. QED
  BY <1>11

LEMMA NextAgree == ResponseTypeOK /\ AllAgree /\ [ResponseNext]_responseVars => AllAgree'
<1> SUFFICES ASSUME ResponseTypeOK, AllAgree, [ResponseNext]_responseVars,
                    NEW a \in Action, a \notin overwritten'
             PROVE  Agrees(a)'
  BY DEF AllAgree
<1>1. Agrees(a)
  BY StepOfAction DEF AllAgree
<1>2. QED
  BY <1>1, StepOfAction DEF Agrees, ResponseTypeOK, Runnable, Terminal, Final

\* The row of an action and the report of its agent agree, and both stand once
\* the action has ended, whatever is repeated, late or cancelled; only a viewer
\* that writes what it read before undoes it (agent_actions.py:147,
\* service.py:102).
THEOREM ResultOfAction == ResponseSpec => ResultStands
<1>1. ResponseInit => AllAgree
  BY DEF ResponseInit, AllAgree, Agrees
<1>2. ResponseTypeOK /\ AllAgree /\ [ResponseNext]_responseVars =>
        [\A a \in Action \ overwritten' :
           /\ Agrees(a)'
           /\ status[a] \in Final => status'[a] = status[a] /\ result'[a] = result[a]]_responseVars
  <2> SUFFICES ASSUME ResponseTypeOK, AllAgree, [ResponseNext]_responseVars,
                      NEW a \in Action \ overwritten'
               PROVE  /\ Agrees(a)'
                      /\ status[a] \in Final =>
                           status'[a] = status[a] /\ result'[a] = result[a]
    OBVIOUS
  <2>1. Agrees(a)'
    BY NextAgree DEF AllAgree
  <2>2. status[a] \in Final => status'[a] = status[a] /\ result'[a] = result[a]
    BY StepOfAction DEF Runnable, Terminal, Final
  <2>3. QED
    BY <2>1, <2>2
<1>3. QED
  BY <1>1, <1>2, NextAgree, ResponseTypes, PTL DEF ResponseSpec, ResultStands

-----------------------------------------------------------------------------
\* Rows are finite in number, and so are requests.
LEMMA Finite ==
  ASSUME ResponseTypeOK
  PROVE  /\ IsFiniteSet(Waiting) /\ Cardinality(Waiting) \in Nat
         /\ IsFiniteSet(counting) /\ Cardinality(counting) \in Nat
         /\ Cardinality(counting) <= Cardinality(Creator)
         /\ Cardinality(Creator) \in Nat
<1>1. Waiting \in SUBSET Action /\ counting \in SUBSET Creator
  BY DEF ResponseTypeOK, Waiting
<1>2. IsFiniteSet(Action) /\ IsFiniteSet(Creator)
  BY ResponseAssumption DEF ResponseAssumption
<1>3. QED
  BY <1>1, <1>2, FS_Subset, FS_CardinalityType

LEMMA NextBounded ==
  ResponseTypeOK /\ ShellBounded /\ [ResponseNext]_responseVars => ShellBounded'
<1> SUFFICES ASSUME ResponseTypeOK, ShellBounded, [ResponseNext]_responseVars
             PROVE  ShellBounded'
  OBVIOUS
<1>1. ResponseTypeOK'
  BY NextResponseType
<1>2. /\ Cardinality(Waiting') \in Nat /\ Cardinality(counting') \in Nat
      /\ Cardinality(counting') <= Cardinality(Creator)
  <2>1. \A c : c = counting' => Cardinality(c) \in Nat /\ Cardinality(c) <= Cardinality(Creator)
    BY <1>1, ResponseAssumption, FS_Subset, FS_CardinalityType
       DEF ResponseTypeOK, ResponseAssumption
  <2>2. Waiting' \in SUBSET Action
    BY <1>1 DEF ResponseTypeOK, Waiting
  <2>3. QED
    BY <2>1, <2>2, ResponseAssumption, FS_Subset, FS_CardinalityType DEF ResponseAssumption
<1>3. ASSUME Waiting' \subseteq Waiting, counting' = counting PROVE ShellBounded'
  <2>1. Cardinality(Waiting') <= Cardinality(Waiting)
    BY <1>3, Finite, FS_Subset
  <2>2. QED
    BY <1>2, <1>3, <2>1, Finite, ResponseAssumption DEF ShellBounded, ResponseAssumption
<1>4. ASSUME NEW c \in Creator, CountActions(c) PROVE ShellBounded'
  <2>1. Waiting' = Waiting /\ Waiting = Queued
    BY <1>4 DEF CountActions, Waiting, Queued
  <2>2. Cardinality(Waiting') < ShellRateMax
    BY <1>4, <2>1 DEF CountActions
  <2>3. QED
    BY <1>2, <2>2, Finite, ResponseAssumption DEF ShellBounded, ResponseAssumption
<1>5. ASSUME NEW c \in Creator, NEW a \in Action, CreateAction(c, a) PROVE ShellBounded'
  <2>1. Waiting' \subseteq Waiting \cup {a}
    BY <1>5 DEF CreateAction, Waiting, ResponseTypeOK
  <2>2. Cardinality(Waiting') <= Cardinality(Waiting) + 1
    <3>1. /\ IsFiniteSet(Waiting \cup {a})
          /\ Cardinality(Waiting \cup {a}) <= Cardinality(Waiting) + 1
      <4>1. IsFiniteSet(Waiting) /\ Cardinality(Waiting) \in Nat
        BY Finite
      <4>2. /\ IsFiniteSet(Waiting \cup {a})
            /\ Cardinality(Waiting \cup {a}) = IF a \in Waiting THEN Cardinality(Waiting)
                                               ELSE Cardinality(Waiting) + 1
        BY <4>1, FS_AddElement, Zenon
      <4>3. QED
        BY <4>1, <4>2
    <3>2. Waiting' \in SUBSET (Waiting \cup {a})
      BY <2>1
    <3>3. Cardinality(Waiting') <= Cardinality(Waiting \cup {a})
      BY <3>1, <3>2, FS_Subset
    <3>4. Cardinality(Waiting \cup {a}) \in Nat
      BY <3>1, FS_CardinalityType
    <3>5. QED
      BY <1>2, <3>1, <3>3, <3>4, Finite
  <2>3. Cardinality(counting') = Cardinality(counting) - 1
    BY <1>5, Finite, FS_RemoveElement DEF CreateAction
  <2>4. QED
    BY <1>2, <2>2, <2>3, Finite, ResponseAssumption DEF ShellBounded, ResponseAssumption
<1>6. CASE Poll
  BY <1>3, <1>6 DEF Poll, Waiting, ResponseTypeOK, Runnable
<1>7. ASSUME NEW a \in Action, NEW s \in {"running"} \cup Terminal, Report(a, s)
      PROVE  ShellBounded'
  BY <1>3, <1>7 DEF Report, Executable, Waiting, ResponseTypeOK, Runnable, Terminal
<1>8. ASSUME NEW a \in Action, Cancel(a) PROVE ShellBounded'
  BY <1>3, <1>8 DEF Cancel, Waiting, ResponseTypeOK, Runnable
<1>9. ASSUME NEW a \in Action, Lapse(a) \/ Age(a) PROVE ShellBounded'
  BY <1>3, <1>9 DEF Lapse, Age, Waiting
<1>10. ASSUME NEW v \in Viewer, View(v) PROVE ShellBounded'
  BY <1>3, <1>10 DEF View, Waiting
<1>11. ASSUME NEW v \in Viewer, MarkExpired(v) PROVE ShellBounded'
  BY <1>3, <1>11 DEF MarkExpired, Waiting, ResponseTypeOK, Runnable
<1>12. CASE AgentChanges
  BY <1>3, <1>12 DEF AgentChanges, Waiting
<1>13. CASE UNCHANGED responseVars
  BY <1>3, <1>13 DEF responseVars, Waiting
<1>14. QED
  BY <1>4, <1>5, <1>6, <1>7, <1>8, <1>9, <1>10, <1>11, <1>12, <1>13 DEF ResponseNext

\* With n administrators at work no more than ShellRateMax + n - 1 shell
\* commands wait for the agent or are about to, for every n: what the missing
\* lock between the count and the insertion (service.py:131) can cost.
THEOREM ShellCommandsBounded == ResponseSpec => []ShellBounded
<1>1. ResponseInit => ShellBounded
  <2> SUFFICES ASSUME ResponseInit PROVE ShellBounded
    OBVIOUS
  <2>1. Waiting = {} /\ counting = {}
    BY DEF ResponseInit, Waiting
  <2>2. Cardinality(Creator) \in Nat
    BY ResponseAssumption, FS_CardinalityType DEF ResponseAssumption
  <2>3. QED
    BY <2>1, <2>2, FS_EmptySet, ResponseAssumption DEF ShellBounded, ResponseAssumption
<1>2. QED
  BY <1>1, NextBounded, ResponseTypes, PTL DEF ResponseSpec

-----------------------------------------------------------------------------
(* Cache locks and single flight.                                          *)

\* Whoever computes beside the leader is excused: an unexcused caller leads
\* with its token in the lock, and one that looks for the value a last time
\* finds it.
FlightInv ==
  /\ DOMAIN caller = Caller
  /\ \A c \in Caller \ excused :
       /\ caller[c] # "alone"
       /\ caller[c] = "leading" => lock = c
       /\ caller[c] = "last" => fresh

LEMMA InitFlight == FlightInit => FlightInv
BY DEF FlightInit, FlightInv

\* The step of one caller leaves the others where they are, or idle.
LEMMA Others ==
  ASSUME FlightInv, NEW c \in Caller, NEW pc,
         \/ Move(c, pc)
         \/ pc = "idle" /\ (Land(c, TRUE) \/ Land(c, FALSE))
  PROVE  /\ DOMAIN caller' = Caller
         /\ caller'[c] = pc
         /\ \A d \in Caller \ {c} : caller'[d] \in {caller[d], "idle"}
<1>1. CASE Move(c, pc)
  BY <1>1 DEF Move, FlightInv
<1>2. CASE pc = "idle" /\ (Land(c, TRUE) \/ Land(c, FALSE))
  BY <1>2 DEF Land, FlightInv
<1>3. QED
  BY <1>1, <1>2

\* A step of c that sets no lock, takes none but its own, and does not lose
\* the value keeps the invariant when c itself is in order.
LEMMA StepOfOne ==
  ASSUME FlightInv, NEW c \in Caller, NEW pc,
         \/ Move(c, pc)
         \/ pc = "idle" /\ (Land(c, TRUE) \/ Land(c, FALSE)),
         excused \subseteq excused' \cup {c},
         fresh => fresh',
         lock' # lock => lock \in {c, Unlocked},
         c \notin excused' => /\ pc # "alone"
                              /\ pc = "leading" => lock' = c
                              /\ pc = "last" => fresh'
  PROVE  FlightInv'
<1>1. /\ DOMAIN caller' = Caller
      /\ caller'[c] = pc
      /\ \A d \in Caller \ {c} : caller'[d] \in {caller[d], "idle"}
  BY Others
<1>2. ASSUME NEW d \in Caller \ {c}, d \notin excused'
      PROVE  /\ caller'[d] # "alone"
             /\ caller'[d] = "leading" => lock' = d
             /\ caller'[d] = "last" => fresh'
  <2>1. d \notin excused /\ d # Unlocked
    BY <1>2, FlightAssumption DEF FlightAssumption
  <2>2. QED
    BY <1>1, <1>2, <2>1 DEF FlightInv
<1>3. QED
  BY <1>1, <1>2 DEF FlightInv

LEMMA NextFlight == FlightInv /\ [FlightNext]_flightVars => FlightInv'
<1> SUFFICES ASSUME FlightInv, [FlightNext]_flightVars PROVE FlightInv'
  OBVIOUS
<1>1. ASSUME NEW c \in Caller, Miss(c) PROVE FlightInv'
  BY <1>1, StepOfOne DEF Miss
<1>2. ASSUME NEW c \in Caller, Join(c) PROVE FlightInv'
  <2>1. PICK pc \in {"idle", "joined"} : Move(c, pc)
    BY <1>2 DEF Join
  <2>2. QED
    BY <1>2, <2>1, StepOfOne DEF Join
<1>3. ASSUME NEW c \in Caller, Begin(c) PROVE FlightInv'
  BY <1>3, StepOfOne DEF Begin
<1>4. ASSUME NEW c \in Caller, Acquire(c) PROVE FlightInv'
  BY <1>4, StepOfOne DEF Acquire
<1>5. ASSUME NEW c \in Caller, Computed(c) PROVE FlightInv'
  <2>1. PICK pc \in {"releasing", "idle"} :
          Move(c, pc) \/ (pc = "idle" /\ Land(c, FALSE))
    BY <1>5 DEF Computed
  <2>2. UNCHANGED <<lock, excused>> /\ (fresh => fresh')
    BY <1>5 DEF Computed
  <2>3. QED
    BY <2>1, <2>2, StepOfOne
<1>6. ASSUME NEW c \in Caller, Raised(c) PROVE FlightInv'
  <2>1. PICK pc \in {"releasing", "idle"} :
          Move(c, pc) \/ (pc = "idle" /\ Land(c, TRUE))
    BY <1>6 DEF Raised
  <2>2. QED
    BY <1>6, <2>1, StepOfOne DEF Raised
<1>7. ASSUME NEW c \in Caller, Release(c) PROVE FlightInv'
  <2>1. lock' # lock => lock = c
    BY <1>7 DEF Release, Released
  <2>2. QED
    BY <1>7, <2>1, StepOfOne DEF Release
<1>8. ASSUME NEW c \in Caller, PollEntry(c) PROVE FlightInv'
  <2>1. PICK pc \in {"checking", "idle"} :
          Move(c, pc) \/ (pc = "idle" /\ Land(c, FALSE))
    BY <1>8 DEF PollEntry
  <2>2. QED
    BY <1>8, <2>1, StepOfOne DEF PollEntry
<1>9. ASSUME NEW c \in Caller, TimeUp(c) PROVE FlightInv'
  BY <1>9, StepOfOne DEF TimeUp
<1>10. ASSUME NEW c \in Caller, CheckLock(c) PROVE FlightInv'
  BY <1>10, StepOfOne DEF CheckLock
<1>11. ASSUME NEW c \in Caller, LastPoll(c) PROVE FlightInv'
  <2>1. CASE fresh
    <3>1. Land(c, FALSE) /\ UNCHANGED <<lock, fresh, excused>>
      BY <1>11, <2>1 DEF LastPoll
    <3>2. QED
      BY <3>1, StepOfOne
  <2>2. CASE ~fresh
    <3>1. Move(c, "alone") /\ UNCHANGED <<lock, fresh, excused>>
      BY <1>11, <2>2 DEF LastPoll
    <3>2. c \in excused
      BY <1>11, <2>2 DEF LastPoll, FlightInv
    <3>3. QED
      BY <3>1, <3>2, StepOfOne
  <2>3. QED
    BY <2>1, <2>2
<1>12. ASSUME NEW c \in Caller, CancelWaiter(c) PROVE FlightInv'
  BY <1>12 DEF CancelWaiter, FlightInv
<1>13. CASE LockLapses
  BY <1>13 DEF LockLapses, FlightInv
<1>14. CASE GoesStale
  BY <1>14 DEF GoesStale, FlightInv
<1>15. ASSUME NEW p, ProcessCrash(p) PROVE FlightInv'
  BY <1>15 DEF ProcessCrash, FlightInv
<1>16. CASE UNCHANGED flightVars
  BY <1>16 DEF flightVars, FlightInv
<1>17. QED
  BY <1>1, <1>2, <1>3, <1>4, <1>5, <1>6, <1>7, <1>8, <1>9, <1>10, <1>11, <1>12, <1>13,
     <1>14, <1>15, <1>16 DEF FlightNext, Fly

LEMMA FlightSafe == FlightInv => OneComputation
<1> SUFFICES ASSUME FlightInv PROVE OneComputation
  OBVIOUS
<1> DEFINE busy == {c \in Caller : caller[c] \in Computing} \ excused
<1>1. busy \subseteq {lock}
  BY DEF FlightInv, Computing
<1>2. IsFiniteSet({lock}) /\ Cardinality({lock}) = 1
  BY FS_Singleton
<1>3. Cardinality(busy) <= 1
  BY <1>1, <1>2, FS_Subset
<1>4. QED
  BY <1>3 DEF OneComputation

\* single_flight computes a value once at a time over all processes, except
\* beside callers that had to compute: they ran out of patience, lost the lock,
\* found it gone without a value, or could not reach Redis.
THEOREM ComputedOnce == FlightSpec => []OneComputation
BY InitFlight, NextFlight, FlightSafe, PTL DEF FlightSpec

-----------------------------------------------------------------------------
(* The types of the three components' variables.                           *)

\* The rest of StreamTypeOK, beside Typed.
Books ==
  /\ docOf \in Contents
  /\ indexed \subseteq {docOf[e] : e \in Entry}
  /\ parked \subseteq DeadLetters
  /\ outages \in 0 .. IndexFaults
  /\ skipped \subseteq Entry
  /\ dropped \subseteq Entry
  /\ miscounted \subseteq Entry

LEMMA StreamTypes == StreamTypeOK <=> Typed /\ Books
BY DEF StreamTypeOK, Typed, Books

\* Faults are counted up to their bound.
LEMMA FaultsBounded ==
  ASSUME Books, NEW commands, IsFiniteSet(commands), Failing(commands)
  PROVE  outages' \in 0 .. IndexFaults
<1>1. Cardinality(commands) \in Nat
  BY FS_CardinalityType
<1>2. QED
  BY <1>1, StreamAssumption DEF StreamAssumption, Books, Failing

\* Commands are named from a finite set.
LEMMA FewCommands ==
  /\ \A f \in SUBSET {"dlq", "ack"} : IsFiniteSet(f)
  /\ \A f \in SUBSET {"clear"} : IsFiniteSet(f)
  /\ \A f \in SUBSET {"dlq", "clear"} : IsFiniteSet(f)
  /\ \A f \in SUBSET {"count", "dlq", "clear"} : IsFiniteSet(f)
  /\ \A f \in SUBSET {"ok", "dead"} : IsFiniteSet(f)
  /\ IsFiniteSet({"read"}) /\ IsFiniteSet({"bulk"}) /\ IsFiniteSet({"process"})
  /\ IsFiniteSet({"redis"})
<1>1. \A x : IsFiniteSet({x})
  BY FS_Singleton
<1>2. ASSUME NEW x, NEW y PROVE IsFiniteSet({x, y})
  <2>1. IsFiniteSet({x})
    BY <1>1
  <2>2. IsFiniteSet({x} \cup {y})
    BY <2>1, FS_AddElement
  <2>3. {x} \cup {y} = {x, y}
    OBVIOUS
  <2>4. QED
    BY <2>2, <2>3
<1>3. IsFiniteSet({"count", "dlq", "clear"})
  <2>1. {"count", "dlq", "clear"} = {"dlq", "clear"} \cup {"count"}
    OBVIOUS
  <2>2. QED
    BY <1>2, <2>1, FS_AddElement
<1>4. QED
  BY <1>1, <1>2, <1>3, FS_Subset

LEMMA NextBooks ==
  ASSUME Typed, AcksHaveCause, Books, [StreamNext]_streamVars
  PROVE  Books'
<1>0. docOf' = docOf
  BY CausesStay
<1> DEFINE known == {docOf[e] : e \in Entry}
<1>1. CASE Publish
  BY <1>1 DEF Publish, Books, DeadLetters
<1>2. ASSUME NEW w \in Indexer, Replay(w) \/ Reclaim(w) \/ Drain(w) \/ Restart(w)
      PROVE  Books'
  BY <1>2 DEF Replay, Reclaim, Drain, Restart, Books, DeadLetters
<1>3. ASSUME NEW w \in Indexer, ReadNew(w) \/ ReadFails(w) PROVE Books'
  <2>1. outages' \in 0 .. IndexFaults
    BY <1>3, FaultsBounded, FewCommands DEF ReadNew, ReadFails, Books, DeadLetters
  <2>2. QED
    BY <1>3, <2>1 DEF ReadNew, ReadFails, Books, DeadLetters
<1>4. ASSUME NEW w \in Indexer, Sift(w) PROVE Books'
  <2>1. {e \in indexer[w].batch : docOf[e] = NoId} \subseteq Entry
    BY DEF Typed, Consumer
  <2>2. outages' \in 0 .. IndexFaults
    BY <1>4, FaultsBounded, FewCommands DEF Sift
  <2>3. parked' \subseteq DeadLetters' /\ dropped' \subseteq Entry
    BY <1>0, <1>4, <2>1 DEF Sift, Books, Reason, DeadLetters
  <2>4. QED
    BY <1>4, <2>2, <2>3 DEF Sift, Books, DeadLetters
<1>5. ASSUME NEW w \in Indexer, BulkAnswered(w) PROVE Books'
  <2>1. indexer[w].batch \subseteq Entry
    BY DEF Typed, Consumer
  <2>2. \A S \in SUBSET indexer[w].batch : Documents(S) \subseteq known
    BY <2>1 DEF Documents
  <2>3. indexed' \subseteq known
    BY <1>5, <2>2 DEF BulkAnswered, ByDocId, Books, DeadLetters
  <2>4. QED
    BY <1>5, <2>3 DEF BulkAnswered, Books, DeadLetters
<1>6. ASSUME NEW w \in Indexer, BulkUnreachable(w) PROVE Books'
  <2>1. Documents(indexer[w].batch) \subseteq known
    BY DEF Typed, Consumer, Documents
  <2>2. outages' \in 0 .. IndexFaults
    BY <1>6, FaultsBounded, FewCommands DEF BulkUnreachable
  <2>3. QED
    BY <1>6, <2>1, <2>2 DEF BulkUnreachable, Books, DeadLetters
<1>7. ASSUME NEW w \in Indexer, NEW e \in Entry, SettleIndexed(w, e) PROVE Books'
  <2>1. outages' \in 0 .. IndexFaults
    BY <1>7, FaultsBounded, FewCommands DEF SettleIndexed
  <2>2. QED
    BY <1>7, <2>1 DEF SettleIndexed, Books, DeadLetters
<1>8. ASSUME NEW w \in Indexer, NEW e \in Entry, SettleRefused(w, e) PROVE Books'
  <2>1. outages' \in 0 .. IndexFaults
    BY <1>8, FaultsBounded, FewCommands DEF SettleRefused
  <2>2. docOf[e] \in Unmappable
    BY <1>8 DEF SettleRefused, AcksHaveCause, Permanent
  <2>3. parked' \subseteq DeadLetters' /\ dropped' \subseteq Entry
    BY <1>0, <1>8, <2>2 DEF SettleRefused, DeadLetterAs, Books, Reason, DeadLetters
  <2>4. QED
    BY <1>8, <2>1, <2>3 DEF SettleRefused, Books, DeadLetters
<1>9. ASSUME NEW w \in Indexer, NEW e \in Entry, GiveUp(w, e) PROVE Books'
  <2>1. outages' \in 0 .. IndexFaults
    BY <1>9, FaultsBounded, FewCommands DEF GiveUp
  <2>2. /\ parked' \subseteq DeadLetters' /\ dropped' \subseteq Entry
        /\ miscounted' \subseteq Entry
    BY <1>0, <1>9 DEF GiveUp, DeadLetterAs, Books, Reason, DeadLetters
  <2>3. QED
    BY <1>9, <2>1, <2>2 DEF GiveUp, Books, DeadLetters
<1>10. ASSUME NEW w \in Indexer, NEW e \in Entry, LeaveForRetry(w, e) PROVE Books'
  BY <1>10 DEF LeaveForRetry, Books, DeadLetters
<1>11. ASSUME NEW w \in Indexer, Ack(w) \/ StreamCrash(w) PROVE Books'
  <2>1. outages' \in 0 .. IndexFaults
    BY <1>11, FaultsBounded, FewCommands DEF Ack, StreamCrash
  <2>2. QED
    BY <1>11, <2>1 DEF Ack, StreamCrash, Books, DeadLetters
<1>12. CASE UNCHANGED streamVars
  BY <1>12 DEF Books, DeadLetters, streamVars
<1>13. ASSUME NEW w \in Indexer, EnsureGroup(w) PROVE Books'
  <2>1. (delivered + 1) .. delivered' \subseteq Entry
    BY <1>13, StreamAssumption DEF StreamAssumption, EnsureGroup, Typed, Entry
  <2>2. QED
    BY <1>13, <2>1 DEF EnsureGroup, Books, DeadLetters
<1>14. CASE StreamLost
  <2>1. outages' \in 0 .. IndexFaults
    BY <1>14, FaultsBounded, FewCommands DEF StreamLost
  <2>2. 1 .. published \subseteq Entry
    BY StreamAssumption DEF StreamAssumption, Typed, Entry
  <2>3. QED
    BY <1>14, <2>1, <2>2 DEF StreamLost, Books, DeadLetters
<1>15. QED
  BY <1>1, <1>2, <1>3, <1>4, <1>5, <1>6, <1>7, <1>8, <1>9, <1>10, <1>11, <1>12,
     <1>13, <1>14
  DEF StreamNext, Work

LEMMA InitBooks == StreamInit => Books
BY StreamAssumption DEF StreamAssumption, StreamInit, Books

\* What moves one caller, or settles a flight, keeps the callers' places.
LEMMA PlacesTyped ==
  ASSUME FlightTypeOK, NEW c \in Caller,
         \/ \E pc \in {"idle", "missed", "joined"} \cup Flying : Move(c, pc)
         \/ \E raised \in BOOLEAN : Land(c, raised)
  PROVE  /\ caller' \in [Caller -> {"idle", "missed", "joined"} \cup Flying]
         /\ cancelled' \subseteq {Home[d] : d \in Caller}
<1>1. ASSUME NEW pc \in {"idle", "missed", "joined"} \cup Flying, Move(c, pc)
      PROVE  /\ caller' \in [Caller -> {"idle", "missed", "joined"} \cup Flying]
             /\ cancelled' \subseteq {Home[d] : d \in Caller}
  BY <1>1 DEF Move, FlightTypeOK
<1>2. ASSUME NEW raised \in BOOLEAN, Land(c, raised)
      PROVE  /\ caller' \in [Caller -> {"idle", "missed", "joined"} \cup Flying]
             /\ cancelled' \subseteq {Home[d] : d \in Caller}
  BY <1>2 DEF Land, FlightTypeOK
<1>3. QED
  BY <1>1, <1>2

LEMMA NextFlightType ==
  ASSUME FlightTypeOK, [FlightNext]_flightVars
  PROVE  FlightTypeOK'
<1> USE FlightAssumption DEF FlightAssumption
<1>1. ASSUME NEW c \in Caller, Fly(c) \/ Miss(c) \/ TimeUp(c) PROVE FlightTypeOK'
  <2>1. \/ \E pc \in {"idle", "missed", "joined"} \cup Flying : Move(c, pc)
        \/ \E raised \in BOOLEAN : Land(c, raised)
    <3>1. ASSUME Fly(c)
          PROVE  \/ \E pc \in {"idle", "missed", "joined"} \cup Flying : Move(c, pc)
                 \/ \E raised \in BOOLEAN : Land(c, raised)
      BY <3>1 DEF Fly, Join, Begin, Acquire, Computed, Raised, Release, PollEntry,
                  CheckLock, LastPoll, Flying, Computing
    <3>2. QED
      BY <1>1, <3>1 DEF Miss, TimeUp, Flying
  <2>2. lock' \in Caller \cup {Unlocked} /\ fresh' \in BOOLEAN
    BY <1>1 DEF Fly, Join, Begin, Acquire, Computed, Raised, Release, Released, PollEntry,
                CheckLock, LastPoll, Miss, TimeUp, FlightTypeOK
  <2>3. faults' = faults \/ Fault
    BY <1>1 DEF Fly, Join, Begin, Acquire, Computed, Raised, Release, PollEntry,
                CheckLock, LastPoll, Miss, TimeUp
  <2>4. faults' \in 0 .. FlightFaults
    BY <2>3 DEF Fault, FlightTypeOK
  <2>5. excused' \in {excused, excused \cup {c}, excused \ {c}}
    BY <1>1 DEF Fly, Join, Begin, Acquire, Computed, Raised, Release, PollEntry,
                CheckLock, LastPoll, Miss, TimeUp
  <2>6. QED
    BY <2>1, <2>2, <2>4, <2>5, PlacesTyped DEF FlightTypeOK
<1>2. ASSUME NEW c \in Caller, CancelWaiter(c) PROVE FlightTypeOK'
  BY <1>2 DEF CancelWaiter, Fault, FlightTypeOK
<1>3. CASE LockLapses
  BY <1>3 DEF LockLapses, FlightTypeOK
<1>4. CASE GoesStale
  BY <1>4 DEF GoesStale, FlightTypeOK
<1>5. ASSUME NEW p, ProcessCrash(p) PROVE FlightTypeOK'
  BY <1>5 DEF ProcessCrash, Fault, FlightTypeOK
<1>6. CASE UNCHANGED flightVars
  BY <1>6 DEF flightVars, FlightTypeOK
<1>7. QED
  BY <1>1, <1>2, <1>3, <1>4, <1>5, <1>6 DEF FlightNext

LEMMA InitFlightType == FlightInit => FlightTypeOK
<1> SUFFICES ASSUME FlightInit PROVE FlightTypeOK
  OBVIOUS
<1>1. faults \in 0 .. FlightFaults
  BY FlightAssumption DEF FlightAssumption, FlightInit
<1>2. QED
  BY <1>1 DEF FlightInit, FlightTypeOK

\* A step of the composition is a step of one component; the others rest.
LEMMA StepOfPart ==
  [MCNext]_allVars =>
    [StreamNext]_streamVars /\ [ResponseNext]_responseVars /\ [FlightNext]_flightVars
<1>1. CASE InStream(StreamNext)
  BY <1>1 DEF InStream
<1>2. CASE InResponse(ResponseNext)
  BY <1>2 DEF InResponse
<1>3. CASE InFlightPart(FlightNext)
  BY <1>3 DEF InFlightPart
<1>4. CASE UNCHANGED allVars
  BY <1>4 DEF allVars
<1>5. QED
  BY <1>1, <1>2, <1>3, <1>4 DEF MCNext

\* Each component sees a behaviour of its own specification, so what is proved
\* of one holds in the composition.
THEOREM PartsRun == MCSpec => StreamSpec /\ ResponseSpec /\ FlightSpec
<1>1. MCInit => StreamInit /\ ResponseInit /\ FlightInit
  BY DEF MCInit
<1>2. [MCNext]_allVars =>
        [StreamNext]_streamVars /\ [ResponseNext]_responseVars /\ [FlightNext]_flightVars
  BY StepOfPart
<1>3. QED
  BY <1>1, <1>2, PTL DEF MCSpec, StreamSpec, ResponseSpec, FlightSpec

\* The variables of the indexers, of the response actions and of the flights
\* keep their types whatever any of their processes does: in particular the
\* attempts of an entry stay within max_retries, and only a document that
\* Elasticsearch refuses for good is dead-lettered as refused.
THEOREM FeaturesTyped == MCSpec => []FeaturesTypeOK
<1>1. StreamSpec => []StreamTypeOK
  <2>1. StreamInit => Typed /\ AcksHaveCause /\ Books
    BY InitTyped, InitBooks
  <2>2. Typed /\ AcksHaveCause /\ Books /\ [StreamNext]_streamVars =>
          Typed' /\ AcksHaveCause' /\ Books'
    BY NextTyped, NextAcksHaveCause, NextBooks
  <2>3. Typed /\ Books => StreamTypeOK
    BY StreamTypes
  <2>4. QED
    BY <2>1, <2>2, <2>3, PTL DEF StreamSpec
<1>2. ResponseSpec => []ResponseTypeOK
  <2>1. ResponseInit => ResponseTypeOK
    BY DEF ResponseInit, ResponseTypeOK, Runnable, Terminal, Final, AgentKind
  <2>2. ResponseTypeOK /\ [ResponseNext]_responseVars => ResponseTypeOK'
    BY NextResponseType
  <2>3. QED
    BY <2>1, <2>2, PTL DEF ResponseSpec
<1>3. FlightSpec => []FlightTypeOK
  BY InitFlightType, NextFlightType, PTL DEF FlightSpec
<1>4. StreamTypeOK /\ ResponseTypeOK /\ FlightTypeOK => FeaturesTypeOK
  BY DEF FeaturesTypeOK
<1>5. QED
  BY <1>1, <1>2, <1>3, <1>4, PartsRun, PTL
=============================================================================
