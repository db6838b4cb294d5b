------------------------- MODULE IngestQueueProofs -------------------------
(***************************************************************************)
(* Proofs about IngestQueue, for any number of workers and messages and    *)
(* any batch size, retry cap, dead letter limit and bounds: what was       *)
(* answered durable is not lost.  For one worker, also: a message is       *)
(* stored at most once, and the backlog counter covers the lists.          *)
(***************************************************************************)
EXTENDS IngestQueue, SequenceTheorems, DataLemmas

-----------------------------------------------------------------------------
(* Sequences.                                                              *)

LEMMA SingletonSeq ==
  ASSUME NEW V, NEW e \in V
  PROVE  /\ <<e>> \in Seq(V) /\ Len(<<e>>) = 1
         /\ <<e>>[1] = e /\ Range(<<e>>) = {e}
<1>1. <<e>> \in Seq(V) /\ Len(<<e>>) = 1 /\ <<e>>[1] = e /\ DOMAIN <<e>> = 1 .. 1
  OBVIOUS
<1> QED BY <1>1 DEF Range

\* A value is in the range where it is at an index.
LEMMA RangeAt ==
  ASSUME NEW V, NEW s \in Seq(V), NEW i \in 1 .. Len(s)
  PROVE  s[i] \in Range(s) /\ s[i] \in V
BY DEF Range

LEMMA FrontLast ==
  ASSUME NEW V, NEW s \in Seq(V), s # <<>>
  PROVE  /\ Len(s) \in Nat \ {0}
         /\ Front(s) \in Seq(V) /\ Len(Front(s)) = Len(s) - 1
         /\ \A i \in 1 .. Len(s) - 1 : Front(s)[i] = s[i]
         /\ Last(s) = s[Len(s)] /\ Last(s) \in V
         /\ Range(s) = Range(Front(s)) \cup {Last(s)}
<1>1. Len(s) \in Nat \ {0} /\ DOMAIN s = 1 .. Len(s)
  BY EmptySeq, LenProperties
<1>2. /\ Front(s) \in Seq(V) /\ Len(Front(s)) = Len(s) - 1
      /\ \A i \in 1 .. Len(s) - 1 : Front(s)[i] = s[i]
  <2>1. \A i \in 1 .. Len(s) - 1 : s[i] \in V
    BY <1>1
  <2>2. 1 \in Int /\ Len(s) - 1 \in Int
    BY <1>1
  <2>3. /\ SubSeq(s, 1, Len(s) - 1) \in Seq(V)
        /\ Len(SubSeq(s, 1, Len(s) - 1)) =
             IF 1 =< Len(s) - 1 THEN Len(s) - 1 - 1 + 1 ELSE 0
        /\ \A i \in 1 .. Len(s) - 1 - 1 + 1 : SubSeq(s, 1, Len(s) - 1)[i] = s[1 + i - 1]
    BY <2>1, <2>2, SubSeqProperties
  <2> QED BY <1>1, <2>3 DEF Front
<1>3. Last(s) = s[Len(s)] /\ Last(s) \in V
  BY <1>1 DEF Last
<1>4. DOMAIN Front(s) = 1 .. Len(s) - 1
  BY <1>2, LenProperties
<1>5. Range(s) = Range(Front(s)) \cup {Last(s)}
  <2>1. 1 .. Len(s) = (1 .. Len(s) - 1) \cup {Len(s)}
    BY <1>1
  <2> QED BY <1>1, <1>2, <1>3, <1>4, <2>1 DEF Range
<1> QED BY <1>1, <1>2, <1>3, <1>5

LEMMA HeadTail ==
  ASSUME NEW V, NEW s \in Seq(V), s # <<>>
  PROVE  /\ Len(s) \in Nat \ {0}
         /\ Tail(s) \in Seq(V) /\ Len(Tail(s)) = Len(s) - 1
         /\ \A i \in 1 .. Len(s) - 1 : Tail(s)[i] = s[i + 1]
         /\ Head(s) = s[1] /\ Head(s) \in V
         /\ Range(s) = Range(Tail(s)) \cup {Head(s)}
<1>1. Len(s) \in Nat \ {0} /\ DOMAIN s = 1 .. Len(s)
  BY EmptySeq, LenProperties
<1>2. /\ Tail(s) \in Seq(V) /\ Len(Tail(s)) = Len(s) - 1
      /\ \A i \in 1 .. Len(s) - 1 : Tail(s)[i] = s[i + 1]
      /\ Head(s) = s[1] /\ Head(s) \in V
  BY HeadTailProperties
<1>3. DOMAIN Tail(s) = 1 .. Len(s) - 1
  BY <1>2, LenProperties
<1>4. \A i \in 1 .. Len(s) : i = 1 \/ (i - 1 \in 1 .. Len(s) - 1 /\ s[i] = Tail(s)[i - 1])
  BY <1>1, <1>2
<1>5. \A i \in 1 .. Len(s) - 1 : i + 1 \in 1 .. Len(s)
  BY <1>1
<1>6. 1 \in 1 .. Len(s)
  BY <1>1
<1>7. Range(s) \subseteq Range(Tail(s)) \cup {Head(s)}
  <2> SUFFICES ASSUME NEW i \in 1 .. Len(s)
               PROVE  s[i] \in Range(Tail(s)) \cup {Head(s)}
    BY <1>1 DEF Range
  <2>1. CASE i = 1
    BY <1>2, <2>1
  <2>2. CASE i # 1
    BY <1>3, <1>4, <2>2 DEF Range
  <2> QED BY <2>1, <2>2
<1>8. Range(Tail(s)) \cup {Head(s)} \subseteq Range(s)
  BY <1>1, <1>2, <1>3, <1>5, <1>6 DEF Range
<1> QED BY <1>1, <1>2, <1>7, <1>8

\* Removing an element by value takes its first occurrence, and nothing else.
LEMMA RemoveFirstProperties ==
  ASSUME NEW V, NEW s \in Seq(V), NEW e
  PROVE  /\ RemoveFirst(s, e) \in Seq(V)
         /\ Contains(s, e) <=> e \in Range(s)
         /\ e \notin Range(s) => RemoveFirst(s, e) = s
         /\ e \in Range(s) => \E k \in 1 .. Len(s) :
              /\ s[k] = e
              /\ Len(RemoveFirst(s, e)) = Len(s) - 1
              /\ \A i \in 1 .. Len(s) - 1 :
                   RemoveFirst(s, e)[i] = IF i < k THEN s[i] ELSE s[i + 1]
<1>1. Len(s) \in Nat /\ DOMAIN s = 1 .. Len(s) /\ \A i \in 1 .. Len(s) : s[i] \in V
  BY LenProperties
<1>2. Contains(s, e) <=> e \in Range(s)
  BY <1>1 DEF Contains, Range
<1>3. e \notin Range(s) => RemoveFirst(s, e) = s
  BY <1>2 DEF Contains, RemoveFirst
<1>4. ASSUME e \in Range(s)
      PROVE  /\ RemoveFirst(s, e) \in Seq(V)
             /\ \E k \in 1 .. Len(s) :
                  /\ s[k] = e
                  /\ Len(RemoveFirst(s, e)) = Len(s) - 1
                  /\ \A i \in 1 .. Len(s) - 1 :
                       RemoveFirst(s, e)[i] = IF i < k THEN s[i] ELSE s[i + 1]
  <2> DEFINE I == {i \in 1 .. Len(s) : s[i] = e}
             k == Min(I)
  <2>1. I # {} /\ I \in SUBSET Int
    BY <1>1, <1>4 DEF Range
  <2>2. IsFiniteSet(I)
    <3>1. IsFiniteSet(1 .. Len(s))
      BY <1>1, FS_Interval
    <3> QED BY <3>1, FS_Subset
  <2>3. k \in I
    <3> HIDE DEF I
    <3> QED BY <2>1, <2>2, MinMaxProperties
  <2>4. RemoveFirst(s, e) = SubSeq(s, 1, k - 1) \o SubSeq(s, k + 1, Len(s))
    BY <1>2, <1>4, <2>1 DEF RemoveFirst, RemoveAt, SelectInSeq, Contains
  <2> HIDE DEF k
  <2>5. k \in 1 .. Len(s) /\ s[k] = e
    BY <2>3
  <2> DEFINE a == SubSeq(s, 1, k - 1)
             b == SubSeq(s, k + 1, Len(s))
  <2>6. /\ a \in Seq(V) /\ Len(a) = k - 1
        /\ \A i \in 1 .. k - 1 : a[i] = s[i]
    <3>1. /\ a \in Seq(V)
          /\ Len(a) = IF 1 =< k - 1 THEN k - 1 - 1 + 1 ELSE 0
          /\ \A i \in 1 .. k - 1 - 1 + 1 : a[i] = s[1 + i - 1]
      BY <1>1, <2>5, SubSeqProperties
    <3> QED BY <1>1, <2>5, <3>1
  <2>7. /\ b \in Seq(V) /\ Len(b) = Len(s) - k
        /\ \A i \in 1 .. Len(s) - k : b[i] = s[k + i]
    <3>1. /\ b \in Seq(V)
          /\ Len(b) = IF k + 1 =< Len(s) THEN Len(s) - (k + 1) + 1 ELSE 0
          /\ \A i \in 1 .. Len(s) - (k + 1) + 1 : b[i] = s[k + 1 + i - 1]
      BY <1>1, <2>5, SubSeqProperties
    <3>2. ASSUME NEW i \in 1 .. Len(s) - k PROVE b[i] = s[k + i]
      <4>1. i \in 1 .. Len(s) - (k + 1) + 1 /\ k + 1 + i - 1 = k + i
        BY <1>1, <2>5
      <4>2. b[i] = s[k + 1 + i - 1]
        BY <3>1, <4>1
      <4> QED BY <4>1, <4>2
    <3>3. Len(b) = Len(s) - k
      <4>1. k \in 1 .. Len(s) /\ Len(s) \in Nat
        BY <1>1, <2>5
      <4>2. IF k + 1 =< Len(s) THEN Len(b) = Len(s) - (k + 1) + 1 ELSE Len(b) = 0
        BY <3>1
      <4> HIDE DEF b
      <4> QED BY <4>1, <4>2
    <3> QED BY <3>1, <3>2, <3>3
  <2> HIDE DEF a, b
  <2>8. /\ a \o b \in Seq(V) /\ Len(a \o b) = Len(a) + Len(b)
        /\ \A i \in 1 .. Len(a) + Len(b) :
             (a \o b)[i] = IF i =< Len(a) THEN a[i] ELSE b[i - Len(a)]
    BY <2>6, <2>7, ConcatProperties
  <2>9. RemoveFirst(s, e) = a \o b
    BY <2>4 DEF a, b
  <2>10. ASSUME NEW i \in 1 .. Len(s) - 1
         PROVE  (a \o b)[i] = IF i < k THEN s[i] ELSE s[i + 1]
    <3>1. i \in 1 .. Len(a) + Len(b) /\ k \in Nat
      BY <1>1, <2>5, <2>6, <2>7
    <3>2. CASE i < k
      <4>1. i =< Len(a) /\ i \in 1 .. k - 1
        BY <2>5, <2>6, <3>1, <3>2
      <4> QED BY <2>6, <2>8, <3>1, <3>2, <4>1
    <3>3. CASE ~(i < k)
      <4>1. ~(i =< Len(a)) /\ i - Len(a) \in 1 .. Len(s) - k /\ k + (i - Len(a)) = i + 1
        BY <1>1, <2>5, <2>6, <3>1, <3>3
      <4>2. b[i - Len(a)] = s[k + (i - Len(a))]
        BY <2>7, <4>1
      <4> QED BY <2>8, <3>1, <3>3, <4>1, <4>2
    <3> QED BY <3>2, <3>3
  <2>11. Len(a \o b) = Len(s) - 1
    BY <1>1, <2>5, <2>6, <2>7, <2>8
  <2> QED BY <2>5, <2>8, <2>9, <2>10, <2>11
<1> QED BY <1>2, <1>3, <1>4

-----------------------------------------------------------------------------
(* What the invariants speak of. *)

\* What may be retried: everything in the two lists and in a batch.
Ready == [id: Message, retry: 0 .. MaxRetries]

\* How the local state of a worker follows its pc.
LocalShape(l) ==
  /\ l.items \in Seq(Ready)
  /\ Len(l.hand) =< 1
  /\ l.pc = "idle" => l.items = <<>>
  /\ l.pc = "hold" => l.hand \in Seq(Ready) /\ l.hand # <<>>
  /\ l.hand # <<>> => l.pc \in {"hold", "decr", "clamp", "park"}
  /\ l.pc = "ack_each" => l.left =< Len(l.items)

ListsTyped == queue \in Seq(Ready) /\ proc \in Seq(Ready)

\* The list of dead letters is trimmed to DeadLetterMax by every push but that
\* of a redrive that puts back what it took.
DeadTyped ==
  /\ dead \in Seq(Payload) /\ admin \in Seq(Payload)
  /\ Len(admin) =< 1
  /\ Len(dead) + Len(admin) =< DeadLetterMax + 1

WorkersTyped ==
  /\ worker \in [Worker -> Local]
  /\ \A w \in Worker : LocalShape(worker[w])

HistoryTyped ==
  /\ backlog \in Int
  /\ accepted \subseteq offered /\ offered \subseteq Message
  /\ stored \in [Message -> 0 .. 2]
  /\ discarded \subseteq Message

BoundsTyped ==
  /\ faults \in 0 .. MaxFaults
  /\ happened \subseteq Faults
  /\ redrives \in 0 .. MaxRedrives

\* The inductive form of TypeOK.
Typed == ListsTyped /\ DeadTyped /\ WorkersTyped /\ HistoryTyped /\ BoundsTyped

\* Only what is stored is removed from the processing list.
AckedStored ==
  \A w \in Worker : worker[w].pc \in {"ack", "ack_each"} =>
    \A m \in Ids(worker[w].items) : stored[m] > 0

\* Where a message can be that is not stored.
Held == Buffered \cup InHand \cup Ids(dead) \cup discarded

\* A step takes a message from there only when it is stored.
Keeps ==
  "window" \notin happened' =>
    \A m \in Message : m \in Held => m \in Held' \/ stored'[m] > 0

-----------------------------------------------------------------------------
(* One worker.                                                             *)

NoDup(s) == \A i, j \in DOMAIN s : s[i].id = s[j].id => i = j

HandIds == UNION {Ids(worker[w].hand) : w \in Worker}

\* A message is in one place only.
OnePlace ==
  /\ NoDup(queue) /\ NoDup(proc) /\ NoDup(dead)
  /\ Ids(queue) \cap Ids(proc) = {}
  /\ (Ids(queue) \cup Ids(proc)) \cap Ids(dead) = {}
  /\ (Ids(queue) \cup Ids(proc) \cup Ids(dead)) \cap Ids(admin) = {}
  /\ (Ids(queue) \cup Ids(proc) \cup Ids(dead) \cup Ids(admin)) \cap HandIds = {}
  /\ Ids(queue) \cup Ids(proc) \cup Ids(dead) \cup Ids(admin) \cup HandIds
       \subseteq offered

\* The batch of the worker is still in the processing list p.
BatchThere(l, p) ==
  /\ NoDup(l.items)
  /\ l.pc \in {"fetch", "commit", "ack"} => Range(l.items) \subseteq Range(p)
  /\ l.pc \in {"idle", "fetch", "commit", "ack"} => l.amount = 0

\* What the worker will still take off the counter, or put back into a list.
Credit(l) == IF l.pc = "hold" THEN 1
             ELSE IF l.pc \in {"ack_each", "decr"} THEN l.amount ELSE 0

\* The counter covers that too, so that it is never clamped.
Covered(l) == l.pc # "clamp" /\ Len(queue) + Len(proc) + Credit(l) =< backlog

Settled == \A w \in Worker : BatchThere(worker[w], proc) /\ Covered(worker[w])

Alone == "redrive" \notin happened => OnePlace /\ Settled

\* Every message that is in a list or in hand.
Everywhere == Ids(queue) \cup Ids(proc) \cup Ids(dead) \cup Ids(admin) \cup HandIds

\* What is anywhere but in an acknowledgement is not stored.
NotYet ==
  /\ \A m \in Message \ offered : stored[m] = 0
  /\ \A m \in Ids(queue) \cup Ids(dead) \cup Ids(admin) \cup HandIds : stored[m] = 0
  /\ \A w \in Worker : \A m \in Ids(proc) :
       stored[m] = 0 \/ (worker[w].pc = "ack" /\ m \in Ids(worker[w].items))
  /\ \A w \in Worker : worker[w].pc # "ack_each"

Calm == happened \subseteq {"pg"} => NotYet /\ IdempotentPerBatch

-----------------------------------------------------------------------------
(* Lists of messages.                                                      *)

LEMMA IdsRange ==
  ASSUME NEW V, NEW s \in Seq(V)
  PROVE  Ids(s) = {e.id : e \in Range(s)}
BY DEF Ids, Range

LEMMA NoDupRange ==
  ASSUME NEW V, NEW s \in Seq(V), NoDup(s), NEW e \in Range(s), NEW f \in Range(s),
         e.id = f.id
  PROVE  e = f
BY DEF NoDup, Range

LEMMA SingletonIds ==
  ASSUME NEW V, NEW e \in V
  PROVE  /\ <<e>> \in Seq(V) /\ Len(<<e>>) = 1 /\ Range(<<e>>) = {e}
         /\ Ids(<<e>>) = {e.id} /\ NoDup(<<e>>)
<1>1. <<e>> \in Seq(V) /\ Len(<<e>>) = 1 /\ Range(<<e>>) = {e}
  BY SingletonSeq
<1>2. DOMAIN <<e>> = 1 .. 1
  OBVIOUS
<1>3. Ids(<<e>>) = {e.id}
  <2>1. Ids(<<e>>) = {f.id : f \in Range(<<e>>)}
    BY <1>1, IdsRange
  <2> QED BY <1>1, <2>1
<1>4. NoDup(<<e>>)
  BY <1>2 DEF NoDup
<1> QED BY <1>1, <1>3, <1>4

LEMMA EmptyIds ==
  /\ \A V : <<>> \in Seq(V)
  /\ Len(<<>>) = 0 /\ Range(<<>>) = {} /\ Ids(<<>>) = {} /\ NoDup(<<>>)
<1>1. DOMAIN <<>> = {}
  OBVIOUS
<1> QED BY <1>1 DEF Range, Ids, NoDup

LEMMA ConcatIds ==
  ASSUME NEW V, NEW s \in Seq(V), NEW t \in Seq(V)
  PROVE  /\ s \o t \in Seq(V) /\ Len(s \o t) = Len(s) + Len(t)
         /\ Range(s \o t) = Range(s) \cup Range(t)
         /\ Ids(s \o t) = Ids(s) \cup Ids(t)
         /\ NoDup(s) /\ NoDup(t) /\ Ids(s) \cap Ids(t) = {} => NoDup(s \o t)
<1>1. /\ s \o t \in Seq(V) /\ Len(s \o t) = Len(s) + Len(t)
      /\ \A i \in 1 .. Len(s) + Len(t) :
           (s \o t)[i] = IF i =< Len(s) THEN s[i] ELSE t[i - Len(s)]
  BY ConcatProperties
<1>2. Range(s \o t) = Range(s) \cup Range(t)
  BY RangeConcatenation
<1>3. Ids(s \o t) = Ids(s) \cup Ids(t)
  <2>0. s \o t \in Seq(V)
    BY <1>1
  <2>1. Ids(s \o t) = {e.id : e \in Range(s \o t)}
    BY <2>0, IdsRange
  <2>2. Ids(s) = {e.id : e \in Range(s)} /\ Ids(t) = {e.id : e \in Range(t)}
    BY IdsRange
  <2> QED BY <1>2, <2>1, <2>2
<1>4. ASSUME NoDup(s), NoDup(t), Ids(s) \cap Ids(t) = {} PROVE NoDup(s \o t)
  <2>1. /\ Len(s) \in Nat /\ DOMAIN s = 1 .. Len(s)
        /\ Len(t) \in Nat /\ DOMAIN t = 1 .. Len(t)
        /\ DOMAIN (s \o t) = 1 .. Len(s) + Len(t)
    BY <1>1, LenProperties
  <2> SUFFICES ASSUME NEW i \in 1 .. Len(s) + Len(t), NEW j \in 1 .. Len(s) + Len(t),
                      (s \o t)[i].id = (s \o t)[j].id
               PROVE  i = j
    BY <2>1 DEF NoDup
  <2>2. \A n \in 1 .. Len(s) + Len(t) : n =< Len(s) =>
          n \in DOMAIN s /\ (s \o t)[n].id = s[n].id /\ (s \o t)[n].id \in Ids(s)
    BY <1>1, <2>1 DEF Ids
  <2>3. \A n \in 1 .. Len(s) + Len(t) : ~(n =< Len(s)) =>
          /\ n - Len(s) \in DOMAIN t /\ (s \o t)[n].id = t[n - Len(s)].id
          /\ (s \o t)[n].id \in Ids(t)
    BY <1>1, <2>1 DEF Ids
  <2>4. i =< Len(s) <=> j =< Len(s)
    BY <1>4, <2>2, <2>3
  <2>5. CASE i =< Len(s)
    BY <1>4, <2>2, <2>4, <2>5 DEF NoDup
  <2>6. CASE ~(i =< Len(s))
    <3>1. i - Len(s) = j - Len(s)
      BY <1>4, <2>3, <2>4, <2>6 DEF NoDup
    <3> QED BY <2>1, <3>1
  <2> QED BY <2>5, <2>6
<1> QED BY <1>1, <1>2, <1>3, <1>4

\* LPUSH of one message.
LEMMA PushIds ==
  ASSUME NEW V, NEW s \in Seq(V), NEW e \in V
  PROVE  /\ <<e>> \o s \in Seq(V) /\ Len(<<e>> \o s) = Len(s) + 1
         /\ Range(<<e>> \o s) = Range(s) \cup {e}
         /\ Ids(<<e>> \o s) = Ids(s) \cup {e.id}
         /\ NoDup(s) /\ e.id \notin Ids(s) => NoDup(<<e>> \o s)
<1> DEFINE t == <<e>>
<1>1. t \in Seq(V) /\ Len(t) = 1 /\ Range(t) = {e} /\ Ids(t) = {e.id} /\ NoDup(t)
  BY SingletonIds
<1>2. Len(s) \in Nat
  BY LenProperties
<1> HIDE DEF t
<1>3. /\ t \o s \in Seq(V) /\ Len(t \o s) = Len(t) + Len(s)
      /\ Range(t \o s) = Range(t) \cup Range(s)
      /\ Ids(t \o s) = Ids(t) \cup Ids(s)
      /\ NoDup(t) /\ NoDup(s) /\ Ids(t) \cap Ids(s) = {} => NoDup(t \o s)
  BY <1>1, ConcatIds
<1>4. e.id \notin Ids(s) => Ids(t) \cap Ids(s) = {}
  BY <1>1
<1> QED BY <1>1, <1>2, <1>3, <1>4 DEF t

\* RPUSH of one message.
LEMMA AppendIds ==
  ASSUME NEW V, NEW s \in Seq(V), NEW e \in V
  PROVE  /\ Append(s, e) \in Seq(V) /\ Len(Append(s, e)) = Len(s) + 1
         /\ Range(Append(s, e)) = Range(s) \cup {e}
         /\ Ids(Append(s, e)) = Ids(s) \cup {e.id}
         /\ NoDup(s) /\ e.id \notin Ids(s) => NoDup(Append(s, e))
<1> DEFINE t == <<e>>
<1>1. t \in Seq(V) /\ Len(t) = 1 /\ Range(t) = {e} /\ Ids(t) = {e.id} /\ NoDup(t)
  BY SingletonIds
<1>2. Len(s) \in Nat /\ Append(s, e) = s \o t
  BY LenProperties, AppendIsConcat
<1> HIDE DEF t
<1>3. /\ s \o t \in Seq(V) /\ Len(s \o t) = Len(s) + Len(t)
      /\ Range(s \o t) = Range(s) \cup Range(t)
      /\ Ids(s \o t) = Ids(s) \cup Ids(t)
      /\ NoDup(s) /\ NoDup(t) /\ Ids(s) \cap Ids(t) = {} => NoDup(s \o t)
  BY <1>1, ConcatIds
<1>4. e.id \notin Ids(s) => Ids(s) \cap Ids(t) = {}
  BY <1>1
<1> QED BY <1>1, <1>2, <1>3, <1>4

LEMMA FrontIds ==
  ASSUME NEW V, NEW s \in Seq(V), s # <<>>
  PROVE  /\ Len(s) \in Nat \ {0}
         /\ Front(s) \in Seq(V) /\ Len(Front(s)) = Len(s) - 1
         /\ Last(s) \in V
         /\ Range(s) = Range(Front(s)) \cup {Last(s)}
         /\ Ids(s) = Ids(Front(s)) \cup {Last(s).id}
         /\ NoDup(s) => NoDup(Front(s)) /\ Last(s).id \notin Ids(Front(s))
<1>1. /\ Len(s) \in Nat \ {0} /\ DOMAIN s = 1 .. Len(s)
      /\ Front(s) \in Seq(V) /\ Len(Front(s)) = Len(s) - 1
      /\ \A i \in 1 .. Len(s) - 1 : Front(s)[i] = s[i]
      /\ Last(s) = s[Len(s)] /\ Last(s) \in V
      /\ Range(s) = Range(Front(s)) \cup {Last(s)}
  BY FrontLast, LenProperties
<1>2. Ids(s) = Ids(Front(s)) \cup {Last(s).id}
  <2>0. Front(s) \in Seq(V) /\ Range(s) = Range(Front(s)) \cup {Last(s)}
    BY <1>1
  <2>1. Ids(s) = {e.id : e \in Range(s)}
    BY IdsRange
  <2>2. Ids(Front(s)) = {e.id : e \in Range(Front(s))}
    BY <2>0, IdsRange
  <2> QED BY <2>0, <2>1, <2>2
<1>3. DOMAIN Front(s) = 1 .. Len(s) - 1
  BY <1>1, LenProperties
<1>4. ASSUME NoDup(s) PROVE NoDup(Front(s)) /\ Last(s).id \notin Ids(Front(s))
  <2> DEFINE n == Len(s)
  <2>0. n \in Nat \ {0} /\ DOMAIN s = 1 .. n
    BY <1>1
  <2>1. \A i \in 1 .. n - 1 : i \in DOMAIN s /\ i # n
    <3> HIDE DEF n
    <3> QED BY <2>0
  <2>2. Len(s) \in DOMAIN s
    BY <1>1
  <2> QED BY <1>1, <1>3, <1>4, <2>1, <2>2 DEF NoDup, Ids
<1> QED BY <1>1, <1>2, <1>4

LEMMA TailIds ==
  ASSUME NEW V, NEW s \in Seq(V), s # <<>>
  PROVE  /\ Len(s) \in Nat \ {0}
         /\ Tail(s) \in Seq(V) /\ Len(Tail(s)) = Len(s) - 1
         /\ Head(s) \in V
         /\ Range(s) = Range(Tail(s)) \cup {Head(s)}
         /\ Ids(s) = Ids(Tail(s)) \cup {Head(s).id}
         /\ NoDup(s) => NoDup(Tail(s)) /\ Head(s).id \notin Ids(Tail(s))
<1>1. /\ Len(s) \in Nat \ {0} /\ DOMAIN s = 1 .. Len(s)
      /\ Tail(s) \in Seq(V) /\ Len(Tail(s)) = Len(s) - 1
      /\ \A i \in 1 .. Len(s) - 1 : Tail(s)[i] = s[i + 1]
      /\ Head(s) = s[1] /\ Head(s) \in V
      /\ Range(s) = Range(Tail(s)) \cup {Head(s)}
  BY HeadTail, LenProperties
<1>2. Ids(s) = Ids(Tail(s)) \cup {Head(s).id}
  <2>0. Tail(s) \in Seq(V) /\ Range(s) = Range(Tail(s)) \cup {Head(s)}
    BY <1>1
  <2>1. Ids(s) = {e.id : e \in Range(s)}
    BY IdsRange
  <2>2. Ids(Tail(s)) = {e.id : e \in Range(Tail(s))}
    BY <2>0, IdsRange
  <2> QED BY <2>0, <2>1, <2>2
<1>3. DOMAIN Tail(s) = 1 .. Len(s) - 1
  BY <1>1, LenProperties
<1>4. ASSUME NoDup(s) PROVE NoDup(Tail(s)) /\ Head(s).id \notin Ids(Tail(s))
  <2>1. \A i \in 1 .. Len(s) - 1 : i + 1 \in DOMAIN s /\ i + 1 # 1
    BY <1>1
  <2>2. 1 \in DOMAIN s
    BY <1>1
  <2>3. ASSUME NEW i \in DOMAIN Tail(s), NEW j \in DOMAIN Tail(s),
               Tail(s)[i].id = Tail(s)[j].id
        PROVE  i = j
    <3>1. s[i + 1].id = s[j + 1].id
      BY <1>1, <1>3, <2>3
    <3>2. i + 1 = j + 1
      BY <1>3, <1>4, <2>1, <3>1 DEF NoDup
    <3> QED BY <1>1, <1>3, <3>2
  <2> QED BY <1>1, <1>3, <1>4, <2>1, <2>2, <2>3 DEF NoDup, Ids
<1> QED BY <1>1, <1>2, <1>4

\* LTRIM keeps the newest DeadLetterMax messages.
LEMMA TrimIds ==
  ASSUME NEW V, NEW s \in Seq(V)
  PROVE  /\ Trim(s) \in Seq(V) /\ Len(Trim(s)) =< DeadLetterMax
         /\ Ids(Trim(s)) \subseteq Ids(s)
         /\ NoDup(s) => NoDup(Trim(s))
<1>1. Len(s) \in Nat /\ DOMAIN s = 1 .. Len(s) /\ \A i \in 1 .. Len(s) : s[i] \in V
  BY LenProperties
<1>2. DeadLetterMax \in Nat \ {0}
  BY IngestQueueAssumption DEF IngestQueueAssumption
<1>3. CASE Len(s) =< DeadLetterMax
  BY <1>3 DEF Trim
<1>4. CASE ~(Len(s) =< DeadLetterMax)
  <2> DEFINE k == Len(s) - DeadLetterMax
             t == SubSeq(s, k + 1, Len(s))
  <2>1. k \in Nat /\ k + 1 \in Int /\ Len(s) \in Int
    BY <1>1, <1>2, <1>4
  <2>2. Trim(s) = t
    BY <1>4 DEF Trim
  <2>3. \A i \in k + 1 .. Len(s) : s[i] \in V
    BY <1>1, <2>1
  <2> HIDE DEF k
  <2>4. /\ t \in Seq(V)
        /\ Len(t) = IF k + 1 =< Len(s) THEN Len(s) - (k + 1) + 1 ELSE 0
        /\ \A i \in 1 .. Len(s) - (k + 1) + 1 : t[i] = s[k + 1 + i - 1]
    BY <2>1, <2>3, SubSeqProperties
  <2> HIDE DEF t
  <2>5. Len(t) = DeadLetterMax
    BY <1>1, <1>2, <1>4, <2>1, <2>4 DEF k
  <2>6. DOMAIN t = 1 .. DeadLetterMax
    BY <2>4, <2>5, LenProperties
  <2>7. ASSUME NEW i \in DOMAIN t PROVE t[i] = s[k + i] /\ k + i \in DOMAIN s
    <3>1. i \in 1 .. Len(s) - (k + 1) + 1 /\ k + 1 + i - 1 = k + i /\ k + i \in DOMAIN s
      BY <1>1, <1>2, <1>4, <2>1, <2>6 DEF k
    <3>2. t[i] = s[k + 1 + i - 1]
      BY <2>4, <3>1
    <3> QED BY <3>1, <3>2
  <2>8. Ids(t) \subseteq Ids(s)
    BY <2>7 DEF Ids
  <2>9. ASSUME NoDup(s), NEW i \in DOMAIN t, NEW j \in DOMAIN t, t[i].id = t[j].id
        PROVE  i = j
    <3>1. k + i = k + j
      BY <2>7, <2>9 DEF NoDup
    <3> QED BY <2>1, <2>6, <3>1
  <2> QED BY <1>2, <2>2, <2>4, <2>5, <2>8, <2>9 DEF NoDup
<1> QED BY <1>3, <1>4

\* LREM of one message.
LEMMA RemoveFirstIds ==
  ASSUME NEW V, NEW s \in Seq(V), NEW e
  PROVE  /\ RemoveFirst(s, e) \in Seq(V)
         /\ Contains(s, e) <=> e \in Range(s)
         /\ e \notin Range(s) => RemoveFirst(s, e) = s
         /\ e \in Range(s) => Len(RemoveFirst(s, e)) = Len(s) - 1
         /\ Range(RemoveFirst(s, e)) \subseteq Range(s)
         /\ Range(s) \subseteq Range(RemoveFirst(s, e)) \cup {e}
         /\ NoDup(s) => NoDup(RemoveFirst(s, e)) /\ e \notin Range(RemoveFirst(s, e))
<1> DEFINE r == RemoveFirst(s, e)
           n == Len(s)
<1>1. /\ r \in Seq(V)
      /\ Contains(s, e) <=> e \in Range(s)
      /\ e \notin Range(s) => r = s
  BY RemoveFirstProperties
<1>2. n \in Nat /\ DOMAIN s = 1 .. n
  BY LenProperties
<1>3. ASSUME e \in Range(s)
      PROVE  /\ Len(r) = n - 1
             /\ Range(r) \subseteq Range(s)
             /\ Range(s) \subseteq Range(r) \cup {e}
             /\ NoDup(s) => NoDup(r) /\ e \notin Range(r)
  <2>1. PICK k \in 1 .. n :
          /\ s[k] = e
          /\ Len(r) = n - 1
          /\ \A i \in 1 .. n - 1 : r[i] = IF i < k THEN s[i] ELSE s[i + 1]
    BY <1>3, RemoveFirstProperties
  <2>2. DOMAIN r = 1 .. n - 1
    BY <1>1, <2>1, LenProperties
  <2> HIDE DEF r, n
  <2> DEFINE at(i) == IF i < k THEN i ELSE i + 1
  <2>3. \A i \in DOMAIN r : at(i) \in DOMAIN s /\ r[i] = s[at(i)] /\ at(i) # k
    BY <1>2, <2>1, <2>2
  <2>4. \A i, j \in DOMAIN r : at(i) = at(j) => i = j
    BY <1>2, <2>1, <2>2
  <2>5. ASSUME NEW i \in DOMAIN s, i # k PROVE \E j \in DOMAIN r : at(j) = i
    <3>1. CASE i < k
      <4>1. i \in DOMAIN r /\ at(i) = i
        BY <1>2, <2>1, <2>2, <3>1
      <4> QED BY <4>1
    <3>2. CASE ~(i < k)
      <4>1. i - 1 \in DOMAIN r /\ at(i - 1) = i
        BY <1>2, <2>1, <2>2, <2>5, <3>2
      <4> QED BY <4>1
    <3> QED BY <3>1, <3>2
  <2> HIDE DEF at
  <2>6. Range(r) \subseteq Range(s)
    BY <2>3 DEF Range
  <2>7. Range(s) \subseteq Range(r) \cup {e}
    BY <2>1, <2>3, <2>5 DEF Range
  <2>8. ASSUME NoDup(s) PROVE NoDup(r) /\ e \notin Range(r)
    <3>1. k \in DOMAIN s
      BY <1>2, <2>1
    <3> QED BY <2>1, <2>3, <2>4, <2>8, <3>1 DEF NoDup, Range
  <2> QED BY <2>1, <2>6, <2>7, <2>8
<1>4. ASSUME e \notin Range(s)
      PROVE  /\ Range(r) \subseteq Range(s)
             /\ Range(s) \subseteq Range(r) \cup {e}
             /\ NoDup(s) => NoDup(r) /\ e \notin Range(r)
  BY <1>1, <1>4
<1> QED BY <1>1, <1>3, <1>4

\* g is what remains of s after each subset of the LREMs.
Removal(g, s, items) ==
  /\ Removed(s, items) = g[DOMAIN items]
  /\ g[{}] = s
  /\ \A T \in SUBSET DOMAIN items : T # {} =>
       \E i \in T : g[T] = RemoveFirst(g[T \ {i}], items[i])

\* The MULTI of LREMs as a fold over the batch.
LEMMA RemovedFold ==
  ASSUME NEW V, NEW s \in Seq(V), NEW items \in Seq(V)
  PROVE  \E g \in [SUBSET DOMAIN items -> Seq(V)] : Removal(g, s, items)
<1> DEFINE S == DOMAIN items
           step == [a \in S \X Seq(V) |-> RemoveFirst(a[2], items[a[1]])]
           pick == [T \in SUBSET S |-> Max(T)]
           Fold(g) == [T \in SUBSET S |-> IF T = {} THEN s
                         ELSE RemoveFirst(g[T \ {Max(T)}], items[Max(T)])]
           fold == CHOOSE g : g = Fold(g)
<1>1. S \in SUBSET Int /\ IsFiniteSet(S)
  <2>1. S = 1 .. Len(items) /\ Len(items) \in Nat
    BY LenProperties
  <2> QED BY <2>1, FS_Interval
<1>2. \A T \in SUBSET S : T # {} => Max(T) \in T
  BY <1>1, FS_Subset, MinMaxProperties
<1>3. step \in [S \X Seq(V) -> Seq(V)]
  BY RemoveFirstIds
<1>4. Removed(s, items) = fold[S]
  BY DEF Removed, FoldLeft, MapThenFoldSet
<1>5. IsFold(S, Seq(V), s, step, pick)
  BY <1>1, <1>2, <1>3 DEF IsFold
<1>6. PICK g \in [SUBSET S -> Seq(V)] : Folds(g, S, s, step, pick)
  <2> HIDE DEF S, step, pick
  <2> QED BY <1>5, FoldExists
<1>7. \A T \in SUBSET S :
        g[T] = IF T = {} THEN s ELSE RemoveFirst(g[T \ {Max(T)}], items[Max(T)])
  <2> SUFFICES ASSUME NEW T \in SUBSET S, T # {}
               PROVE  g[T] = RemoveFirst(g[T \ {Max(T)}], items[Max(T)])
    BY <1>6 DEF Folds
  <2>1. Max(T) \in S /\ g[T \ {Max(T)}] \in Seq(V)
    BY <1>2
  <2>2. g[T] = step[<<Max(T), g[T \ {Max(T)}]>>]
    BY <1>6 DEF Folds
  <2> HIDE DEF S
  <2> QED BY <2>1, <2>2
<1>8. g = Fold(g)
  <2> HIDE DEF S
  <2> QED BY <1>7
<1>9. fold = Fold(fold)
  BY <1>8
<1>10. \A T \in SUBSET S :
         fold[T] = IF T = {} THEN s ELSE RemoveFirst(fold[T \ {Max(T)}], items[Max(T)])
  <2> HIDE DEF fold, S
  <2>1. \A T \in SUBSET S : Fold(fold)[T] =
          IF T = {} THEN s ELSE RemoveFirst(fold[T \ {Max(T)}], items[Max(T)])
    OBVIOUS
  <2> QED BY <1>9, <2>1
<1>11. DOMAIN fold = SUBSET S
  <2> HIDE DEF fold, S
  <2>1. DOMAIN Fold(fold) = SUBSET S
    OBVIOUS
  <2> QED BY <1>9, <2>1
<1> HIDE DEF fold, Fold, step, pick
<1>12. \A T \in SUBSET S : fold[T] \in Seq(V)
  <2> DEFINE P == {T \in SUBSET S : fold[T] \in Seq(V)}
  <2>1. {} \in P
    BY <1>10
  <2>2. ASSUME NEW T \in SUBSET S, T # {}
        PROVE  \E x \in T : T \ {x} \in P => T \in P
    <3> SUFFICES ASSUME T \ {Max(T)} \in P PROVE T \in P
      BY <1>2, <2>2
    <3>1. fold[T \ {Max(T)}] \in Seq(V)
      OBVIOUS
    <3>2. fold[T] = RemoveFirst(fold[T \ {Max(T)}], items[Max(T)])
      BY <1>10, <2>2
    <3> QED BY <3>1, <3>2, RemoveFirstIds
  <2>3. \A T \in SUBSET S : T \in P
    <3> HIDE DEF P, S
    <3> QED BY <1>1, <2>1, <2>2, SubsetInduction
  <2> QED BY <2>3
<1>13. fold \in [SUBSET S -> Seq(V)]
  <2>1. fold = [T \in SUBSET S |-> fold[T]]
    <3>1. fold = Fold(fold) /\ DOMAIN fold = SUBSET S
      BY <1>9, <1>11
    <3> QED BY <3>1 DEF Fold
  <2> HIDE DEF S
  <2> QED BY <1>12, <2>1
<1>14. \A T \in SUBSET S : T # {} =>
         \E i \in T : fold[T] = RemoveFirst(fold[T \ {i}], items[i])
  BY <1>2, <1>10
<1> QED BY <1>4, <1>10, <1>13, <1>14 DEF Removal

\* The MULTI takes nothing but the batch; of messages that are listed once it
\* takes all of the batch.
LEMMA RemovedIds ==
  ASSUME NEW V, NEW s \in Seq(V), NEW items \in Seq(V)
  PROVE  LET r == Removed(s, items) IN
         /\ r \in Seq(V)
         /\ Range(r) \subseteq Range(s)
         /\ Range(s) \subseteq Range(r) \cup Range(items)
         /\ NoDup(s) => NoDup(r) /\ Range(r) = Range(s) \ Range(items)
         /\ NoDup(s) /\ NoDup(items) /\ Range(items) \subseteq Range(s) =>
              Len(r) = Len(s) - Len(items)
<1> DEFINE S == DOMAIN items
           At(T) == {items[i] : i \in T}
<1>0. PICK g \in [SUBSET S -> Seq(V)] : Removal(g, s, items)
  BY RemovedFold
<1>1. /\ Removed(s, items) = g[S]
      /\ g[{}] = s
      /\ \A T \in SUBSET S : T # {} =>
           \E i \in T : g[T] = RemoveFirst(g[T \ {i}], items[i])
  BY <1>0 DEF Removal
<1> DEFINE Takes(T) ==
             /\ Range(g[T]) \subseteq Range(s)
             /\ Range(s) \subseteq Range(g[T]) \cup At(T)
             /\ NoDup(s) => NoDup(g[T]) /\ Range(g[T]) = Range(s) \ At(T)
             /\ NoDup(s) /\ NoDup(items) /\ Range(items) \subseteq Range(s) =>
                  Len(g[T]) = Len(s) - Cardinality(T)
           P == {T \in SUBSET S : Takes(T)}
<1>2. S = 1 .. Len(items) /\ Len(items) \in Nat
  BY LenProperties
<1>3. IsFiniteSet(S) /\ Cardinality(S) = Len(items)
  <2> DEFINE n == Len(items)
  <2>0. n \in Nat
    BY <1>2
  <2> HIDE DEF n
  <2>1. IsFiniteSet(1 .. n) /\ Cardinality(1 .. n) = IF 1 > n THEN 0 ELSE n - 1 + 1
    BY <2>0, FS_Interval
  <2>2. IsFiniteSet(1 .. n) /\ Cardinality(1 .. n) = n
    BY <2>0, <2>1
  <2> QED BY <1>2, <2>2 DEF n
<1>4. At(S) = Range(items)
  BY DEF Range
<1>5. {} \in P
  <2>1. Len(s) \in Nat /\ Cardinality({}) = 0
    BY LenProperties, FS_EmptySet
  <2> QED BY <1>1, <2>1
<1>6. ASSUME NEW T \in SUBSET S, T # {}
      PROVE  \E i \in T : T \ {i} \in P => T \in P
  <2>1. PICK i \in T : g[T] = RemoveFirst(g[T \ {i}], items[i])
    BY <1>1, <1>6
  <2> SUFFICES ASSUME T \ {i} \in P PROVE Takes(T)
    OBVIOUS
  <2> DEFINE U == T \ {i}
             e == items[i]
  <2>2. Takes(U) /\ g[U] \in Seq(V) /\ At(T) = At(U) \cup {e}
    OBVIOUS
  <2> HIDE DEF U, e, At, S, P
  <2>3. g[T] = RemoveFirst(g[U], e)
    BY <2>1 DEF U, e
  <2>4. /\ Range(g[T]) \subseteq Range(g[U])
        /\ Range(g[U]) \subseteq Range(g[T]) \cup {e}
        /\ NoDup(g[U]) => NoDup(g[T]) /\ e \notin Range(g[T])
        /\ e \in Range(g[U]) => Len(g[T]) = Len(g[U]) - 1
    <3> DEFINE u == g[U]
               t == g[T]
    <3>1. u \in Seq(V) /\ t = RemoveFirst(u, e)
      BY <2>2, <2>3
    <3> HIDE DEF u, t
    <3>2. /\ Range(t) \subseteq Range(u)
          /\ Range(u) \subseteq Range(t) \cup {e}
          /\ NoDup(u) => NoDup(t) /\ e \notin Range(t)
          /\ e \in Range(u) => Len(t) = Len(u) - 1
      BY <3>1, RemoveFirstIds
    <3> QED BY <3>2 DEF u, t
  <2>5. ASSUME NoDup(s), NoDup(items), Range(items) \subseteq Range(s)
        PROVE  Len(g[T]) = Len(s) - Cardinality(T)
    <3>1. e \in Range(items) /\ e \notin At(U)
      <4>1. i \in DOMAIN items /\ \A j \in U : j \in DOMAIN items /\ j # i
        BY DEF U, S
      <4> QED BY <2>5, <4>1 DEF At, e, NoDup, Range
    <3>2. e \in Range(g[U])
      BY <2>2, <2>5, <3>1
    <3>3. Len(g[T]) = Len(g[U]) - 1 /\ Len(g[U]) = Len(s) - Cardinality(U)
      BY <2>2, <2>4, <2>5, <3>2
    <3>4. IsFiniteSet(T) /\ Cardinality(T) \in Nat
      BY <1>3, FS_Subset, FS_CardinalityType
    <3>5. Cardinality(U) = Cardinality(T) - 1
      BY <3>4, FS_RemoveElement DEF U
    <3>6. Len(s) \in Nat
      BY LenProperties
    <3> QED BY <3>3, <3>4, <3>5, <3>6
  <2> QED BY <2>2, <2>4, <2>5
<1>7. Takes(S)
  <2>1. \A T \in SUBSET S : T \in P
    <3> HIDE DEF P, S
    <3> QED BY <1>3, <1>5, <1>6, SubsetInduction
  <2> QED BY <2>1
<1>8. g[S] \in Seq(V)
  OBVIOUS
<1> HIDE DEF S, At
<1> QED BY <1>1, <1>3, <1>4, <1>7, <1>8

LEMMA CopiesProperties ==
  ASSUME NEW V, NEW s \in Seq(V), NEW e
  PROVE  /\ Copies(s, e) \in Nat
         /\ NoDup(s) /\ e \in Range(s) => Copies(s, e) = 1
<1>1. DOMAIN s = 1 .. Len(s) /\ Len(s) \in Nat
  BY LenProperties
<1>2. IsFiniteSet(DOMAIN s)
  BY <1>1, FS_Interval
<1> DEFINE I == {i \in DOMAIN s : s[i] = e}
<1>3. IsFiniteSet(I)
  BY <1>2, FS_Subset
<1>4. ASSUME NoDup(s), e \in Range(s) PROVE Cardinality(I) = 1
  <2>1. PICK i \in DOMAIN s : s[i] = e
    BY <1>4 DEF Range
  <2>2. I = {i}
    BY <1>4, <2>1 DEF NoDup
  <2> QED BY <2>2, FS_Singleton
<1> QED BY <1>3, <1>4, FS_CardinalityType DEF Copies

\* removed_received, and what it is for a batch without equal payloads.
LEMMA ReceivedProperties ==
  ASSUME NEW V, NEW items \in Seq(V)
  PROVE  /\ RemovedReceived(items) \in Nat
         /\ NoDup(items) => RemovedReceived(items) =< Len(items)
<1> DEFINE S == Found(items)
           C == [i \in DOMAIN items |-> Copies(items, items[i])]
           pick == [T \in SUBSET S |-> CHOOSE x \in T : TRUE]
           step == [a \in S \X Nat |-> Copies(items, items[a[1]]) + a[2]]
           Fold(g) == [T \in SUBSET S |-> IF T = {} THEN 0
                         ELSE Copies(items, items[CHOOSE x \in T : TRUE])
                                + g[T \ {CHOOSE x \in T : TRUE}]]
           fold == CHOOSE g : g = Fold(g)
<1>1. S \subseteq DOMAIN items
  BY DEF Found
<1>2. DOMAIN items = 1 .. Len(items) /\ Len(items) \in Nat
  BY LenProperties
<1>3. IsFiniteSet(DOMAIN items) /\ Cardinality(DOMAIN items) = Len(items)
  <2>1. /\ IsFiniteSet(DOMAIN items)
        /\ Cardinality(DOMAIN items) =
             IF 1 > Len(items) THEN 0 ELSE Len(items) - 1 + 1
    BY <1>2, FS_Interval
  <2> QED BY <1>2, <2>1
<1>4. IsFiniteSet(S) /\ Cardinality(S) =< Len(items)
  BY <1>1, <1>3, FS_Subset
<1>5. RemovedReceived(items) = fold[S]
  BY DEF RemovedReceived, MapThenSumSet, MapThenFoldSet
<1>6. \A i \in S : Copies(items, items[i]) \in Nat
  BY CopiesProperties
<1> HIDE DEF S
<1>7. IsFold(S, Nat, 0, step, pick)
  BY <1>4, <1>6 DEF IsFold
<1>8. PICK g \in [SUBSET S -> Nat] : Folds(g, S, 0, step, pick)
  <2> HIDE DEF step, pick
  <2> QED BY <1>7, FoldExists
<1>9. ASSUME NEW T \in SUBSET S, T # {}, NEW x, x = CHOOSE y \in T : TRUE
      PROVE  g[T] = Copies(items, items[x]) + g[T \ {x}]
  <2>1. x \in T /\ pick[T] = x
    BY <1>9
  <2>2. g[T] = step[<<x, g[T \ {x}]>>]
    BY <1>8, <1>9, <2>1 DEF Folds
  <2>3. <<x, g[T \ {x}]>> \in S \X Nat
    BY <2>1
  <2> QED BY <2>2, <2>3
<1>10. g[{}] = 0
  BY <1>8 DEF Folds
<1>11. g = Fold(g)
  BY <1>9, <1>10
<1>12. fold = Fold(fold)
  BY <1>11
<1>13. \A T \in SUBSET S : Fold(fold)[T] =
         IF T = {} THEN 0 ELSE Copies(items, items[CHOOSE x \in T : TRUE])
                                 + fold[T \ {CHOOSE x \in T : TRUE}]
  <2> HIDE DEF fold
  <2> QED OBVIOUS
<1> HIDE DEF fold, Fold, step, pick
<1>14. fold[{}] = 0
  BY <1>12, <1>13
<1>15. ASSUME NEW T \in SUBSET S, T # {}
       PROVE  \E x \in T : fold[T] = Copies(items, items[x]) + fold[T \ {x}]
  BY <1>12, <1>13, <1>15
<1> DEFINE Sums(T) == /\ fold[T] \in Nat
                      /\ NoDup(items) => fold[T] = Cardinality(T)
           P == {T \in SUBSET S : Sums(T)}
<1>16. {} \in P
  BY <1>14, FS_EmptySet
<1>17. ASSUME NEW T \in SUBSET S, T # {}
       PROVE  \E x \in T : T \ {x} \in P => T \in P
  <2>1. PICK x \in T : fold[T] = Copies(items, items[x]) + fold[T \ {x}]
    BY <1>15, <1>17
  <2> SUFFICES ASSUME T \ {x} \in P PROVE Sums(T)
    OBVIOUS
  <2>2. Sums(T \ {x})
    OBVIOUS
  <2>3. Copies(items, items[x]) \in Nat /\ (NoDup(items) => Copies(items, items[x]) = 1)
    <3>1. items[x] \in Range(items)
      BY <1>1 DEF Range
    <3> QED BY <3>1, CopiesProperties
  <2>4. IsFiniteSet(T) /\ Cardinality(T) \in Nat
    BY <1>4, FS_Subset, FS_CardinalityType
  <2>5. Cardinality(T \ {x}) = Cardinality(T) - 1
    BY <2>4, FS_RemoveElement
  <2> HIDE DEF P
  <2> QED BY <2>1, <2>2, <2>3, <2>4, <2>5
<1>18. Sums(S)
  <2>1. \A T \in SUBSET S : T \in P
    <3> HIDE DEF P
    <3> QED BY <1>4, <1>16, <1>17, SubsetInduction
  <2> QED BY <2>1
<1> QED BY <1>4, <1>5, <1>18

-----------------------------------------------------------------------------
(* Types.                                                                  *)

LEMMA ReadyPayload ==
  /\ Ready \subseteq Payload
  /\ \A s \in Seq(Ready) : s \in Seq(Payload)
<1>1. Ready \subseteq Payload
  BY IngestQueueAssumption DEF IngestQueueAssumption, Ready, Payload
<1> QED BY <1>1, SeqMonotonic

LEMMA TypedTypeOK == Typed => TypeOK
<1> SUFFICES ASSUME Typed PROVE TypeOK
  OBVIOUS
<1>1. queue \in Seq(Payload) /\ proc \in Seq(Payload)
  BY ReadyPayload DEF Typed, ListsTyped
<1>2. Len(dead) =< DeadLetterMax + 1
  <2>1. Len(dead) \in Nat /\ Len(admin) \in Nat /\ DeadLetterMax \in Nat
    BY LenProperties, IngestQueueAssumption DEF Typed, DeadTyped, IngestQueueAssumption
  <2> QED BY <2>1 DEF Typed, DeadTyped
<1> QED
  BY <1>1, <1>2 DEF TypeOK, Typed, DeadTyped, WorkersTyped, HistoryTyped, BoundsTyped,
                    LocalShape

LEMMA FreshShape ==
  /\ Fresh \in Local /\ LocalShape(Fresh)
  /\ \A pc \in {"idle", "retry"} :
       [Fresh EXCEPT !.pc = pc] \in Local /\ LocalShape([Fresh EXCEPT !.pc = pc])
<1>1. <<>> \in Seq(Payload) /\ <<>> \in Seq(Ready) /\ Len(<<>>) = 0
  BY EmptyIds
<1>2. ASSUME NEW p \in {"startup", "idle", "retry"},
             NEW l, l = [pc |-> p, items |-> <<>>, left |-> 0, amount |-> 0, hand |-> <<>>]
      PROVE  l \in Local /\ LocalShape(l)
  <2>1. l.pc = p /\ l.items = <<>> /\ l.hand = <<>>
    BY <1>2
  <2>2. l \in Local
    BY <1>1, <1>2 DEF Local
  <2>3. LocalShape(l)
    BY <1>1, <2>1 DEF LocalShape
  <2> QED BY <2>2, <2>3
<1>3. Fresh = [pc |-> "startup", items |-> <<>>, left |-> 0, amount |-> 0, hand |-> <<>>]
  BY DEF Fresh
<1>4. ASSUME NEW p \in {"idle", "retry"}
      PROVE  [Fresh EXCEPT !.pc = p] =
               [pc |-> p, items |-> <<>>, left |-> 0, amount |-> 0, hand |-> <<>>]
  BY DEF Fresh
<1> QED BY <1>2, <1>3, <1>4

LEMMA DecrShape ==
  ASSUME NEW n \in Nat
  PROVE  /\ [Fresh EXCEPT !.pc = "decr", !.amount = n] \in Local
         /\ LocalShape([Fresh EXCEPT !.pc = "decr", !.amount = n])
<1> DEFINE l == [Fresh EXCEPT !.pc = "decr", !.amount = n]
<1>1. l \in Local
  BY FreshShape DEF Local
<1>2. l.pc = "decr" /\ l.items = <<>> /\ l.hand = <<>>
  BY DEF Fresh
<1>3. <<>> \in Seq(Ready) /\ Len(<<>>) = 0
  BY EmptyIds
<1>4. LocalShape(l)
  <2> HIDE DEF l
  <2> QED BY <1>2, <1>3 DEF LocalShape
<1> QED BY <1>1, <1>4

LEMMA WorkerUpdate ==
  ASSUME WorkersTyped, NEW w \in Worker, NEW l \in Local, LocalShape(l),
         worker' = [worker EXCEPT ![w] = l]
  PROVE  WorkersTyped'
<1> HIDE DEF Local, LocalShape
<1> QED BY DEF WorkersTyped

LEMMA IdleTyped ==
  ASSUME WorkersTyped, NEW w \in Worker, Idle(w) \/ RetryLoop(w)
  PROVE  WorkersTyped'
<1>1. CASE Idle(w)
  BY <1>1, FreshShape, WorkerUpdate DEF Idle
<1>2. CASE RetryLoop(w)
  BY <1>2, FreshShape, WorkerUpdate DEF RetryLoop
<1> QED BY <1>1, <1>2

\* A worker that only moves on keeps its data.
LEMMA GotoTyped ==
  ASSUME WorkersTyped, NEW w \in Worker,
         NEW pc \in {"commit", "ack", "clamp", "park"}, Goto(w, pc),
         worker[w].hand = <<>> \/ pc \in {"clamp", "park"}
  PROVE  WorkersTyped'
<1> DEFINE l == [worker[w] EXCEPT !.pc = pc]
<1>1. worker[w] \in Local /\ LocalShape(worker[w])
  BY DEF WorkersTyped
<1>2. l \in Local
  BY <1>1 DEF Local
<1>3. LocalShape(l)
  BY <1>1, <1>2 DEF Local, LocalShape
<1>4. worker' = [worker EXCEPT ![w] = l]
  BY DEF Goto, WorkersTyped
<1> HIDE DEF l
<1> QED BY <1>2, <1>3, <1>4, WorkerUpdate

LEMMA ResumeTyped ==
  ASSUME WorkersTyped, NEW w \in Worker, Resume(w)
  PROVE  WorkersTyped'
<1>1. CASE worker[w].hand = <<>>
  BY <1>1, IdleTyped DEF Resume
<1>2. CASE worker[w].hand # <<>>
  BY <1>2, GotoTyped DEF Resume
<1> QED BY <1>1, <1>2

LEMMA FaultTyped ==
  ASSUME BoundsTyped, UNCHANGED redrives, NoFault \/ \E kind \in FaultKind : Fault(kind)
  PROVE  BoundsTyped'
BY IngestQueueAssumption DEF IngestQueueAssumption, BoundsTyped, NoFault, Fault

LEMMA StoreTyped ==
  ASSUME stored \in [Message -> 0 .. 2], NEW ids
  PROVE  /\ Store(ids) \in [Message -> 0 .. 2]
         /\ \A m \in Message : Store(ids)[m] >= stored[m]
         /\ \A m \in Message : m \in ids => Store(ids)[m] > 0
BY DEF Store

LEMMA NewReady ==
  ASSUME NEW m \in Message
  PROVE  [id |-> m, retry |-> 0] \in Ready
BY IngestQueueAssumption DEF IngestQueueAssumption, Ready

LEMMA PushReady ==
  ASSUME NEW e \in Ready, NEW s \in Seq(Ready)
  PROVE  <<e>> \o s \in Seq(Ready) /\ Append(s, e) \in Seq(Ready)
BY SingletonIds, ConcatIds, AppendProperties

LEMMA AdminReady ==
  ASSUME DeadTyped, admin # <<>>
  PROVE  Requeued \in Ready /\ Len(admin) = 1 /\ admin = <<Head(admin)>>
<1>1. /\ Len(admin) = 1 /\ admin[1] \in Payload /\ Head(admin) = admin[1]
      /\ admin \in Seq(Payload)
  <2>1. admin \in Seq(Payload) /\ Len(admin) =< 1
    BY DEF DeadTyped
  <2>2. Len(admin) \in Nat \ {0} /\ Head(admin) = admin[1] /\ Head(admin) \in Payload
    BY <2>1, HeadTail
  <2> QED BY <2>1, <2>2
<1>2. Requeued \in Ready
  BY <1>1, NewReady DEF Requeued, Payload
<1>3. admin = <<Head(admin)>>
  BY <1>1
<1> QED BY <1>1, <1>2, <1>3

LEMMA ApiTyped ==
  ASSUME Typed, NEW m \in Message, Accept(m) \/ AcceptDirectly(m)
  PROVE  Typed'
<1> USE DEF Typed, DeadTyped
<1>1. Append(queue, [id |-> m, retry |-> 0]) \in Seq(Ready) /\ backlog + 1 \in Int
  BY NewReady, PushReady DEF ListsTyped, HistoryTyped
<1>2. CASE Accept(m)
  BY <1>1, <1>2 DEF Accept, bounds, ListsTyped, WorkersTyped, HistoryTyped, BoundsTyped
<1>3. CASE AcceptDirectly(m)
  <2>1. ListsTyped' /\ DeadTyped' /\ WorkersTyped'
    BY <1>1, <1>3 DEF AcceptDirectly, ListsTyped, WorkersTyped
  <2>2. HistoryTyped'
    <3>1. stored' \in [Message -> 0 .. 2]
      BY <1>3, StoreTyped DEF AcceptDirectly, HistoryTyped
    <3> QED BY <1>1, <1>3, <3>1 DEF AcceptDirectly, HistoryTyped
  <2>3. BoundsTyped'
    BY <1>3, FaultTyped DEF AcceptDirectly, FaultKind
  <2> QED BY <2>1, <2>2, <2>3
<1> QED BY <1>2, <1>3

LEMMA LoopTyped ==
  ASSUME Typed, NEW w \in Worker,
         Startup(w) \/ StartupEnds(w) \/ Fetch(w) \/ FetchEnds(w) \/ FetchFails(w)
  PROVE  Typed'
<1> USE DEF Typed, lists, history, bounds
<1>0. worker[w] \in Local /\ LocalShape(worker[w])
  BY DEF WorkersTyped
<1>1. CASE Startup(w)
  <2>1. ListsTyped'
    BY <1>1, FrontIds, PushReady DEF Startup, PushBack, ListsTyped
  <2> QED BY <1>1, <2>1 DEF Startup, DeadTyped, WorkersTyped, HistoryTyped, BoundsTyped
<1>2. CASE StartupEnds(w)
  <2>1. WorkersTyped'
    BY <1>2, IdleTyped DEF StartupEnds
  <2>2. BoundsTyped'
    BY <1>2, FaultTyped DEF StartupEnds, FaultKind
  <2> QED BY <1>2, <2>1, <2>2 DEF StartupEnds, ListsTyped, DeadTyped, HistoryTyped
<1>3. CASE Fetch(w)
  <2>1. ListsTyped' /\ Last(queue) \in Ready
    BY <1>3, FrontIds, PushReady DEF Fetch, ListsTyped
  <2> DEFINE items == Append(worker[w].items, Last(queue))
             l == [worker[w] EXCEPT !.items = items,
                     !.pc = IF Len(items) = BatchMessages THEN "commit" ELSE "fetch"]
  <2>2. items \in Seq(Ready) /\ items \in Seq(Payload)
    BY <1>0, <2>1, PushReady, ReadyPayload DEF LocalShape
  <2>3. worker' = [worker EXCEPT ![w] = l]
    BY <1>3 DEF Fetch
  <2> HIDE DEF items
  <2>4. l \in Local
    BY <1>0, <2>2 DEF Local
  <2>5. LocalShape(l)
    <3>1. worker[w].hand = <<>>
      BY <1>0, <1>3 DEF Fetch, LocalShape
    <3>2. l.items = items /\ l.hand = <<>> /\ l.pc \in {"commit", "fetch"}
      BY <1>0, <3>1 DEF Local
    <3> QED BY <2>2, <3>2, EmptyIds DEF LocalShape
  <2> HIDE DEF l
  <2>6. WorkersTyped'
    BY <2>3, <2>4, <2>5, WorkerUpdate
  <2> QED BY <1>3, <2>1, <2>6 DEF Fetch, DeadTyped, HistoryTyped, BoundsTyped
<1>4. CASE FetchEnds(w)
  <2>1. WorkersTyped'
    BY <1>0, <1>4, GotoTyped DEF FetchEnds, LocalShape
  <2> QED BY <1>4, <2>1 DEF FetchEnds, ListsTyped, DeadTyped, HistoryTyped, BoundsTyped
<1>5. CASE FetchFails(w)
  <2>1. WorkersTyped'
    BY <1>5, IdleTyped DEF FetchFails
  <2>2. BoundsTyped'
    BY <1>5, FaultTyped DEF FetchFails, FaultKind
  <2> QED BY <1>5, <2>1, <2>2 DEF FetchFails, ListsTyped, DeadTyped, HistoryTyped
<1> QED BY <1>1, <1>2, <1>3, <1>4, <1>5

LEMMA StoringTyped ==
  ASSUME Typed, NEW w \in Worker, Commit(w) \/ Ack(w) \/ AckEach(w) \/ AckEachEnds(w)
  PROVE  Typed'
<1> USE DEF Typed, lists, history, bounds
<1>0. /\ worker[w] \in Local /\ LocalShape(worker[w])
      /\ worker[w].items \in Seq(Ready) /\ worker[w].items \in Seq(Payload)
      /\ Len(worker[w].items) \in Nat
  BY ReadyPayload, LenProperties DEF WorkersTyped, LocalShape
<1>1. CASE Commit(w)
  <2>1. WorkersTyped'
    <3>1. worker[w].hand = <<>>
      BY <1>0, <1>1 DEF Commit, LocalShape
    <3>2. Goto(w, "ack") \/ RetryLoop(w)
      BY <1>1 DEF Commit
    <3> QED BY <3>1, <3>2, GotoTyped, IdleTyped
  <2>2. BoundsTyped'
    BY <1>1, FaultTyped DEF Commit, FaultKind
  <2>3. HistoryTyped'
    <3>1. stored' \in [Message -> 0 .. 2]
      BY <1>1, StoreTyped DEF Commit, HistoryTyped, RolledBack
    <3> QED BY <1>1, <3>1 DEF Commit, HistoryTyped
  <2> QED BY <1>1, <2>1, <2>2, <2>3 DEF Commit, ListsTyped, DeadTyped
<1>2. CASE Ack(w)
  <2> DEFINE items == worker[w].items
             removed == RemovedReceived(items)
             l == [Fresh EXCEPT !.pc = "decr",
                     !.amount = IF removed > 0 THEN removed ELSE Len(items)]
             k == [worker[w] EXCEPT !.pc = "ack_each", !.left = Len(items)]
  <2>1. ListsTyped'
    BY <1>0, <1>2, RemovedIds DEF Ack, ListsTyped
  <2>2. BoundsTyped'
    BY <1>2, FaultTyped DEF Ack, FaultKind
  <2>3. removed \in Nat
    BY <1>0, ReceivedProperties
  <2>4. worker' = [worker EXCEPT ![w] = l] \/ worker' = [worker EXCEPT ![w] = k]
    <3> HIDE DEF removed
    <3> QED BY <1>2 DEF Ack, WorkersTyped, removed
  <2> HIDE DEF removed
  <2>5. l \in Local /\ LocalShape(l)
    <3> DEFINE n == IF removed > 0 THEN removed ELSE Len(items)
    <3>1. n \in Nat
      BY <1>0, <2>3
    <3> HIDE DEF n
    <3>2. [Fresh EXCEPT !.pc = "decr", !.amount = n] \in Local
          /\ LocalShape([Fresh EXCEPT !.pc = "decr", !.amount = n])
      BY <3>1, DecrShape
    <3> QED BY <3>2 DEF n
  <2>6. k \in Local /\ LocalShape(k)
    <3>1. worker[w].hand = <<>>
      BY <1>0, <1>2 DEF Ack, LocalShape
    <3>2. k.pc = "ack_each" /\ k.items = items /\ k.hand = <<>> /\ k.left = Len(items)
      BY <1>0, <3>1 DEF Local
    <3>3. k \in Local
      BY <1>0 DEF Local
    <3> QED BY <1>0, <3>2, <3>3, EmptyIds DEF LocalShape
  <2>7. WorkersTyped'
    <3> HIDE DEF l, k
    <3> QED BY <2>4, <2>5, <2>6, WorkerUpdate
  <2> QED BY <1>2, <2>1, <2>2, <2>7 DEF Ack, DeadTyped, HistoryTyped
<1>3. CASE AckEach(w)
  <2> DEFINE items == worker[w].items
             i == Len(items) - worker[w].left + 1
             raw == items[i]
             next(n) == [worker[w] EXCEPT !.left = @ - 1, !.amount = @ + n]
  <2>1. ListsTyped'
    BY <1>3, RemoveFirstIds DEF AckEach, ListsTyped
  <2>2. BoundsTyped'
    BY <1>3, FaultTyped DEF AckEach, FaultKind
  <2>3. Copies(items, raw) \in Nat
    BY <1>0, CopiesProperties
  <2>4. \E n \in Nat : worker' = [worker EXCEPT ![w] = next(n)]
    <3> DEFINE n == IF Contains(proc, raw) THEN Copies(items, raw) ELSE 0
    <3>1. n \in Nat
      BY <2>3
    <3>2. worker' = [worker EXCEPT ![w] = next(n)] \/ worker' = [worker EXCEPT ![w] = next(0)]
      BY <1>3 DEF AckEach
    <3> HIDE DEF n, next
    <3> QED BY <3>1, <3>2
  <2>5. ASSUME NEW n \in Nat PROVE next(n) \in Local /\ LocalShape(next(n))
    <3>1. /\ worker[w].pc = "ack_each" /\ worker[w].hand = <<>>
          /\ worker[w].left \in Nat /\ worker[w].left > 0
          /\ worker[w].left =< Len(items)
      BY <1>0, <1>3 DEF AckEach, LocalShape, Local
    <3>2. /\ next(n).pc = "ack_each" /\ next(n).items = items /\ next(n).hand = <<>>
          /\ next(n).left = worker[w].left - 1
      BY <1>0, <3>1 DEF Local
    <3>3. next(n) \in Local
      <4>1. worker[w].left - 1 \in Nat /\ worker[w].amount + n \in Nat
        BY <1>0, <3>1 DEF Local
      <4>2. \A l \in Local : \A x, y \in Nat :
              [l EXCEPT !.left = x, !.amount = y] \in Local
        BY DEF Local
      <4> HIDE DEF Local
      <4> QED BY <1>0, <4>1, <4>2
    <3>4. worker[w].left - 1 =< Len(items)
      BY <1>0, <3>1
    <3> QED BY <1>0, <3>2, <3>3, <3>4, EmptyIds DEF LocalShape
  <2>6. WorkersTyped'
    <3> HIDE DEF next
    <3> QED BY <2>4, <2>5, WorkerUpdate
  <2> QED BY <1>3, <2>1, <2>2, <2>6 DEF AckEach, DeadTyped, HistoryTyped
<1>4. CASE AckEachEnds(w)
  <2> DEFINE l == [Fresh EXCEPT !.pc = "decr", !.amount = worker[w].amount]
  <2>1. l \in Local /\ LocalShape(l)
    <3>1. worker[w].amount \in Nat
      BY <1>0 DEF Local
    <3> QED BY <3>1, DecrShape
  <2>2. worker' = [worker EXCEPT ![w] = l] \/ RetryLoop(w)
    BY <1>4 DEF AckEachEnds
  <2>3. WorkersTyped'
    <3> HIDE DEF l
    <3> QED BY <2>1, <2>2, WorkerUpdate, IdleTyped
  <2> QED BY <1>4, <2>3 DEF AckEachEnds, ListsTyped, DeadTyped, HistoryTyped, BoundsTyped
<1> QED BY <1>1, <1>2, <1>3, <1>4

LEMMA RetryingTyped ==
  ASSUME Typed, NEW w \in Worker,
         Decr(w) \/ Clamp(w) \/ Retry(w) \/ Hold(w) \/ Park(w) \/ Crash(w)
  PROVE  Typed'
<1> USE DEF Typed, lists, history, bounds
<1>0. /\ worker[w] \in Local /\ LocalShape(worker[w])
      /\ worker[w].amount \in Nat /\ worker[w].hand \in Seq(Payload)
  BY DEF WorkersTyped, Local
<1>1. CASE Decr(w)
  <2>1. WorkersTyped'
    BY <1>1, GotoTyped, ResumeTyped DEF Decr
  <2>2. BoundsTyped'
    BY <1>1, FaultTyped DEF Decr, FaultKind
  <2>3. HistoryTyped'
    BY <1>0, <1>1 DEF Decr, HistoryTyped
  <2> QED BY <1>1, <2>1, <2>2, <2>3 DEF Decr, ListsTyped, DeadTyped
<1>2. CASE Clamp(w)
  <2>1. WorkersTyped'
    BY <1>2, ResumeTyped DEF Clamp
  <2> QED BY <1>2, <2>1 DEF Clamp, ListsTyped, DeadTyped, HistoryTyped, BoundsTyped
<1>3. CASE Retry(w)
  <2>1. BoundsTyped'
    BY <1>3, FaultTyped DEF Retry, FaultKind
  <2>2. CASE Idle(w) /\ UNCHANGED proc
    <3>1. WorkersTyped'
      BY <2>2, IdleTyped
    <3> QED BY <1>3, <2>1, <2>2, <3>1 DEF Retry, ListsTyped, DeadTyped, HistoryTyped
  <2>3. CASE ~(Idle(w) /\ UNCHANGED proc)
    <3> DEFINE msg == NextRetry(Last(proc))
               l == [Fresh EXCEPT !.hand = <<msg>>,
                       !.pc = IF Retriable(msg) THEN "hold" ELSE "decr",
                       !.amount = IF Retriable(msg) THEN 0 ELSE 1]
    <3>1. proc # <<>> /\ proc' = Front(proc) /\ worker' = [worker EXCEPT ![w] = l]
      BY <1>3, <2>3 DEF Retry
    <3>2. ListsTyped' /\ Last(proc) \in Ready
      BY <1>3, <3>1, FrontIds DEF Retry, ListsTyped
    <3>3. msg \in Payload /\ (Retriable(msg) => msg \in Ready)
      BY <3>2, IngestQueueAssumption
         DEF IngestQueueAssumption, NextRetry, Retriable, Ready, Payload
    <3> HIDE DEF msg
    <3>4. <<msg>> \in Seq(Payload) /\ Len(<<msg>>) = 1
          /\ (Retriable(msg) => <<msg>> \in Seq(Ready))
      BY <3>3, SingletonIds
    <3>5. l \in Local
      BY <3>4, FreshShape DEF Local
    <3>6. /\ l.items = <<>> /\ l.hand = <<msg>>
          /\ l.pc = IF Retriable(msg) THEN "hold" ELSE "decr"
      BY DEF Fresh
    <3>7. <<>> \in Seq(Ready) /\ Len(<<msg>>) = 1 /\ <<msg>> # <<>>
      BY <3>4, EmptyIds
    <3> HIDE DEF l
    <3>8. LocalShape(l)
      BY <3>4, <3>6, <3>7 DEF LocalShape
    <3>9. WorkersTyped'
      BY <3>1, <3>5, <3>8, WorkerUpdate
    <3> QED BY <1>3, <2>1, <3>2, <3>9 DEF Retry, DeadTyped, HistoryTyped
  <2> QED BY <2>2, <2>3
<1>4. CASE Hold(w)
  <2>1. WorkersTyped'
    BY <1>4, IdleTyped DEF Hold
  <2>2. BoundsTyped'
    BY <1>4, FaultTyped DEF Hold, FaultKind
  <2>3. ListsTyped'
    <3>1. worker[w].hand \in Seq(Ready)
      BY <1>0, <1>4 DEF Hold, LocalShape
    <3>2. queue \in Seq(Ready) /\ proc \in Seq(Ready)
      BY DEF ListsTyped
    <3>3. worker[w].hand \o queue \in Seq(Ready)
      BY <3>1, <3>2, ConcatIds
    <3> QED BY <1>4, <3>2, <3>3 DEF Hold, ListsTyped
  <2> QED BY <1>4, <2>1, <2>2, <2>3 DEF Hold, DeadTyped, HistoryTyped
<1>5. CASE Park(w)
  <2>1. WorkersTyped'
    BY <1>5, IdleTyped DEF Park
  <2>2. BoundsTyped'
    BY <1>5, FaultTyped DEF Park, FaultKind
  <2> DEFINE pushed == dead \o worker[w].hand
  <2>3. /\ pushed \in Seq(Payload) /\ Trim(pushed) \in Seq(Payload)
        /\ Len(Trim(pushed)) =< DeadLetterMax
    BY <1>0, ConcatIds, TrimIds DEF DeadTyped
  <2>4. DeadTyped'
    <3>1. CASE UNCHANGED dead
      BY <1>5, <3>1 DEF Park, DeadTyped
    <3>2. CASE dead' = Trim(pushed)
      <4>1. /\ Len(dead') \in Nat /\ DeadLetterMax \in Nat
            /\ Len(admin) \in Nat /\ Len(admin) =< 1
        BY <2>3, <3>2, LenProperties, IngestQueueAssumption
           DEF DeadTyped, IngestQueueAssumption
      <4>2. Len(dead') + Len(admin) =< DeadLetterMax + 1
        <5>1. Len(dead') =< DeadLetterMax
          BY <2>3, <3>2
        <5> QED BY <4>1, <5>1
      <4>3. UNCHANGED admin
        BY <1>5 DEF Park
      <4> QED BY <2>3, <3>2, <4>2, <4>3 DEF DeadTyped
    <3> QED BY <1>5, <3>1, <3>2 DEF Park
  <2>5. HistoryTyped'
    <3>1. Ids(pushed) \subseteq Message
      <4>1. \A i \in DOMAIN pushed : pushed[i] \in Payload
        BY <2>3, LenProperties
      <4> QED BY <4>1 DEF Ids, Payload
    <3> QED BY <1>5, <3>1 DEF Park, HistoryTyped
  <2> QED BY <1>5, <2>1, <2>2, <2>4, <2>5 DEF Park, ListsTyped
<1>6. CASE Crash(w)
  <2>1. WorkersTyped'
    BY <1>6, FreshShape, WorkerUpdate DEF Crash
  <2>2. BoundsTyped'
    BY <1>6, FaultTyped DEF Crash, FaultKind
  <2> QED BY <1>6, <2>1, <2>2 DEF Crash, ListsTyped, DeadTyped, HistoryTyped
<1> QED BY <1>1, <1>2, <1>3, <1>4, <1>5, <1>6

LEMMA AdminTyped ==
  ASSUME Typed, Admin
  PROVE  Typed'
<1> USE DEF Typed, lists, history, bounds
<1>0. /\ dead \in Seq(Payload) /\ admin \in Seq(Payload)
      /\ Len(dead) \in Nat /\ Len(admin) \in Nat /\ DeadLetterMax \in Nat
      /\ Len(admin) =< 1 /\ Len(dead) + Len(admin) =< DeadLetterMax + 1
      /\ <<>> \in Seq(Payload) /\ Len(<<>>) = 0
  BY LenProperties, EmptyIds, IngestQueueAssumption DEF DeadTyped, IngestQueueAssumption
<1>1. dead # <<>> => /\ Tail(dead) \in Seq(Payload) /\ Len(Tail(dead)) = Len(dead) - 1
                     /\ Len(dead) \in Nat \ {0} /\ Head(dead) \in Payload
  BY <1>0, TailIds
<1>2. CASE RedrivePop
  <2>1. DeadTyped'
    <3>1. <<Head(dead)>> \in Seq(Payload) /\ Len(<<Head(dead)>>) = 1
      BY <1>1, <1>2, SingletonIds DEF RedrivePop
    <3>2. Len(admin) = 0
      BY <1>0, <1>2 DEF RedrivePop
    <3> QED BY <1>0, <1>1, <1>2, <3>1, <3>2 DEF RedrivePop, DeadTyped
  <2>2. BoundsTyped'
    BY <1>2, IngestQueueAssumption DEF RedrivePop, BoundsTyped, IngestQueueAssumption
  <2> QED BY <1>2, <2>1, <2>2 DEF RedrivePop, ListsTyped, WorkersTyped, HistoryTyped
<1>3. CASE RedrivePush
  <2>1. ListsTyped'
    BY <1>3, AdminReady, PushReady DEF RedrivePush, ListsTyped
  <2>2. DeadTyped'
    BY <1>0, <1>3 DEF RedrivePush, DeadTyped
  <2> QED BY <1>3, <2>1, <2>2 DEF RedrivePush, WorkersTyped, HistoryTyped, BoundsTyped
<1>4. CASE RedriveFails
  <2>1. ListsTyped'
    BY <1>4, AdminReady, PushReady DEF RedriveFails, ListsTyped
  <2>2. DeadTyped'
    <3>1. dead \o admin \in Seq(Payload) /\ Len(dead \o admin) = Len(dead) + Len(admin)
      BY <1>0, ConcatIds
    <3>2. admin' = <<>> /\ (dead' = dead \/ dead' = dead \o admin)
      BY <1>4 DEF RedriveFails
    <3>3. dead' \in Seq(Payload) /\ Len(dead') =< DeadLetterMax + 1
      BY <1>0, <3>1, <3>2
    <3>4. Len(dead') \in Nat
      BY <3>3, LenProperties
    <3> QED BY <1>0, <3>2, <3>3, <3>4 DEF DeadTyped
  <2>3. BoundsTyped'
    BY <1>4, FaultTyped DEF RedriveFails, FaultKind
  <2>4. HistoryTyped'
    BY <1>4 DEF RedriveFails, HistoryTyped
  <2> QED BY <1>4, <2>1, <2>2, <2>3, <2>4 DEF RedriveFails, WorkersTyped
<1>5. CASE AdminCrash
  <2>1. BoundsTyped'
    BY <1>5, FaultTyped DEF AdminCrash, FaultKind
  <2>2. DeadTyped'
    BY <1>0, <1>5 DEF AdminCrash, DeadTyped
  <2> QED BY <1>5, <2>1, <2>2 DEF AdminCrash, ListsTyped, WorkersTyped, HistoryTyped
<1>6. CASE Discard
  <2>1. DeadTyped'
    <3>1. dead' \in Seq(Payload) /\ Len(dead') =< Len(dead) /\ Len(dead') \in Nat
      <4>1. CASE dead' = Tail(dead)
        BY <1>0, <1>1, <1>6, <4>1 DEF Discard
      <4>2. CASE dead' = <<>>
        BY <1>0, <4>2
      <4> QED BY <1>6, <4>1, <4>2 DEF Discard
    <3> QED BY <1>0, <1>6, <3>1 DEF Discard, DeadTyped
  <2>2. HistoryTyped'
    <3>1. Ids(dead) \subseteq Message
      <4>1. \A i \in DOMAIN dead : dead[i] \in Payload
        BY <1>0, LenProperties
      <4> QED BY <4>1 DEF Ids, Payload
    <3> QED BY <1>6, <3>1 DEF Discard, HistoryTyped
  <2> QED BY <1>6, <2>1, <2>2 DEF Discard, ListsTyped, WorkersTyped, BoundsTyped
<1> QED BY <1>2, <1>3, <1>4, <1>5, <1>6 DEF Admin

LEMMA InitTyped == Init => Typed
<1> SUFFICES ASSUME Init PROVE Typed
  OBVIOUS
<1>1. <<>> \in Seq(Ready) /\ <<>> \in Seq(Payload) /\ Len(<<>>) = 0
  BY EmptyIds
<1>2. DeadLetterMax \in Nat /\ MaxFaults \in Nat /\ MaxRedrives \in Nat
  BY IngestQueueAssumption DEF IngestQueueAssumption
<1>3. WorkersTyped
  BY FreshShape DEF Init, WorkersTyped
<1> QED BY <1>1, <1>2, <1>3
        DEF Init, Typed, ListsTyped, DeadTyped, HistoryTyped, BoundsTyped

LEMMA NextTyped == Typed /\ [Next]_vars => Typed'
<1> SUFFICES ASSUME Typed, [Next]_vars PROVE Typed'
  OBVIOUS
<1>1. CASE \E m \in Message : Accept(m) \/ AcceptDirectly(m)
  BY <1>1, ApiTyped
<1>2. CASE \E w \in Worker : Work(w) \/ Crash(w)
  BY <1>2, LoopTyped, StoringTyped, RetryingTyped DEF Work
<1>3. CASE Admin
  BY <1>3, AdminTyped
<1>4. CASE UNCHANGED vars
  BY <1>4 DEF vars, lists, history, bounds, Typed, ListsTyped, DeadTyped, WorkersTyped,
              HistoryTyped, BoundsTyped
<1> QED BY <1>1, <1>2, <1>3, <1>4 DEF Next

\* Only messages within the retry budget are in the lists, the dead letter list
\* keeps its limit (and one more while a redrive puts back what it took), and a
\* process has at most one message in hand (_requeue_processing_with_retry_cap,
\* deadletter.push, deadletter.redrive).
THEOREM TypeCorrect == Spec => [](Typed /\ TypeOK)
<1>1. Typed => TypeOK
  BY TypedTypeOK
<1> QED BY <1>1, InitTyped, NextTyped, PTL DEF Spec

-----------------------------------------------------------------------------
(* What is answered durable is kept.                                       *)

LEMMA PayloadIds ==
  ASSUME NEW s \in Seq(Payload)
  PROVE  Ids(s) \subseteq Message
<1>1. \A i \in DOMAIN s : s[i] \in Payload
  BY LenProperties
<1> QED BY <1>1 DEF Ids, Payload

\* What a step of a worker does to the batch it acknowledges.
AckStep(w, l) ==
  l.pc \in {"ack", "ack_each"} =>
    /\ l.items = worker[w].items
    /\ \/ worker[w].pc \in {"ack", "ack_each"}
       \/ worker[w].pc = "commit" /\ l.pc = "ack" /\ stored' = Store(Ids(l.items))

LEMMA WorkerSteps ==
  ASSUME Typed, NEW w \in Worker, Work(w) \/ Crash(w)
  PROVE  \E l : worker' = [worker EXCEPT ![w] = l] /\ AckStep(w, l)
<1>0. worker \in [Worker -> Local] /\ worker[w] \in Local
  BY DEF Typed, WorkersTyped
<1>1. ASSUME NEW l, worker' = [worker EXCEPT ![w] = l], l.pc \notin {"ack", "ack_each"}
      PROVE  \E k : worker' = [worker EXCEPT ![w] = k] /\ AckStep(w, k)
  BY <1>1 DEF AckStep
<1>2. ASSUME Idle(w) \/ RetryLoop(w)
      PROVE  \E k : worker' = [worker EXCEPT ![w] = k] /\ AckStep(w, k)
  <2> DEFINE i == [Fresh EXCEPT !.pc = "idle"]
             r == [Fresh EXCEPT !.pc = "retry"]
  <2>1. i.pc = "idle" /\ r.pc = "retry"
    BY DEF Fresh
  <2>2. worker' = [worker EXCEPT ![w] = i] \/ worker' = [worker EXCEPT ![w] = r]
    BY <1>2 DEF Idle, RetryLoop
  <2> HIDE DEF i, r
  <2> QED BY <1>1, <2>1, <2>2
<1>3. ASSUME NEW pc \in {"commit", "clamp", "park"}, Goto(w, pc)
      PROVE  \E k : worker' = [worker EXCEPT ![w] = k] /\ AckStep(w, k)
  <2> DEFINE l == [worker[w] EXCEPT !.pc = pc]
  <2>1. l.pc = pc
    BY <1>0 DEF Local
  <2>2. worker' = [worker EXCEPT ![w] = l]
    BY <1>3 DEF Goto
  <2> HIDE DEF l
  <2> QED BY <1>1, <2>1, <2>2
<1>4. ASSUME Resume(w)
      PROVE  \E k : worker' = [worker EXCEPT ![w] = k] /\ AckStep(w, k)
  BY <1>2, <1>3, <1>4 DEF Resume
<1>5. CASE Startup(w)
  <2>1. worker' = [worker EXCEPT ![w] = worker[w]] /\ worker[w].pc = "startup"
    BY <1>0, <1>5 DEF Startup
  <2> QED BY <1>1, <2>1
<1>6. CASE StartupEnds(w) \/ FetchFails(w) \/ Hold(w) \/ Park(w)
  BY <1>2, <1>6 DEF StartupEnds, FetchFails, Hold, Park
<1>7. CASE Fetch(w)
  <2> DEFINE items == Append(worker[w].items, Last(queue))
             pc == IF Len(items) = BatchMessages THEN "commit" ELSE "fetch"
             l == [worker[w] EXCEPT !.items = items, !.pc = pc]
  <2>1. worker' = [worker EXCEPT ![w] = l]
    BY <1>7 DEF Fetch
  <2>2. pc \in {"commit", "fetch"}
    OBVIOUS
  <2> HIDE DEF items, pc
  <2>3. l.pc = pc
    BY <1>0 DEF Local
  <2> HIDE DEF l
  <2> QED BY <1>1, <2>1, <2>2, <2>3
<1>8. CASE FetchEnds(w)
  BY <1>3, <1>8 DEF FetchEnds
<1>9. CASE Commit(w)
  <2>1. CASE RetryLoop(w)
    BY <1>2, <2>1
  <2>2. CASE Goto(w, "ack") /\ stored' = Store(Ids(worker[w].items))
    <3> DEFINE l == [worker[w] EXCEPT !.pc = "ack"]
    <3>1. worker' = [worker EXCEPT ![w] = l]
      BY <2>2 DEF Goto
    <3>2. l.pc = "ack" /\ l.items = worker[w].items /\ worker[w].pc = "commit"
      BY <1>0, <1>9 DEF Local, Commit
    <3> HIDE DEF l
    <3> QED BY <2>2, <3>1, <3>2 DEF AckStep
  <2> QED BY <1>9, <2>1, <2>2 DEF Commit
<1>10. CASE Ack(w)
  <2> DEFINE n == IF RemovedReceived(worker[w].items) > 0
                  THEN RemovedReceived(worker[w].items) ELSE Len(worker[w].items)
             l == [Fresh EXCEPT !.pc = "decr", !.amount = n]
             k == [worker[w] EXCEPT !.pc = "ack_each", !.left = Len(worker[w].items)]
  <2>1. worker' = [worker EXCEPT ![w] = l] \/ worker' = [worker EXCEPT ![w] = k]
    BY <1>10 DEF Ack
  <2>2. worker[w].pc = "ack"
    BY <1>10 DEF Ack
  <2> HIDE DEF n
  <2>3. l.pc = "decr" /\ k.items = worker[w].items
    BY <1>0 DEF Fresh, Local
  <2> HIDE DEF l, k
  <2> QED BY <1>1, <2>1, <2>2, <2>3 DEF AckStep
<1>11. CASE AckEach(w)
  <2> DEFINE next(n) == [worker[w] EXCEPT !.left = @ - 1, !.amount = @ + n]
  <2>1. \E n : worker' = [worker EXCEPT ![w] = next(n)]
    BY <1>11 DEF AckEach
  <2>2. \A n : next(n).items = worker[w].items
    BY <1>0 DEF Local
  <2>3. worker[w].pc = "ack_each"
    BY <1>11 DEF AckEach
  <2> HIDE DEF next
  <2> QED BY <2>1, <2>2, <2>3 DEF AckStep
<1>12. CASE AckEachEnds(w)
  <2> DEFINE l == [Fresh EXCEPT !.pc = "decr", !.amount = worker[w].amount]
  <2>1. worker' = [worker EXCEPT ![w] = l] \/ RetryLoop(w)
    BY <1>12 DEF AckEachEnds
  <2>2. l.pc = "decr"
    BY DEF Fresh
  <2> HIDE DEF l
  <2> QED BY <1>1, <1>2, <2>1, <2>2
<1>13. CASE Decr(w) \/ Clamp(w)
  BY <1>3, <1>4, <1>13 DEF Decr, Clamp
<1>14. CASE Retry(w)
  <2> DEFINE msg == NextRetry(Last(proc))
             pc == IF Retriable(msg) THEN "hold" ELSE "decr"
             l == [Fresh EXCEPT !.hand = <<msg>>, !.pc = pc,
                                !.amount = IF Retriable(msg) THEN 0 ELSE 1]
  <2>1. worker' = [worker EXCEPT ![w] = l] \/ Idle(w)
    BY <1>14 DEF Retry
  <2>2. l.pc = pc /\ pc \in {"hold", "decr"}
    BY DEF Fresh
  <2> HIDE DEF l, pc
  <2> QED BY <1>1, <1>2, <2>1, <2>2
<1>15. CASE Crash(w)
  <2>1. Fresh.pc = "startup"
    BY DEF Fresh
  <2> QED BY <1>1, <1>15, <2>1 DEF Crash
<1> QED BY <1>5, <1>6, <1>7, <1>8, <1>9, <1>10, <1>11, <1>12, <1>13, <1>14, <1>15
        DEF Work

LEMMA StoredGrows ==
  ASSUME Typed, [Next]_vars
  PROVE  \A m \in Message : stored'[m] >= stored[m]
<1>1. stored' = stored \/ \E ids : stored' = Store(ids)
  <2>1. CASE \E m \in Message : Accept(m) \/ AcceptDirectly(m)
    BY <2>1 DEF Accept, AcceptDirectly
  <2>2. ASSUME NEW w \in Worker, Work(w)
        PROVE  stored' = stored \/ \E ids : stored' = Store(ids)
    <3>1. CASE Commit(w)
      BY <3>1 DEF Commit, RolledBack
    <3>2. CASE ~Commit(w)
      BY <2>2, <3>2 DEF Work, Startup, StartupEnds, Fetch, FetchEnds, FetchFails, Ack,
           AckEach, AckEachEnds, Decr, Clamp, Retry, Hold, Park
    <3> QED BY <3>1, <3>2
  <2>3. ASSUME NEW w \in Worker, Crash(w) PROVE stored' = stored
    BY <2>3 DEF Crash
  <2>4. CASE Admin
    BY <2>4 DEF Admin, RedrivePop, RedrivePush, RedriveFails, AdminCrash, Discard
  <2>5. CASE UNCHANGED vars
    BY <2>5 DEF vars
  <2> QED BY <2>1, <2>2, <2>3, <2>4, <2>5 DEF Next
<1>2. stored \in [Message -> 0 .. 2]
  BY DEF Typed, HistoryTyped
<1>3. \A m \in Message : stored[m] \in Nat
  BY <1>2
<1> QED BY <1>1, <1>2, <1>3, StoreTyped

LEMMA AckedStoredInit == Init => AckedStored
BY DEF Init, Fresh, AckedStored

\* Whatever the other workers do, a worker acknowledges what it stored.
LEMMA AckedStoredNext ==
  ASSUME Typed, AckedStored, [Next]_vars
  PROVE  AckedStored'
<1>0. /\ worker \in [Worker -> Local] /\ stored \in [Message -> 0 .. 2]
      /\ \A w \in Worker : Ids(worker[w].items) \subseteq Message
  <2>1. \A w \in Worker : worker[w].items \in Seq(Payload)
    BY DEF Typed, WorkersTyped, Local
  <2> QED BY <2>1, PayloadIds DEF Typed, WorkersTyped, HistoryTyped
<1>1. \A m \in Message : stored[m] > 0 => stored'[m] > 0
  <2>1. Typed'
    BY NextTyped
  <2>2. \A m \in Message : stored[m] \in Nat /\ stored'[m] \in Nat
    BY <2>1 DEF Typed, HistoryTyped
  <2> QED BY <2>2, StoredGrows
<1>2. CASE UNCHANGED worker
  BY <1>0, <1>1, <1>2 DEF AckedStored
<1>3. ASSUME NEW w \in Worker, Work(w) \/ Crash(w) PROVE AckedStored'
  <2>1. PICK l : worker' = [worker EXCEPT ![w] = l] /\ AckStep(w, l)
    BY <1>3, WorkerSteps
  <2>2. \A v \in Worker : worker'[v] = IF v = w THEN l ELSE worker[v]
    BY <1>0, <2>1
  <2>3. ASSUME l.pc \in {"ack", "ack_each"}, NEW m \in Ids(l.items)
        PROVE  stored'[m] > 0
    <3>1. l.items = worker[w].items /\ m \in Message
      BY <1>0, <2>1, <2>3 DEF AckStep
    <3>2. CASE worker[w].pc \in {"ack", "ack_each"}
      BY <1>1, <2>3, <3>1, <3>2 DEF AckedStored
    <3>3. CASE stored' = Store(Ids(l.items))
      BY <1>0, <2>3, <3>1, <3>3, StoreTyped
    <3> QED BY <2>1, <2>3, <3>2, <3>3 DEF AckStep
  <2> QED BY <1>0, <1>1, <2>2, <2>3 DEF AckedStored
<1>4. CASE \E m \in Message : Accept(m) \/ AcceptDirectly(m)
  BY <1>2, <1>4 DEF Accept, AcceptDirectly
<1>5. CASE Admin
  BY <1>2, <1>5 DEF Admin, RedrivePop, RedrivePush, RedriveFails, AdminCrash, Discard
<1>6. CASE UNCHANGED vars
  BY <1>2, <1>6 DEF vars
<1> QED BY <1>3, <1>4, <1>5, <1>6 DEF Next

\* What the workers have in hand, after one of them moved on.
LEMMA HandsFollow ==
  ASSUME worker \in [Worker -> Local], NEW w \in Worker, NEW l,
         worker' = [worker EXCEPT ![w] = l]
  PROVE  /\ HandIds \subseteq HandIds' \cup Ids(worker[w].hand)
         /\ Ids(l.hand) \subseteq HandIds'
         /\ Ids(worker[w].hand) = Ids(l.hand) => HandIds' = HandIds
<1>1. \A v \in Worker : worker'[v] = IF v = w THEN l ELSE worker[v]
  OBVIOUS
<1> HIDE DEF Local
<1>2. worker'[w].hand = l.hand
  BY <1>1
<1>3. \A v \in Worker : v # w => worker'[v].hand = worker[v].hand
  BY <1>1
<1> QED BY <1>2, <1>3 DEF HandIds

LEMMA HandsKeep ==
  ASSUME WorkersTyped, NEW w \in Worker,
         \/ (Idle(w) \/ RetryLoop(w)) /\ worker[w].hand = <<>>
         \/ Resume(w)
         \/ \E pc \in {"commit", "ack", "clamp", "park"} : Goto(w, pc)
  PROVE  HandIds' = HandIds
<1>0. worker \in [Worker -> Local] /\ worker[w] \in Local
  BY DEF WorkersTyped
<1>1. ASSUME worker[w].hand = <<>>, Idle(w) \/ RetryLoop(w) PROVE HandIds' = HandIds
  <2> DEFINE i == [Fresh EXCEPT !.pc = "idle"]
             r == [Fresh EXCEPT !.pc = "retry"]
  <2>1. i.hand = <<>> /\ r.hand = <<>>
    BY DEF Fresh
  <2>2. worker' = [worker EXCEPT ![w] = i] \/ worker' = [worker EXCEPT ![w] = r]
    BY <1>1 DEF Idle, RetryLoop
  <2> HIDE DEF i, r
  <2> QED BY <1>0, <1>1, <2>1, <2>2, HandsFollow
<1>2. ASSUME NEW pc, Goto(w, pc) PROVE HandIds' = HandIds
  <2> DEFINE l == [worker[w] EXCEPT !.pc = pc]
  <2>1. l.hand = worker[w].hand
    BY <1>0 DEF Local
  <2>2. worker' = [worker EXCEPT ![w] = l]
    BY <1>2 DEF Goto
  <2> HIDE DEF l
  <2> QED BY <1>0, <2>1, <2>2, HandsFollow
<1> QED BY <1>1, <1>2 DEF Resume

LEMMA HeldParts ==
  /\ Held = Ids(queue) \cup Ids(proc) \cup HandIds \cup Ids(admin) \cup Ids(dead)
              \cup discarded
  /\ Held' = Ids(queue') \cup Ids(proc') \cup HandIds' \cup Ids(admin')
              \cup Ids(dead') \cup discarded'
<1>1. Held = Ids(queue) \cup Ids(proc) \cup HandIds \cup Ids(admin) \cup Ids(dead)
              \cup discarded
  BY DEF Held, Buffered, InHand, HandIds
<1>2. Held' = Ids(queue') \cup Ids(proc') \cup HandIds' \cup Ids(admin')
              \cup Ids(dead') \cup discarded'
  BY DEF Held, Buffered, InHand, HandIds
<1> QED BY <1>1, <1>2

LEMMA WorkerKeeps ==
  ASSUME Typed, AckedStored, NEW w \in Worker, Work(w) \/ Crash(w)
  PROVE  Keeps
<1> USE DEF lists, history, bounds
<1>0. /\ worker \in [Worker -> Local] /\ worker[w] \in Local /\ LocalShape(worker[w])
      /\ queue \in Seq(Ready) /\ proc \in Seq(Ready) /\ dead \in Seq(Payload)
      /\ worker[w].items \in Seq(Ready) /\ worker[w].hand \in Seq(Payload)
      /\ WorkersTyped
  BY DEF Typed, WorkersTyped, ListsTyped, DeadTyped, LocalShape, Local
<1>1. ASSUME UNCHANGED lists, UNCHANGED admin, discarded' = discarded, HandIds' = HandIds
      PROVE  Keeps
  BY <1>1, HeldParts DEF Keeps
<1>2. CASE Startup(w)
  <2>1. Ids(proc) = Ids(proc') \cup {Last(proc).id}
    BY <1>0, <1>2, FrontIds DEF Startup
  <2>2. Ids(queue') = {Last(proc).id} \cup Ids(queue)
    <3>1. Last(proc) \in Ready
      BY <1>0, <1>2, FrontIds DEF Startup
    <3> QED BY <1>0, <1>2, <3>1, PushIds DEF Startup, PushBack
  <2>3. HandIds' = HandIds /\ UNCHANGED <<admin, dead, discarded>>
    BY <1>2 DEF Startup, HandIds
  <2> QED BY <2>1, <2>2, <2>3, HeldParts DEF Keeps
<1>3. CASE StartupEnds(w) \/ FetchFails(w)
  <2>1. worker[w].hand = <<>>
    BY <1>0, <1>3 DEF StartupEnds, FetchFails, LocalShape
  <2>2. HandIds' = HandIds
    BY <1>0, <1>3, <2>1, HandsKeep DEF StartupEnds, FetchFails
  <2> QED BY <1>1, <1>3, <2>2 DEF StartupEnds, FetchFails
<1>4. CASE Fetch(w)
  <2>1. Ids(queue) = Ids(queue') \cup {Last(queue).id} /\ Last(queue) \in Ready
    BY <1>0, <1>4, FrontIds DEF Fetch
  <2>2. Ids(proc') = {Last(queue).id} \cup Ids(proc)
    BY <1>0, <1>4, <2>1, PushIds DEF Fetch
  <2>3. HandIds' = HandIds
    <3> DEFINE items == Append(worker[w].items, Last(queue))
               l == [worker[w] EXCEPT !.items = items,
                       !.pc = IF Len(items) = BatchMessages THEN "commit" ELSE "fetch"]
    <3>1. worker' = [worker EXCEPT ![w] = l]
      BY <1>4 DEF Fetch
    <3>2. l.hand = worker[w].hand
      BY <1>0 DEF Local
    <3> HIDE DEF l
    <3> QED BY <1>0, <3>1, <3>2, HandsFollow
  <2>4. UNCHANGED <<admin, dead, discarded>>
    BY <1>4 DEF Fetch
  <2> QED BY <2>1, <2>2, <2>3, <2>4, HeldParts DEF Keeps
<1>5. CASE FetchEnds(w)
  <2>1. HandIds' = HandIds
    BY <1>0, <1>5, HandsKeep DEF FetchEnds
  <2> QED BY <1>1, <1>5, <2>1 DEF FetchEnds
<1>6. CASE Commit(w)
  <2>1. worker[w].hand = <<>>
    BY <1>0, <1>6 DEF Commit, LocalShape
  <2>2. HandIds' = HandIds
    BY <1>0, <1>6, <2>1, HandsKeep DEF Commit
  <2> QED BY <1>1, <1>6, <2>2 DEF Commit
<1>7. CASE Ack(w) \/ AckEach(w)
  <2>1. worker[w].pc \in {"ack", "ack_each"} /\ worker[w].hand = <<>>
    BY <1>0, <1>7 DEF Ack, AckEach, LocalShape
  <2>2. HandIds' = HandIds
    <3> DEFINE n == IF RemovedReceived(worker[w].items) > 0
                    THEN RemovedReceived(worker[w].items) ELSE Len(worker[w].items)
               l == [Fresh EXCEPT !.pc = "decr", !.amount = n]
               k == [worker[w] EXCEPT !.pc = "ack_each", !.left = Len(worker[w].items)]
               next(x) == [worker[w] EXCEPT !.left = @ - 1, !.amount = @ + x]
    <3>1. \/ worker' = [worker EXCEPT ![w] = l]
          \/ worker' = [worker EXCEPT ![w] = k]
          \/ \E x : worker' = [worker EXCEPT ![w] = next(x)]
      BY <1>7 DEF Ack, AckEach
    <3> HIDE DEF n
    <3>2. l.hand = <<>> /\ k.hand = worker[w].hand /\ \A x : next(x).hand = worker[w].hand
      BY <1>0 DEF Fresh, Local
    <3> HIDE DEF l, k, next
    <3> QED BY <1>0, <2>1, <3>1, <3>2, HandsFollow
  <2>3. Range(proc) \subseteq Range(proc') \cup Range(worker[w].items)
    <3>1. CASE Ack(w)
      <4>1. Range(proc) \subseteq Range(Removed(proc, worker[w].items))
                                   \cup Range(worker[w].items)
        BY <1>0, RemovedIds
      <4> QED BY <3>1, <4>1 DEF Ack
    <3>2. CASE AckEach(w)
      <4> DEFINE items == worker[w].items
                 i == Len(items) - worker[w].left + 1
                 raw == items[i]
      <4>1. raw \in Range(items)
        <5>1. /\ Len(items) \in Nat /\ worker[w].left \in Nat
              /\ worker[w].left > 0 /\ worker[w].left =< Len(items)
          BY <1>0, <3>2, LenProperties DEF AckEach, LocalShape, Local
        <5>2. i \in 1 .. Len(items)
          BY <5>1
        <5> HIDE DEF i
        <5> QED BY <1>0, <5>2, RangeAt
      <4>2. proc' = RemoveFirst(proc, raw) \/ proc' = proc
        BY <3>2 DEF AckEach
      <4> HIDE DEF raw, items
      <4>3. Range(proc) \subseteq Range(RemoveFirst(proc, raw)) \cup {raw}
        BY <1>0, RemoveFirstIds
      <4> QED BY <4>1, <4>2, <4>3 DEF items
    <3> QED BY <1>7, <3>1, <3>2
  <2>4. proc' \in Seq(Ready)
    BY <1>7, NextTyped DEF Next, Work, Typed, ListsTyped
  <2>5. Ids(proc) \subseteq Ids(proc') \cup Ids(worker[w].items)
    <3>1. Ids(proc) = {e.id : e \in Range(proc)} /\ Ids(proc') = {e.id : e \in Range(proc')}
          /\ Ids(worker[w].items) = {e.id : e \in Range(worker[w].items)}
      BY <1>0, <2>4, IdsRange
    <3> QED BY <2>3, <3>1
  <2>6. \A m \in Ids(worker[w].items) : stored'[m] > 0
    BY <1>7, <2>1 DEF Ack, AckEach, AckedStored
  <2>7. UNCHANGED <<queue, admin, dead, discarded>>
    BY <1>7 DEF Ack, AckEach
  <2> QED BY <2>2, <2>5, <2>6, <2>7, HeldParts DEF Keeps
<1>8. CASE AckEachEnds(w)
  <2>1. worker[w].hand = <<>>
    BY <1>0, <1>8 DEF AckEachEnds, LocalShape
  <2>2. HandIds' = HandIds
    <3> DEFINE l == [Fresh EXCEPT !.pc = "decr", !.amount = worker[w].amount]
    <3>1. worker' = [worker EXCEPT ![w] = l] \/ RetryLoop(w)
      BY <1>8 DEF AckEachEnds
    <3>2. l.hand = <<>>
      BY DEF Fresh
    <3> HIDE DEF l
    <3> QED BY <1>0, <2>1, <3>1, <3>2, HandsFollow, HandsKeep
  <2> QED BY <1>1, <1>8, <2>2 DEF AckEachEnds
<1>9. CASE Decr(w) \/ Clamp(w)
  <2>1. HandIds' = HandIds
    BY <1>0, <1>9, HandsKeep DEF Decr, Clamp
  <2> QED BY <1>1, <1>9, <2>1 DEF Decr, Clamp
<1>10. CASE Retry(w)
  <2>1. worker[w].hand = <<>> /\ UNCHANGED <<queue, admin, dead, discarded>>
    BY <1>0, <1>10 DEF Retry, LocalShape
  <2>2. CASE Idle(w) /\ UNCHANGED proc
    BY <1>0, <2>1, <2>2, HandsKeep, HeldParts DEF Keeps
  <2>3. CASE ~(Idle(w) /\ UNCHANGED proc)
    <3> DEFINE msg == NextRetry(Last(proc))
               pc == IF Retriable(msg) THEN "hold" ELSE "decr"
               l == [Fresh EXCEPT !.hand = <<msg>>, !.pc = pc,
                                  !.amount = IF Retriable(msg) THEN 0 ELSE 1]
    <3>1. proc # <<>> /\ proc' = Front(proc) /\ worker' = [worker EXCEPT ![w] = l]
      BY <1>10, <2>3 DEF Retry
    <3>2. Ids(proc) = Ids(proc') \cup {Last(proc).id} /\ Last(proc) \in Ready
      BY <1>0, <3>1, FrontIds
    <3>3. msg.id = Last(proc).id
      BY <3>2 DEF NextRetry, Ready
    <3>4. Ids(<<msg>>) = {msg.id}
      BY SingletonIds
    <3> HIDE DEF msg, pc
    <3>5. l.hand = <<msg>>
      BY DEF Fresh
    <3> HIDE DEF l
    <3>6. HandIds \subseteq HandIds' \cup Ids(<<>>) /\ {msg.id} \subseteq HandIds'
      BY <1>0, <2>1, <3>1, <3>4, <3>5, HandsFollow
    <3> QED BY <2>1, <3>2, <3>3, <3>6, EmptyIds, HeldParts DEF Keeps
  <2> QED BY <2>2, <2>3
<1>11. CASE Hold(w)
  <2> DEFINE i == [Fresh EXCEPT !.pc = "idle"]
             r == [Fresh EXCEPT !.pc = "retry"]
  <2>1. CASE UNCHANGED queue /\ Fault("window")
    BY <2>1 DEF Keeps, Fault
  <2>2. CASE queue' = worker[w].hand \o queue /\ RetryLoop(w)
    <3>1. worker' = [worker EXCEPT ![w] = r]
      BY <2>2 DEF RetryLoop
    <3> HIDE DEF r
    <3>2. HandIds \subseteq HandIds' \cup Ids(worker[w].hand)
      BY <1>0, <3>1, HandsFollow
    <3>3. Ids(queue') = Ids(worker[w].hand) \cup Ids(queue)
      <4>1. worker[w].hand \in Seq(Ready)
        BY <1>0, <1>11 DEF Hold, LocalShape
      <4> QED BY <1>0, <2>2, <4>1, ConcatIds
    <3>4. UNCHANGED <<proc, admin, dead, discarded>>
      BY <1>11 DEF Hold
    <3> QED BY <3>2, <3>3, <3>4, HeldParts DEF Keeps
  <2> QED BY <1>11, <2>1, <2>2 DEF Hold
<1>12. CASE Park(w)
  <2> DEFINE pushed == dead \o worker[w].hand
             r == [Fresh EXCEPT !.pc = "retry"]
  <2>1. CASE Fault("window")
    BY <2>1 DEF Keeps, Fault
  <2>2. CASE dead' = Trim(pushed)
             /\ discarded' = discarded \cup (Ids(pushed) \ Ids(Trim(pushed)))
    <3>1. worker' = [worker EXCEPT ![w] = r]
      BY <1>12 DEF Park, RetryLoop
    <3> HIDE DEF r
    <3>2. HandIds \subseteq HandIds' \cup Ids(worker[w].hand)
      BY <1>0, <3>1, HandsFollow
    <3>3. Ids(pushed) = Ids(dead) \cup Ids(worker[w].hand)
      BY <1>0, ConcatIds
    <3>4. UNCHANGED <<queue, proc, admin>>
      BY <1>12 DEF Park
    <3> HIDE DEF pushed
    <3> QED BY <2>2, <3>2, <3>3, <3>4, HeldParts DEF Keeps
  <2> QED BY <1>12, <2>1, <2>2 DEF Park
<1>13. CASE Crash(w)
  <2>1. CASE worker[w].hand = <<>>
    <3>1. Fresh.hand = <<>>
      BY DEF Fresh
    <3>2. HandIds' = HandIds
      BY <1>0, <1>13, <2>1, <3>1, HandsFollow DEF Crash
    <3> QED BY <1>1, <1>13, <3>2 DEF Crash
  <2>2. CASE worker[w].hand # <<>>
    BY <1>13, <2>2 DEF Crash, Fault, Keeps
  <2> QED BY <2>1, <2>2
<1> QED BY <1>2, <1>3, <1>4, <1>5, <1>6, <1>7, <1>8, <1>9, <1>10, <1>11, <1>12, <1>13
        DEF Work

LEMMA AdminKeeps ==
  ASSUME Typed, Admin
  PROVE  Keeps
<1> USE DEF lists, history, bounds
<1>0. /\ queue \in Seq(Ready) /\ dead \in Seq(Payload) /\ admin \in Seq(Payload)
      /\ (Admin => HandIds' = HandIds) /\ Ids(<<>>) = {}
  BY EmptyIds DEF Typed, ListsTyped, DeadTyped, Admin, RedrivePop, RedrivePush,
     RedriveFails, AdminCrash, Discard, HandIds
<1>1. CASE RedrivePop
  <2>1. Ids(dead) = Ids(dead') \cup {Head(dead).id} /\ Head(dead) \in Payload
    BY <1>0, <1>1, TailIds DEF RedrivePop
  <2>2. Ids(admin') = {Head(dead).id} /\ Ids(admin) = {}
    BY <1>0, <1>1, <2>1, SingletonIds DEF RedrivePop
  <2>3. UNCHANGED <<queue, proc, discarded>>
    BY <1>1 DEF RedrivePop
  <2> QED BY <1>0, <2>1, <2>2, <2>3, HeldParts DEF Keeps
<1>2. ASSUME admin # <<>> PROVE Ids(<<Requeued>> \o queue) = Ids(queue) \cup Ids(admin)
  <2>1. Requeued \in Ready /\ admin = <<Head(admin)>> /\ Head(admin) \in Payload
    BY <1>0, <1>2, AdminReady, TailIds DEF Typed
  <2>2. Ids(admin) = {Head(admin).id}
    BY <2>1, SingletonIds
  <2>3. Requeued.id = Head(admin).id
    BY <2>1 DEF Requeued
  <2>4. Ids(<<Requeued>> \o queue) = Ids(queue) \cup {Requeued.id}
    BY <1>0, <2>1, PushIds
  <2> QED BY <2>2, <2>3, <2>4
<1>3. CASE RedrivePush
  <2>1. /\ Ids(queue') = Ids(queue) \cup Ids(admin)
        /\ UNCHANGED <<proc, dead, discarded>>
    BY <1>2, <1>3 DEF RedrivePush
  <2> QED BY <1>0, <2>1, HeldParts DEF Keeps
<1>4. CASE RedriveFails
  <2>1. CASE Fault("window")
    BY <2>1 DEF Fault, Keeps
  <2>2. CASE dead' = dead \o admin
    <3>1. Ids(dead') = Ids(dead) \cup Ids(admin)
      BY <1>0, <2>2, ConcatIds
    <3>2. Ids(queue) \subseteq Ids(queue')
      BY <1>2, <1>4 DEF RedriveFails
    <3>3. UNCHANGED <<proc, discarded>>
      BY <1>4 DEF RedriveFails
    <3> QED BY <1>0, <3>1, <3>2, <3>3, HeldParts DEF Keeps
  <2> QED BY <1>4, <2>1, <2>2 DEF RedriveFails
<1>5. CASE AdminCrash
  BY <1>5 DEF AdminCrash, Fault, Keeps
<1>6. CASE Discard
  <2>1. UNCHANGED <<queue, proc, admin>>
        /\ discarded' = discarded \cup (Ids(dead) \ Ids(dead'))
    BY <1>6 DEF Discard
  <2> QED BY <1>0, <2>1, HeldParts DEF Keeps
<1> QED BY <1>1, <1>3, <1>4, <1>5, <1>6 DEF Admin

LEMMA ApiKeeps ==
  ASSUME Typed, NEW m \in Message, Accept(m) \/ AcceptDirectly(m)
  PROVE  Keeps /\ \A x \in accepted' : x \in accepted \/ x \in Held' \/ stored'[x] > 0
<1> USE DEF lists, history, bounds
<1> DEFINE e == [id |-> m, retry |-> 0]
<1>1. Ids(Append(queue, e)) = Ids(queue) \cup {m}
  <2>1. e \in Ready /\ e.id = m /\ queue \in Seq(Ready)
    BY NewReady DEF Typed, ListsTyped
  <2> HIDE DEF e
  <2>2. e \in Ready /\ queue \in Seq(Ready)
    BY <2>1
  <2>3. Ids(Append(queue, e)) = Ids(queue) \cup {e.id}
    BY <2>2, AppendIds
  <2> QED BY <2>1, <2>3
<1>2. /\ Ids(queue') = Ids(queue) \cup {m} \/ Ids(queue') = Ids(queue)
      /\ HandIds' = HandIds /\ UNCHANGED <<proc, dead, admin, discarded>>
  BY <1>1 DEF Accept, AcceptDirectly, HandIds
<1>3. Keeps
  BY <1>2, HeldParts DEF Keeps
<1>4. CASE Accept(m)
  <2>1. m \in Held' /\ accepted' = accepted \cup {m}
    BY <1>1, <1>4, HeldParts DEF Accept
  <2> QED BY <1>3, <2>1
<1>5. CASE AcceptDirectly(m)
  <2>1. CASE accepted' = accepted
    BY <1>3, <2>1
  <2>2. CASE stored' = Store({m}) /\ accepted' = accepted \cup {m}
    <3>1. stored'[m] > 0
      BY <2>2, StoreTyped DEF Typed, HistoryTyped
    <3> QED BY <1>3, <2>2, <3>1
  <2> QED BY <1>5, <2>1, <2>2 DEF AcceptDirectly
<1> QED BY <1>4, <1>5

\* Faults are remembered.
LEMMA HappenedGrows ==
  ASSUME [Next]_vars
  PROVE  happened \subseteq happened'
<1> USE DEF lists, history, bounds, NoFault, Fault
<1>1. CASE \E m \in Message : Accept(m) \/ AcceptDirectly(m)
  BY <1>1 DEF Accept, AcceptDirectly
<1>2. CASE \E w \in Worker : Work(w) \/ Crash(w)
  BY <1>2 DEF Work, Startup, StartupEnds, Fetch, FetchEnds, FetchFails, Commit, Ack,
     AckEach, AckEachEnds, Decr, Clamp, Retry, Hold, Park, Crash
<1>3. CASE Admin
  BY <1>3 DEF Admin, RedrivePop, RedrivePush, RedriveFails, AdminCrash, Discard
<1>4. CASE UNCHANGED vars
  BY <1>4 DEF vars
<1> QED BY <1>1, <1>2, <1>3, <1>4 DEF Next

LEMMA KeptHeld ==
  NoBatchLost <=> ("window" \notin happened =>
                     \A m \in accepted : stored[m] > 0 \/ m \in Held)
BY DEF NoBatchLost, Kept, Held

LEMMA NoBatchLostNext ==
  ASSUME Typed, AckedStored, NoBatchLost, [Next]_vars
  PROVE  NoBatchLost'
<1> SUFFICES ASSUME "window" \notin happened', NEW x \in accepted'
             PROVE  stored'[x] > 0 \/ x \in Held'
  BY DEF NoBatchLost, Kept, Held
<1>1. accepted \subseteq Message /\ \A m \in Message : stored[m] \in Nat
  BY DEF Typed, HistoryTyped
<1>2. \A m \in accepted : stored[m] > 0 \/ m \in Held
  BY KeptHeld, HappenedGrows
<1>3. \A m \in Message : stored[m] > 0 => stored'[m] > 0
  <2>1. \A m \in Message : stored'[m] \in Nat
    BY NextTyped DEF Typed, HistoryTyped
  <2> QED BY <1>1, <2>1, StoredGrows
<1>4. CASE x \in accepted /\ Keeps
  BY <1>1, <1>2, <1>3, <1>4 DEF Keeps
<1>5. CASE \E m \in Message : Accept(m) \/ AcceptDirectly(m)
  BY <1>4, <1>5, ApiKeeps
<1>6. CASE \E w \in Worker : Work(w) \/ Crash(w)
  <2>1. UNCHANGED accepted
    BY <1>6 DEF history, Work, Startup, StartupEnds, Fetch, FetchEnds, FetchFails, Commit,
       Ack, AckEach, AckEachEnds, Decr, Clamp, Retry, Hold, Park, Crash
  <2> QED BY <1>4, <1>6, <2>1, WorkerKeeps
<1>7. CASE Admin
  <2>1. UNCHANGED accepted
    BY <1>7 DEF history, Admin, RedrivePop, RedrivePush, RedriveFails, AdminCrash, Discard
  <2> QED BY <1>4, <1>7, <2>1, AdminKeeps
<1>8. CASE UNCHANGED vars
  <2>1. Held' = Held /\ UNCHANGED accepted
    BY <1>8 DEF vars, lists, history, Held, Buffered, InHand
  <2> QED BY <1>1, <1>2, <1>3, <2>1
<1> QED BY <1>5, <1>6, <1>7, <1>8 DEF Next

\* A message answered durable: true is buffered, being moved, stored, or on the
\* dead letter list until that list drops it, unless a process failed with the
\* message only in its memory: for any number of workers taking each other's
\* batches, whatever commands, transactions and processes fail
\* (ingest_events, main, _requeue_processing_with_retry_cap).
THEOREM NothingAcceptedIsLost == Spec => []NoBatchLost
<1>1. Init => NoBatchLost
  BY DEF Init, NoBatchLost
<1>2. Typed /\ AckedStored /\ NoBatchLost /\ [Next]_vars =>
        (Typed /\ AckedStored /\ NoBatchLost)'
  BY NextTyped, AckedStoredNext, NoBatchLostNext
<1> QED BY <1>1, <1>2, InitTyped, AckedStoredInit, PTL DEF Spec

-----------------------------------------------------------------------------
(* One worker: every message is in one place, and the counter covers it.   *)

Emptied(l) == l.items = <<>> /\ l.hand = <<>> /\ l.amount = 0

SameData(l, k) == k.items = l.items /\ k.hand = l.hand /\ k.amount = l.amount

LEMMA MovedOn ==
  ASSUME worker \in [Worker -> Local], NEW w \in Worker
  PROVE  /\ Idle(w) => worker'[w].pc = "idle" /\ Emptied(worker'[w])
         /\ RetryLoop(w) => worker'[w].pc = "retry" /\ Emptied(worker'[w])
         /\ \A pc : Goto(w, pc) =>
              worker'[w].pc = pc /\ SameData(worker[w], worker'[w])
<1>1. /\ Idle(w) => worker'[w] = [Fresh EXCEPT !.pc = "idle"]
      /\ RetryLoop(w) => worker'[w] = [Fresh EXCEPT !.pc = "retry"]
      /\ \A pc : Goto(w, pc) => worker'[w] = [worker[w] EXCEPT !.pc = pc]
  BY DEF Idle, RetryLoop, Goto
<1>2. ASSUME NEW l, NEW pc, l = [Fresh EXCEPT !.pc = pc] PROVE l.pc = pc /\ Emptied(l)
  BY <1>2 DEF Fresh, Emptied
<1>3. ASSUME NEW k, NEW pc, k = [worker[w] EXCEPT !.pc = pc]
      PROVE  k.pc = pc /\ SameData(worker[w], k)
  <2>1. worker[w] \in Local
    OBVIOUS
  <2> QED BY <1>3, <2>1 DEF Local, SameData
<1> HIDE DEF Local
<1> QED BY <1>1, <1>2, <1>3

LEMMA SoleHand ==
  ASSUME NEW w, Worker = {w}
  PROVE  HandIds = Ids(worker[w].hand) /\ HandIds' = Ids(worker'[w].hand)
<1>1. HandIds = Ids(worker[w].hand)
  BY DEF HandIds
<1>2. HandIds' = Ids(worker'[w].hand)
  BY DEF HandIds
<1> QED BY <1>1, <1>2

LEMMA SoleSettled ==
  ASSUME NEW w, Worker = {w}
  PROVE  /\ Settled <=> BatchThere(worker[w], proc) /\ Covered(worker[w])
         /\ Settled' <=> (BatchThere(worker[w], proc) /\ Covered(worker[w]))'
<1>1. Settled <=> BatchThere(worker[w], proc) /\ Covered(worker[w])
  BY DEF Settled
<1>2. Settled' <=> (BatchThere(worker[w], proc) /\ Covered(worker[w]))'
  BY DEF Settled
<1> QED BY <1>1, <1>2

\* A step that moves no message, and drops at most what is in hand.
LEMMA OnePlaceStays ==
  ASSUME OnePlace, UNCHANGED <<queue, proc, dead, admin, offered>>, HandIds' \subseteq HandIds
  PROVE  OnePlace'
BY DEF OnePlace, NoDup

\* Its counterpart for Settled: the worker drops its batch, or goes on with it.
LEMMA SettledStays ==
  ASSUME Typed, NEW w, Worker = {w}, Settled, UNCHANGED <<queue, proc, backlog>>,
         \/ worker'[w].items = <<>> /\ worker'[w].amount = 0
         \/ /\ worker'[w].items = worker[w].items /\ worker'[w].amount = worker[w].amount
            /\ worker[w].pc \in {"fetch", "commit", "ack"},
         worker'[w].pc \in {"startup", "idle", "retry", "commit", "ack"}
  PROVE  Settled'
<1>1. /\ Len(queue) \in Nat /\ Len(proc) \in Nat /\ backlog \in Int
      /\ worker[w].amount \in Nat
  BY LenProperties DEF Typed, ListsTyped, HistoryTyped, WorkersTyped, Local
<1>2. Credit(worker[w]) \in Nat /\ Credit(worker'[w]) = 0
  BY <1>1 DEF Credit
<1>3. BatchThere(worker[w], proc) /\ Covered(worker[w])
  BY SoleSettled
<1>4. Covered(worker[w])'
  <2>1. Len(queue) + Len(proc) + Credit(worker[w]) =< backlog
    BY <1>3 DEF Covered
  <2>2. Len(queue) + Len(proc) + 0 =< backlog
    BY <1>1, <1>2, <2>1
  <2> QED BY <1>2, <2>2 DEF Covered
<1>5. BatchThere(worker[w], proc)'
  BY <1>3, EmptyIds DEF BatchThere
<1> QED BY <1>4, <1>5, SoleSettled

LEMMA LoopAlone ==
  ASSUME Typed, NEW w, Worker = {w}, OnePlace, Settled,
         Startup(w) \/ StartupEnds(w) \/ Fetch(w) \/ FetchEnds(w) \/ FetchFails(w)
  PROVE  OnePlace' /\ Settled'
<1> USE DEF lists, history, bounds
<1>0. /\ worker \in [Worker -> Local] /\ worker[w] \in Local /\ LocalShape(worker[w])
      /\ queue \in Seq(Ready) /\ proc \in Seq(Ready) /\ worker[w].items \in Seq(Ready)
      /\ Len(queue) \in Nat /\ Len(proc) \in Nat /\ backlog \in Int
      /\ worker[w].amount \in Nat
  BY LenProperties DEF Typed, WorkersTyped, ListsTyped, HistoryTyped, LocalShape, Local
<1>1. BatchThere(worker[w], proc) /\ Covered(worker[w])
  BY SoleSettled
<1>2. CASE StartupEnds(w) \/ FetchFails(w)
  <2>1. worker[w].hand = <<>>
    BY <1>0, <1>2 DEF StartupEnds, FetchFails, LocalShape
  <2>2. /\ worker'[w].pc \in {"idle", "retry"} /\ worker'[w].items = <<>>
        /\ worker'[w].hand = <<>> /\ worker'[w].amount = 0
    <3>1. Idle(w) \/ RetryLoop(w)
      BY <1>2 DEF StartupEnds, FetchFails
    <3> QED BY <1>0, <3>1, MovedOn DEF Emptied
  <2>3. UNCHANGED <<queue, proc, dead, admin, offered, backlog>>
    BY <1>2 DEF StartupEnds, FetchFails
  <2>4. OnePlace'
    BY <2>1, <2>2, <2>3, SoleHand, OnePlaceStays
  <2>5. Settled'
    BY <2>2, <2>3, SettledStays
  <2> QED BY <2>4, <2>5
<1>3. CASE FetchEnds(w)
  <2>1. /\ worker'[w].pc = "commit" /\ worker'[w].items = worker[w].items
        /\ worker'[w].hand = worker[w].hand /\ worker'[w].amount = worker[w].amount
    <3>1. Goto(w, "commit")
      BY <1>3 DEF FetchEnds
    <3> QED BY <1>0, <3>1, MovedOn DEF SameData
  <2>2. UNCHANGED <<queue, proc, dead, admin, offered, backlog>> /\ worker[w].pc = "fetch"
    BY <1>3 DEF FetchEnds
  <2>3. OnePlace'
    BY <2>1, <2>2, SoleHand, OnePlaceStays
  <2>4. Settled'
    BY <2>1, <2>2, SettledStays
  <2> QED BY <2>3, <2>4
<1>4. CASE Startup(w)
  <2> DEFINE e == Last(proc)
  <2>1. /\ Len(proc) \in Nat \ {0} /\ e \in Ready /\ Len(proc') = Len(proc) - 1
        /\ Ids(proc) = Ids(proc') \cup {e.id}
        /\ NoDup(proc) => NoDup(proc') /\ e.id \notin Ids(proc')
    BY <1>0, <1>4, FrontIds DEF Startup
  <2>2. /\ Len(queue') = Len(queue) + 1 /\ Ids(queue') = Ids(queue) \cup {e.id}
        /\ NoDup(queue) /\ e.id \notin Ids(queue) => NoDup(queue')
    BY <1>0, <1>4, <2>1, PushIds DEF Startup, PushBack
  <2>3. UNCHANGED <<worker, dead, admin, offered, backlog>> /\ worker[w].pc = "startup"
    BY <1>4 DEF Startup
  <2>4. HandIds' = HandIds /\ Ids(dead') = Ids(dead) /\ Ids(admin') = Ids(admin)
        /\ NoDup(dead') = NoDup(dead)
    BY <2>3 DEF HandIds
  <2> HIDE DEF e
  <2>5. OnePlace'
    BY <2>1, <2>2, <2>3, <2>4 DEF OnePlace
  <2>6. BatchThere(worker[w], proc)'
    BY <1>1, <2>3 DEF BatchThere
  <2>7. Covered(worker[w])'
    <3>1. Credit(worker[w]) = 0 /\ Credit(worker'[w]) = 0
      BY <2>3 DEF Credit
    <3> QED BY <1>0, <1>1, <2>1, <2>2, <2>3, <3>1 DEF Covered
  <2> QED BY <2>5, <2>6, <2>7, SoleSettled
<1>5. CASE Fetch(w)
  <2> DEFINE e == Last(queue)
             items == Append(worker[w].items, e)
             l == [worker[w] EXCEPT !.items = items,
                     !.pc = IF Len(items) = BatchMessages THEN "commit" ELSE "fetch"]
  <2>1. /\ Len(queue) \in Nat \ {0} /\ e \in Ready /\ Len(queue') = Len(queue) - 1
        /\ Ids(queue) = Ids(queue') \cup {e.id}
        /\ NoDup(queue) => NoDup(queue') /\ e.id \notin Ids(queue')
    BY <1>0, <1>5, FrontIds DEF Fetch
  <2>2. /\ Len(proc') = Len(proc) + 1 /\ Ids(proc') = Ids(proc) \cup {e.id}
        /\ Range(proc') = Range(proc) \cup {e}
        /\ NoDup(proc) /\ e.id \notin Ids(proc) => NoDup(proc')
    BY <1>0, <1>5, <2>1, PushIds DEF Fetch
  <2>3. UNCHANGED <<dead, admin, offered, backlog>> /\ worker[w].pc \in {"idle", "fetch"}
    BY <1>5 DEF Fetch
  <2>4. worker'[w] = l
    BY <1>0, <1>5 DEF Fetch
  <2>5. l.pc \in {"commit", "fetch"} /\ l.items = items /\ l.hand = worker[w].hand
        /\ l.amount = worker[w].amount
    BY <1>0 DEF Local
  <2>6. items \in Seq(Ready) /\ Range(items) = Range(worker[w].items) \cup {e}
        /\ (NoDup(worker[w].items) /\ e.id \notin Ids(worker[w].items) => NoDup(items))
    BY <1>0, <2>1, AppendIds
  <2>7. HandIds' = HandIds /\ Ids(dead') = Ids(dead) /\ Ids(admin') = Ids(admin)
        /\ NoDup(dead') = NoDup(dead)
    <3>1. worker'[w].hand = worker[w].hand
      BY <2>4, <2>5
    <3> QED BY <2>3, <3>1, SoleHand
  <2> HIDE DEF e, items, l
  <2>8. OnePlace'
    BY <2>1, <2>2, <2>3, <2>7 DEF OnePlace
  <2>9. Range(worker[w].items) \subseteq Range(proc)
    BY <1>0, <1>1, <2>3, EmptyIds DEF BatchThere, LocalShape
  <2>10. e.id \notin Ids(worker[w].items)
    <3>1. /\ Ids(proc) = {x.id : x \in Range(proc)}
          /\ Ids(worker[w].items) = {x.id : x \in Range(worker[w].items)}
      BY <1>0, IdsRange
    <3>2. e.id \notin Ids(proc)
      BY <2>1 DEF OnePlace
    <3> QED BY <2>9, <3>1, <3>2
  <2>11. BatchThere(worker[w], proc)'
    BY <1>1, <2>2, <2>3, <2>4, <2>5, <2>6, <2>9, <2>10 DEF BatchThere
  <2>12. Covered(worker[w])'
    <3>1. Credit(worker[w]) = 0 /\ Credit(worker'[w]) = 0
      BY <2>3, <2>4, <2>5 DEF Credit
    <3>2. worker'[w].pc # "clamp"
      BY <2>4, <2>5
    <3> QED BY <1>0, <1>1, <2>1, <2>2, <2>3, <3>1, <3>2 DEF Covered
  <2> QED BY <2>8, <2>11, <2>12, SoleSettled
<1> QED BY <1>2, <1>3, <1>4, <1>5

\* A processing list from which messages were removed.
LEMMA OnePlaceShrinks ==
  ASSUME OnePlace, proc \in Seq(Ready), proc' \in Seq(Ready), NoDup(proc'),
         Range(proc') \subseteq Range(proc),
         UNCHANGED <<queue, dead, admin, offered>>, HandIds' \subseteq HandIds
  PROVE  OnePlace'
<1>1. Ids(proc') \subseteq Ids(proc)
  <2>1. Ids(proc) = {e.id : e \in Range(proc)} /\ Ids(proc') = {e.id : e \in Range(proc')}
    BY IdsRange
  <2> QED BY <2>1
<1>2. /\ Ids(queue') = Ids(queue) /\ Ids(dead') = Ids(dead) /\ Ids(admin') = Ids(admin)
      /\ NoDup(queue') = NoDup(queue) /\ NoDup(dead') = NoDup(dead)
  OBVIOUS
<1> QED BY <1>1, <1>2 DEF OnePlace

LEMMA AckAlone ==
  ASSUME Typed, NEW w, Worker = {w}, OnePlace, Settled, Ack(w)
  PROVE  OnePlace' /\ Settled'
<1> DEFINE items == worker[w].items
           removed == RemovedReceived(items)
           n == IF removed > 0 THEN removed ELSE Len(items)
           l == [Fresh EXCEPT !.pc = "decr", !.amount = n]
           k == [worker[w] EXCEPT !.pc = "ack_each", !.left = Len(items)]
<1>0. /\ worker \in [Worker -> Local] /\ worker[w] \in Local /\ LocalShape(worker[w])
      /\ proc \in Seq(Ready) /\ items \in Seq(Ready)
      /\ Len(queue) \in Nat /\ Len(proc) \in Nat /\ Len(items) \in Nat /\ backlog \in Int
  BY LenProperties DEF Typed, WorkersTyped, ListsTyped, HistoryTyped, LocalShape
<1>1. /\ NoDup(items) /\ Range(items) \subseteq Range(proc) /\ worker[w].amount = 0
      /\ Len(queue) + Len(proc) =< backlog /\ NoDup(proc)
  <2>1. BatchThere(worker[w], proc) /\ Covered(worker[w]) /\ worker[w].pc = "ack"
    BY SoleSettled DEF Ack
  <2>2. Credit(worker[w]) = 0
    BY <2>1 DEF Credit
  <2> QED BY <1>0, <2>1, <2>2 DEF BatchThere, Covered, OnePlace
<1>2. /\ Removed(proc, items) \in Seq(Ready)
      /\ Range(Removed(proc, items)) \subseteq Range(proc)
      /\ NoDup(Removed(proc, items))
      /\ Len(Removed(proc, items)) = Len(proc) - Len(items)
  BY <1>0, <1>1, RemovedIds
<1>3. n \in Nat /\ n =< Len(items)
  <2>1. removed \in Nat /\ removed =< Len(items)
    BY <1>0, <1>1, ReceivedProperties
  <2> HIDE DEF removed
  <2> QED BY <1>0, <2>1
<1>4. /\ UNCHANGED <<queue, dead, admin, offered, backlog>>
      /\ \/ proc' = Removed(proc, items) /\ worker' = [worker EXCEPT ![w] = l]
         \/ /\ proc' = Removed(proc, items) \/ proc' = proc
            /\ worker' = [worker EXCEPT ![w] = k]
  BY DEF Ack, history
<1> HIDE DEF n
<1>5. /\ l.pc = "decr" /\ l.items = <<>> /\ l.hand = <<>> /\ l.amount = n
      /\ k.pc = "ack_each" /\ k.items = items /\ k.hand = worker[w].hand
      /\ k.amount = worker[w].amount
  BY <1>0 DEF Fresh, Local
<1> HIDE DEF l, k
<1>6. \/ proc' = Removed(proc, items) /\ worker'[w] = l
      \/ (proc' = Removed(proc, items) \/ proc' = proc) /\ worker'[w] = k
  BY <1>0, <1>4
<1>7. HandIds' \subseteq HandIds
  <2>1. worker'[w].hand = <<>> \/ worker'[w].hand = worker[w].hand
    BY <1>5, <1>6
  <2> QED BY <2>1, SoleHand, EmptyIds
<1>8. OnePlace'
  <2>1. proc' \in Seq(Ready) /\ NoDup(proc') /\ Range(proc') \subseteq Range(proc)
    BY <1>0, <1>1, <1>2, <1>6
  <2> QED BY <1>0, <1>4, <1>7, <2>1, OnePlaceShrinks
<1>9. BatchThere(worker[w], proc)'
  <2>1. worker'[w].pc \in {"decr", "ack_each"} /\ NoDup(worker'[w].items)
    BY <1>1, <1>5, <1>6, EmptyIds
  <2> QED BY <2>1 DEF BatchThere
<1>10. Covered(worker[w])'
  <2>1. CASE proc' = Removed(proc, items) /\ worker'[w] = l
    <3>1. Credit(worker'[w]) = n /\ worker'[w].pc # "clamp"
      BY <1>5, <2>1 DEF Credit
    <3>2. Len(queue) + Len(proc') + n =< backlog
      <4>1. Len(proc') = Len(proc) - Len(items)
        BY <1>2, <2>1
      <4> QED BY <1>0, <1>1, <1>3, <4>1
    <3> QED BY <1>4, <3>1, <3>2 DEF Covered
  <2>2. CASE (proc' = Removed(proc, items) \/ proc' = proc) /\ worker'[w] = k
    <3>1. Credit(worker'[w]) = 0 /\ worker'[w].pc # "clamp"
      BY <1>1, <1>5, <2>2 DEF Credit
    <3>2. Len(queue) + Len(proc') + 0 =< backlog
      <4>1. Len(proc') = Len(proc) - Len(items) \/ Len(proc') = Len(proc)
        BY <1>2, <2>2
      <4> QED BY <1>0, <1>1, <4>1
    <3> QED BY <1>4, <3>1, <3>2 DEF Covered
  <2> QED BY <1>6, <2>1, <2>2
<1> QED BY <1>8, <1>9, <1>10, SoleSettled

LEMMA AckEachAlone ==
  ASSUME Typed, NEW w, Worker = {w}, OnePlace, Settled, AckEach(w)
  PROVE  OnePlace' /\ Settled'
<1> DEFINE items == worker[w].items
           i == Len(items) - worker[w].left + 1
           raw == items[i]
           next(n) == [worker[w] EXCEPT !.left = @ - 1, !.amount = @ + n]
<1>0. /\ worker \in [Worker -> Local] /\ worker[w] \in Local /\ LocalShape(worker[w])
      /\ proc \in Seq(Ready) /\ items \in Seq(Ready)
      /\ Len(queue) \in Nat /\ Len(proc) \in Nat /\ backlog \in Int
      /\ worker[w].amount \in Nat /\ worker[w].pc = "ack_each"
  BY LenProperties DEF Typed, WorkersTyped, ListsTyped, HistoryTyped, LocalShape, Local,
     AckEach
<1>1. /\ NoDup(items) /\ Len(queue) + Len(proc) + worker[w].amount =< backlog
      /\ NoDup(proc)
  <2>1. BatchThere(worker[w], proc) /\ Covered(worker[w])
    BY SoleSettled
  <2>2. Credit(worker[w]) = worker[w].amount
    BY <1>0 DEF Credit
  <2> QED BY <1>0, <2>1, <2>2 DEF BatchThere, Covered, OnePlace
<1>2. raw \in Range(items)
  <2>1. /\ Len(items) \in Nat /\ worker[w].left \in Nat
        /\ worker[w].left > 0 /\ worker[w].left =< Len(items)
    BY <1>0, LenProperties DEF AckEach, LocalShape, Local
  <2>2. i \in 1 .. Len(items)
    BY <2>1
  <2> HIDE DEF i
  <2> QED BY <1>0, <2>2, RangeAt
<1>3. Copies(items, raw) = 1
  <2> HIDE DEF raw
  <2> QED BY <1>0, <1>1, <1>2, CopiesProperties
<1>4. /\ UNCHANGED <<queue, dead, admin, offered, backlog>>
      /\ \/ /\ proc' = RemoveFirst(proc, raw)
            /\ worker' = [worker EXCEPT ![w] =
                            next(IF Contains(proc, raw) THEN Copies(items, raw) ELSE 0)]
         \/ /\ proc' = RemoveFirst(proc, raw) \/ proc' = proc
            /\ worker' = [worker EXCEPT ![w] = next(0)]
  BY DEF AckEach, history
<1>5. /\ RemoveFirst(proc, raw) \in Seq(Ready)
      /\ Contains(proc, raw) <=> raw \in Range(proc)
      /\ raw \notin Range(proc) => RemoveFirst(proc, raw) = proc
      /\ raw \in Range(proc) => Len(RemoveFirst(proc, raw)) = Len(proc) - 1
      /\ Range(RemoveFirst(proc, raw)) \subseteq Range(proc)
      /\ NoDup(RemoveFirst(proc, raw))
  <2> HIDE DEF raw
  <2> QED BY <1>0, <1>1, RemoveFirstIds
<1>6. ASSUME NEW n \in Nat
      PROVE  /\ next(n).pc = "ack_each" /\ next(n).items = items
             /\ next(n).hand = worker[w].hand /\ next(n).amount = worker[w].amount + n
  BY <1>0 DEF Local
<1> HIDE DEF raw, next
<1>7. PICK n \in {0, 1} :
        /\ worker'[w] = next(n)
        /\ proc' = RemoveFirst(proc, raw) \/ proc' = proc
        /\ n = 1 => Len(proc') = Len(proc) - 1
  BY <1>0, <1>3, <1>4, <1>5
<1>8. /\ worker'[w].pc = "ack_each" /\ worker'[w].items = items
      /\ worker'[w].hand = worker[w].hand /\ worker'[w].amount = worker[w].amount + n
  BY <1>6, <1>7
<1>9. OnePlace'
  <2>1. proc' \in Seq(Ready) /\ NoDup(proc') /\ Range(proc') \subseteq Range(proc)
    BY <1>0, <1>1, <1>5, <1>7
  <2>2. HandIds' = HandIds
    BY <1>8, SoleHand
  <2> QED BY <1>0, <1>4, <2>1, <2>2, OnePlaceShrinks
<1>10. BatchThere(worker[w], proc)'
  BY <1>1, <1>8 DEF BatchThere
<1>11. Covered(worker[w])'
  <2>1. Credit(worker'[w]) = worker[w].amount + n /\ worker'[w].pc # "clamp"
    BY <1>8 DEF Credit
  <2>2. Len(proc') = Len(proc) - 1 \/ (n = 0 /\ Len(proc') = Len(proc))
    BY <1>5, <1>7
  <2>3. Len(queue) + Len(proc') + (worker[w].amount + n) =< backlog
    BY <1>0, <1>1, <2>2
  <2> QED BY <1>4, <2>1, <2>3 DEF Covered
<1> QED BY <1>9, <1>10, <1>11, SoleSettled

\* A step that moves no message and leaves the counter to cover what is left.
LEMMA QuietAlone ==
  ASSUME Typed, NEW w, Worker = {w}, OnePlace, Settled,
         UNCHANGED <<queue, proc, dead, admin, offered, backlog>>,
         worker'[w].items = <<>>, worker'[w].pc \in {"startup", "idle", "retry", "decr"},
         Credit(worker'[w]) \in Nat, Credit(worker'[w]) =< Credit(worker[w]),
         worker'[w].pc = "idle" => worker'[w].amount = 0,
         worker'[w].hand = <<>> \/ worker'[w].hand = worker[w].hand
  PROVE  OnePlace' /\ Settled'
<1>0. /\ Len(queue) \in Nat /\ Len(proc) \in Nat /\ backlog \in Int
      /\ worker[w].amount \in Nat
  BY LenProperties DEF Typed, ListsTyped, HistoryTyped, WorkersTyped, Local
<1>1. Len(queue) + Len(proc) + Credit(worker[w]) =< backlog /\ Credit(worker[w]) \in Nat
  BY <1>0, SoleSettled DEF Covered, Credit
<1>2. OnePlace'
  BY SoleHand, EmptyIds, OnePlaceStays
<1>3. BatchThere(worker[w], proc)'
  BY EmptyIds DEF BatchThere
<1>4. Covered(worker[w])'
  <2>1. Len(queue) + Len(proc) + Credit(worker'[w]) =< backlog
    BY <1>0, <1>1
  <2> QED BY <2>1 DEF Covered
<1> QED BY <1>2, <1>3, <1>4, SoleSettled

LEMMA CommitAlone ==
  ASSUME Typed, NEW w, Worker = {w}, OnePlace, Settled, Commit(w) \/ AckEachEnds(w)
  PROVE  OnePlace' /\ Settled'
<1> USE DEF lists, history, bounds
<1>0. /\ worker \in [Worker -> Local] /\ worker[w] \in Local /\ LocalShape(worker[w])
      /\ worker[w].amount \in Nat
      /\ UNCHANGED <<queue, proc, dead, admin, offered, backlog>>
  BY DEF Typed, WorkersTyped, Local, Commit, AckEachEnds
<1>1. worker[w].hand = <<>>
  BY <1>0 DEF Commit, AckEachEnds, LocalShape
<1>2. Credit(worker[w]) \in Nat
  BY <1>0 DEF Credit
<1>3. ASSUME RetryLoop(w) PROVE OnePlace' /\ Settled'
  <2>1. worker'[w].pc = "retry" /\ Emptied(worker'[w])
    BY <1>0, <1>3, MovedOn
  <2>2. Credit(worker'[w]) = 0
    BY <2>1 DEF Credit
  <2> QED BY <1>0, <1>2, <2>1, <2>2, QuietAlone DEF Emptied
<1>4. ASSUME Goto(w, "ack"), Commit(w) PROVE OnePlace' /\ Settled'
  <2>1. worker'[w].pc = "ack" /\ SameData(worker[w], worker'[w])
    BY <1>0, <1>4, MovedOn
  <2>2. OnePlace'
    BY <1>0, <2>1, SoleHand, OnePlaceStays DEF SameData
  <2>3. Settled'
    BY <1>0, <1>4, <2>1, SettledStays DEF SameData, Commit
  <2> QED BY <2>2, <2>3
<1>5. CASE Commit(w)
  BY <1>3, <1>4, <1>5 DEF Commit
<1>6. CASE AckEachEnds(w)
  <2> DEFINE l == [Fresh EXCEPT !.pc = "decr", !.amount = worker[w].amount]
  <2>1. CASE worker' = [worker EXCEPT ![w] = l]
    <3>1. l.pc = "decr" /\ l.items = <<>> /\ l.hand = <<>> /\ l.amount = worker[w].amount
      BY DEF Fresh
    <3> HIDE DEF l
    <3>2. worker'[w] = l
      BY <1>0, <2>1
    <3>3. Credit(l) = worker[w].amount /\ Credit(worker[w]) = worker[w].amount
      BY <1>6, <3>1 DEF Credit, AckEachEnds
    <3> QED BY <1>0, <3>1, <3>2, <3>3, QuietAlone
  <2> QED BY <1>3, <1>6, <2>1 DEF AckEachEnds
<1> QED BY <1>5, <1>6

LEMMA DecrAlone ==
  ASSUME Typed, NEW w, Worker = {w}, OnePlace, Settled, Decr(w) \/ Clamp(w)
  PROVE  OnePlace' /\ Settled'
<1> USE DEF lists, history, bounds
<1>0. /\ worker \in [Worker -> Local] /\ worker[w] \in Local /\ worker[w].amount \in Nat
      /\ Len(queue) \in Nat /\ Len(proc) \in Nat /\ backlog \in Int
      /\ UNCHANGED <<queue, proc, dead, admin, offered>>
  BY LenProperties DEF Typed, ListsTyped, HistoryTyped, WorkersTyped, Local, Decr, Clamp
<1>1. BatchThere(worker[w], proc) /\ Covered(worker[w])
  BY SoleSettled
<1>2. Decr(w) /\ worker[w].pc = "decr"
  BY <1>1 DEF Decr, Clamp, Covered
<1>3. Len(queue) + Len(proc) + worker[w].amount =< backlog
  BY <1>1, <1>2 DEF Covered, Credit
<1>4. backlog' \in Int /\ Len(queue) + Len(proc) =< backlog' /\ ~(backlog' < 0)
  <2>1. backlog' = backlog - worker[w].amount \/ backlog' = backlog
    BY <1>2 DEF Decr
  <2> QED BY <1>0, <1>3, <2>1
<1>5. Resume(w)
  BY <1>2, <1>4 DEF Decr
<1>6. /\ worker'[w].pc \in {"idle", "park"}
      /\ Emptied(worker'[w]) \/ SameData(worker[w], worker'[w])
      /\ worker'[w].pc = "idle" => Emptied(worker'[w])
  BY <1>0, <1>5, MovedOn DEF Resume
<1>7. OnePlace'
  <2>1. worker'[w].hand = <<>> \/ worker'[w].hand = worker[w].hand
    BY <1>6 DEF Emptied, SameData
  <2>2. HandIds' \subseteq HandIds
    BY <2>1, SoleHand, EmptyIds
  <2> QED BY <1>0, <2>2, OnePlaceStays
<1>8. BatchThere(worker[w], proc)'
  <2>1. NoDup(worker'[w].items)
    BY <1>1, <1>6, EmptyIds DEF BatchThere, Emptied, SameData
  <2> QED BY <1>6, <2>1 DEF BatchThere, Emptied
<1>9. Covered(worker[w])'
  <2>1. Credit(worker'[w]) = 0 /\ worker'[w].pc # "clamp"
    BY <1>6 DEF Credit
  <2>2. Len(queue) + Len(proc) + 0 =< backlog'
    BY <1>0, <1>4
  <2> QED BY <1>0, <2>1, <2>2 DEF Covered
<1> QED BY <1>7, <1>8, <1>9, SoleSettled

LEMMA RetryAlone ==
  ASSUME Typed, NEW w, Worker = {w}, OnePlace, Settled, Retry(w)
  PROVE  OnePlace' /\ Settled'
<1> USE DEF lists, history, bounds
<1>0. /\ worker \in [Worker -> Local] /\ worker[w] \in Local /\ LocalShape(worker[w])
      /\ proc \in Seq(Ready) /\ Len(queue) \in Nat /\ Len(proc) \in Nat /\ backlog \in Int
      /\ worker[w].pc = "retry"
      /\ UNCHANGED <<queue, dead, admin, offered, backlog>>
  BY LenProperties DEF Typed, ListsTyped, HistoryTyped, WorkersTyped, Retry
<1>1. worker[w].hand = <<>> /\ Credit(worker[w]) = 0
  BY <1>0 DEF LocalShape, Credit
<1>2. CASE Idle(w) /\ UNCHANGED proc
  <2>1. worker'[w].pc = "idle" /\ Emptied(worker'[w])
    BY <1>0, <1>2, MovedOn
  <2>2. Credit(worker'[w]) = 0
    BY <2>1 DEF Credit
  <2> QED BY <1>0, <1>1, <1>2, <2>1, <2>2, QuietAlone DEF Emptied
<1>3. CASE ~(Idle(w) /\ UNCHANGED proc)
  <2> DEFINE e == Last(proc)
             msg == NextRetry(e)
             pc == IF Retriable(msg) THEN "hold" ELSE "decr"
             n == IF Retriable(msg) THEN 0 ELSE 1
             l == [Fresh EXCEPT !.hand = <<msg>>, !.pc = pc, !.amount = n]
  <2>1. proc # <<>> /\ proc' = Front(proc) /\ worker' = [worker EXCEPT ![w] = l]
    BY <1>3 DEF Retry
  <2>2. /\ Len(proc) \in Nat \ {0} /\ e \in Ready /\ Len(proc') = Len(proc) - 1
        /\ Ids(proc) = Ids(proc') \cup {e.id}
        /\ NoDup(proc) => NoDup(proc') /\ e.id \notin Ids(proc')
    BY <1>0, <2>1, FrontIds
  <2>3. msg.id = e.id
    BY <2>2 DEF NextRetry, Ready
  <2>4. Ids(<<msg>>) = {e.id}
    BY <2>3, SingletonIds
  <2>5. (pc = "hold" /\ n = 0) \/ (pc = "decr" /\ n = 1)
    OBVIOUS
  <2> HIDE DEF e, msg, pc, n
  <2>6. l.pc = pc /\ l.items = <<>> /\ l.hand = <<msg>> /\ l.amount = n
    BY DEF Fresh
  <2> HIDE DEF l
  <2>7. worker'[w] = l
    BY <1>0, <2>1
  <2>8. HandIds = {} /\ HandIds' = {e.id}
    BY <1>1, <2>4, <2>6, <2>7, SoleHand, EmptyIds
  <2>9. /\ Ids(queue') = Ids(queue) /\ Ids(dead') = Ids(dead) /\ Ids(admin') = Ids(admin)
        /\ NoDup(queue') = NoDup(queue) /\ NoDup(dead') = NoDup(dead) /\ offered' = offered
    BY <1>0
  <2>10. OnePlace'
    BY <2>2, <2>8, <2>9 DEF OnePlace
  <2>11. BatchThere(worker[w], proc)'
    BY <2>5, <2>6, <2>7, EmptyIds DEF BatchThere
  <2>12. Covered(worker[w])'
    <3>1. Credit(worker'[w]) = 1 /\ worker'[w].pc # "clamp"
      BY <2>5, <2>6, <2>7 DEF Credit
    <3>2. Len(queue) + Len(proc) =< backlog
      BY <1>0, <1>1, SoleSettled DEF Covered
    <3>3. Len(queue) + Len(proc') + 1 =< backlog
      BY <1>0, <2>2, <3>2
    <3> QED BY <1>0, <3>1, <3>3 DEF Covered
  <2> QED BY <2>10, <2>11, <2>12, SoleSettled
<1> QED BY <1>2, <1>3

LEMMA HandNoDup ==
  ASSUME NEW V, NEW s \in Seq(V), Len(s) =< 1
  PROVE  NoDup(s)
<1>1. \A i, j \in DOMAIN s : i = j
  BY LenProperties
<1> QED BY <1>1 DEF NoDup

LEMMA HoldAlone ==
  ASSUME Typed, NEW w, Worker = {w}, OnePlace, Settled, Hold(w)
  PROVE  OnePlace' /\ Settled'
<1> USE DEF lists, history, bounds
<1> DEFINE hand == worker[w].hand
<1>0. /\ worker \in [Worker -> Local] /\ worker[w] \in Local /\ LocalShape(worker[w])
      /\ queue \in Seq(Ready) /\ Len(queue) \in Nat /\ Len(proc) \in Nat /\ backlog \in Int
      /\ worker[w].pc = "hold"
      /\ UNCHANGED <<proc, dead, admin, offered, backlog>>
  BY LenProperties DEF Typed, ListsTyped, HistoryTyped, WorkersTyped, Hold
<1>1. hand \in Seq(Ready) /\ hand # <<>> /\ Len(hand) =< 1 /\ Credit(worker[w]) = 1
  BY <1>0 DEF LocalShape, Credit
<1>2. NoDup(hand) /\ Len(hand) = 1
  <2> HIDE DEF hand
  <2>1. Len(hand) \in Nat \ {0}
    BY <1>1, TailIds
  <2>2. NoDup(hand)
    BY <1>1, HandNoDup
  <2>3. Len(hand) =< 1
    BY <1>1
  <2>4. \A n \in Nat \ {0} : n =< 1 => n = 1
    OBVIOUS
  <2>5. Len(hand) = 1
    BY <2>1, <2>3, <2>4
  <2> QED BY <2>2, <2>5
<1>3. Idle(w) \/ RetryLoop(w)
  BY DEF Hold
<1>4. /\ worker'[w].pc \in {"idle", "retry"} /\ worker'[w].items = <<>>
      /\ worker'[w].hand = <<>> /\ worker'[w].amount = 0 /\ Credit(worker'[w]) = 0
  <2>1. worker'[w].pc \in {"idle", "retry"} /\ Emptied(worker'[w])
    BY <1>0, <1>3, MovedOn
  <2> QED BY <2>1 DEF Emptied, Credit
<1>5. CASE UNCHANGED queue
  BY <1>0, <1>1, <1>4, <1>5, QuietAlone
<1>6. CASE queue' = hand \o queue
  <2>1. /\ Len(queue') = Len(hand) + Len(queue) /\ Ids(queue') = Ids(hand) \cup Ids(queue)
        /\ NoDup(hand) /\ NoDup(queue) /\ Ids(hand) \cap Ids(queue) = {} => NoDup(queue')
    BY <1>0, <1>1, <1>6, ConcatIds
  <2>2. HandIds = Ids(hand) /\ HandIds' = {}
    BY <1>4, SoleHand, EmptyIds
  <2>3. /\ Ids(proc') = Ids(proc) /\ Ids(dead') = Ids(dead) /\ Ids(admin') = Ids(admin)
        /\ NoDup(proc') = NoDup(proc) /\ NoDup(dead') = NoDup(dead) /\ offered' = offered
    BY <1>0
  <2> HIDE DEF hand
  <2>4. OnePlace'
    BY <1>2, <2>1, <2>2, <2>3 DEF OnePlace
  <2>5. BatchThere(worker[w], proc)'
    BY <1>4, EmptyIds DEF BatchThere
  <2>6. Covered(worker[w])'
    <3>1. Len(queue) + Len(proc) + 1 =< backlog
      BY <1>1, SoleSettled DEF Covered
    <3>2. Len(queue') + Len(proc) + 0 =< backlog
      BY <1>0, <1>2, <2>1, <3>1
    <3> QED BY <1>0, <1>4, <3>2 DEF Covered
  <2> QED BY <2>4, <2>5, <2>6, SoleSettled
<1> QED BY <1>5, <1>6 DEF Hold

LEMMA ParkAlone ==
  ASSUME Typed, NEW w, Worker = {w}, OnePlace, Settled, Park(w) \/ Crash(w)
  PROVE  OnePlace' /\ Settled'
<1> USE DEF lists, history, bounds
<1> DEFINE hand == worker[w].hand
           pushed == dead \o hand
<1>0. /\ worker \in [Worker -> Local] /\ worker[w] \in Local /\ LocalShape(worker[w])
      /\ dead \in Seq(Payload) /\ hand \in Seq(Payload) /\ Len(hand) =< 1
      /\ worker[w].amount \in Nat
      /\ UNCHANGED <<queue, proc, admin, offered, backlog>>
  BY DEF Typed, WorkersTyped, DeadTyped, LocalShape, Local, Park, Crash
<1>1. Credit(worker[w]) \in Nat
  BY <1>0 DEF Credit
<1>2. /\ worker'[w].pc \in {"startup", "retry"} /\ worker'[w].items = <<>>
      /\ worker'[w].hand = <<>> /\ worker'[w].amount = 0 /\ Credit(worker'[w]) = 0
  <2>1. worker'[w].pc \in {"startup", "retry"} /\ Emptied(worker'[w])
    <3>1. CASE Park(w)
      BY <1>0, <3>1, MovedOn DEF Park
    <3>2. CASE Crash(w)
      BY <1>0, <3>2 DEF Crash, Fresh, Emptied
    <3> QED BY <3>1, <3>2
  <2> QED BY <2>1 DEF Emptied, Credit
<1>3. CASE UNCHANGED dead
  BY <1>0, <1>1, <1>2, <1>3, QuietAlone
<1>4. CASE dead' = Trim(pushed)
  <2>1. /\ pushed \in Seq(Payload) /\ Ids(pushed) = Ids(dead) \cup Ids(hand)
        /\ NoDup(dead) /\ NoDup(hand) /\ Ids(dead) \cap Ids(hand) = {} => NoDup(pushed)
    BY <1>0, ConcatIds
  <2>2. NoDup(hand)
    BY <1>0, HandNoDup
  <2> HIDE DEF pushed
  <2>3. Ids(dead') \subseteq Ids(pushed) /\ (NoDup(pushed) => NoDup(dead'))
    BY <1>4, <2>1, TrimIds
  <2>4. HandIds = Ids(hand) /\ HandIds' = {}
    BY <1>2, SoleHand, EmptyIds
  <2>5. /\ Ids(queue') = Ids(queue) /\ Ids(proc') = Ids(proc) /\ Ids(admin') = Ids(admin)
        /\ NoDup(queue') = NoDup(queue) /\ NoDup(proc') = NoDup(proc) /\ offered' = offered
    BY <1>0
  <2> HIDE DEF hand
  <2>6. OnePlace'
    BY <2>1, <2>2, <2>3, <2>4, <2>5 DEF OnePlace
  <2>7. BatchThere(worker[w], proc)'
    BY <1>2, EmptyIds DEF BatchThere
  <2>8. Covered(worker[w])'
    <3>1. Len(queue) + Len(proc) + Credit(worker[w]) =< backlog
      BY SoleSettled DEF Covered
    <3>2. Len(queue) \in Nat /\ Len(proc) \in Nat /\ backlog \in Int
      BY LenProperties DEF Typed, ListsTyped, HistoryTyped
    <3>3. Len(queue) + Len(proc) + 0 =< backlog
      BY <1>1, <3>1, <3>2
    <3> QED BY <1>0, <1>2, <3>3 DEF Covered
  <2> QED BY <2>6, <2>7, <2>8, SoleSettled
<1> QED BY <1>3, <1>4 DEF Park, Crash

LEMMA ApiAlone ==
  ASSUME Typed, OnePlace, Settled, NEW m \in Message, Accept(m) \/ AcceptDirectly(m)
  PROVE  OnePlace' /\ Settled'
<1> USE DEF lists, history, bounds
<1> DEFINE e == [id |-> m, retry |-> 0]
<1>0. /\ queue \in Seq(Ready) /\ Len(queue) \in Nat /\ Len(proc) \in Nat /\ backlog \in Int
      /\ UNCHANGED <<proc, dead, admin, worker>> /\ m \notin offered
      /\ offered' = offered \cup {m} /\ worker \in [Worker -> Local]
  BY LenProperties DEF Typed, ListsTyped, HistoryTyped, WorkersTyped, Accept, AcceptDirectly
<1>1. e \in Ready /\ e.id = m
  BY NewReady
<1>2. \/ UNCHANGED <<queue, backlog>>
      \/ queue' = Append(queue, e) /\ backlog' = backlog + 1
  BY DEF Accept, AcceptDirectly
<1> HIDE DEF e
<1>3. /\ e \in Ready /\ queue \in Seq(Ready)
  BY <1>0, <1>1
<1>4. /\ Len(Append(queue, e)) = Len(queue) + 1
      /\ Ids(Append(queue, e)) = Ids(queue) \cup {e.id}
      /\ NoDup(queue) /\ e.id \notin Ids(queue) => NoDup(Append(queue, e))
  BY <1>3, AppendIds
<1>5. HandIds' = HandIds /\ Ids(proc') = Ids(proc) /\ Ids(dead') = Ids(dead)
      /\ Ids(admin') = Ids(admin) /\ NoDup(proc') = NoDup(proc) /\ NoDup(dead') = NoDup(dead)
  BY <1>0 DEF HandIds
<1>6. m \notin Ids(queue)
  BY <1>0 DEF OnePlace
<1>7. \/ Ids(queue') = Ids(queue) /\ NoDup(queue') = NoDup(queue)
      \/ Ids(queue') = Ids(queue) \cup {m} /\ (NoDup(queue) => NoDup(queue'))
  BY <1>1, <1>2, <1>4, <1>6
<1>8. OnePlace'
  BY <1>0, <1>5, <1>7 DEF OnePlace
<1>9. \/ Len(queue') = Len(queue) /\ backlog' = backlog
      \/ Len(queue') = Len(queue) + 1 /\ backlog' = backlog + 1
  BY <1>2, <1>4
<1>10. ASSUME NEW w \in Worker PROVE (BatchThere(worker[w], proc) /\ Covered(worker[w]))'
  <2>1. /\ BatchThere(worker[w], proc) /\ Covered(worker[w])
        /\ worker'[w] = worker[w] /\ worker[w].amount \in Nat
    BY <1>0 DEF Settled, Local
  <2>2. Credit(worker[w]) \in Nat
    BY <2>1 DEF Credit
  <2>3. BatchThere(worker[w], proc)'
    BY <1>0, <2>1
  <2>4. Covered(worker[w])'
    <3>1. Len(queue') + Len(proc) + Credit(worker[w]) =< backlog'
      BY <1>0, <1>9, <2>1, <2>2 DEF Covered
    <3> QED BY <1>0, <2>1, <3>1 DEF Covered
  <2> QED BY <2>3, <2>4
<1> QED BY <1>8, <1>10 DEF Settled

LEMMA AdminAlone ==
  ASSUME Typed, OnePlace, Settled, Admin, "redrive" \notin happened'
  PROVE  OnePlace' /\ Settled'
<1> USE DEF lists, history, bounds
<1>0. /\ queue \in Seq(Ready) /\ Len(queue) \in Nat /\ Len(proc) \in Nat /\ backlog \in Int
      /\ dead \in Seq(Payload) /\ admin \in Seq(Payload)
      /\ UNCHANGED <<proc, worker, offered>> /\ worker \in [Worker -> Local]
  BY LenProperties DEF Typed, ListsTyped, DeadTyped, HistoryTyped, WorkersTyped, Admin,
     RedrivePop, RedrivePush, RedriveFails, AdminCrash, Discard
<1>1. admin # <<>> => /\ Len(<<Requeued>> \o queue) = Len(queue) + 1
                      /\ Ids(<<Requeued>> \o queue) = Ids(queue) \cup {Requeued.id}
                      /\ NoDup(queue) /\ Requeued.id \notin Ids(queue) =>
                           NoDup(<<Requeued>> \o queue)
                      /\ Ids(admin) = {Requeued.id}
  <2> SUFFICES ASSUME admin # <<>>
               PROVE  /\ Len(<<Requeued>> \o queue) = Len(queue) + 1
                      /\ Ids(<<Requeued>> \o queue) = Ids(queue) \cup {Requeued.id}
                      /\ NoDup(queue) /\ Requeued.id \notin Ids(queue) =>
                           NoDup(<<Requeued>> \o queue)
                      /\ Ids(admin) = {Requeued.id}
    OBVIOUS
  <2>1. Requeued \in Ready /\ admin = <<Head(admin)>> /\ Head(admin) \in Payload
    BY <1>0, AdminReady, TailIds DEF Typed
  <2>2. Ids(admin) = {Head(admin).id}
    BY <2>1, SingletonIds
  <2>3. Requeued.id = Head(admin).id
    BY <2>1 DEF Requeued
  <2>4. /\ Len(<<Requeued>> \o queue) = Len(queue) + 1
        /\ Ids(<<Requeued>> \o queue) = Ids(queue) \cup {Requeued.id}
        /\ NoDup(queue) /\ Requeued.id \notin Ids(queue) => NoDup(<<Requeued>> \o queue)
    BY <1>0, <2>1, PushIds
  <2> QED BY <2>2, <2>3, <2>4
<1>2. Ids(<<>>) = {} /\ NoDup(<<>>)
  BY EmptyIds
<1>3. HandIds' = HandIds /\ Ids(proc') = Ids(proc) /\ NoDup(proc') = NoDup(proc)
  BY <1>0 DEF HandIds
<1>4. dead # <<>> => /\ Ids(dead) = Ids(Tail(dead)) \cup {Head(dead).id}
                     /\ NoDup(dead) => NoDup(Tail(dead)) /\ Head(dead).id \notin Ids(Tail(dead))
                     /\ Ids(<<Head(dead)>>) = {Head(dead).id}
  BY <1>0, TailIds, SingletonIds
<1>5. /\ \/ UNCHANGED <<queue, backlog>>
         \/ queue' = <<Requeued>> \o queue /\ backlog' = backlog + 1 /\ admin # <<>>
      /\ \/ UNCHANGED <<dead, admin>>
         \/ admin' = <<>> /\ dead' = dead
         \/ /\ UNCHANGED queue /\ dead # <<>> /\ admin = <<>>
            /\ admin' = <<Head(dead)>> /\ dead' = Tail(dead)
         \/ UNCHANGED <<queue, admin>> /\ dead # <<>> /\ dead' \in {Tail(dead), <<>>}
      /\ admin' = <<>> \/ UNCHANGED queue
  BY DEF Admin, RedrivePop, RedrivePush, RedriveFails, AdminCrash, Discard, Fault
<1>6. OnePlace'
  <2>1. CASE UNCHANGED queue
    <3>1. Ids(queue') = Ids(queue) /\ NoDup(queue') = NoDup(queue)
      BY <2>1
    <3>2. \/ Ids(dead') = Ids(dead) /\ NoDup(dead') = NoDup(dead) /\ Ids(admin') = Ids(admin)
          \/ Ids(dead') = Ids(dead) /\ NoDup(dead') = NoDup(dead) /\ Ids(admin') = {}
          \/ /\ Ids(dead') \subseteq Ids(dead) /\ Ids(admin') \subseteq Ids(dead)
             /\ Ids(dead') \cap Ids(admin') = {}
             /\ NoDup(dead')
          \/ /\ Ids(dead') \subseteq Ids(dead) /\ Ids(admin') = Ids(admin) /\ NoDup(dead')
      BY <1>2, <1>4, <1>5 DEF OnePlace
    <3> QED BY <1>0, <1>3, <3>1, <3>2 DEF OnePlace
  <2>2. CASE queue' = <<Requeued>> \o queue /\ admin # <<>> /\ admin' = <<>> /\ dead' = dead
    <3>1. Ids(admin) = {Requeued.id} /\ Ids(admin') = {} /\ Ids(dead') = Ids(dead)
          /\ NoDup(dead') = NoDup(dead)
          /\ Ids(queue') = Ids(queue) \cup {Requeued.id}
      BY <1>1, <1>2, <2>2
    <3>2. NoDup(queue')
      <4>1. Requeued.id \notin Ids(queue)
        BY <3>1 DEF OnePlace
      <4> QED BY <1>1, <2>2, <4>1 DEF OnePlace
    <3> QED BY <1>0, <1>3, <3>1, <3>2 DEF OnePlace
  <2> QED BY <1>5, <2>1, <2>2
<1>7. \/ Len(queue') = Len(queue) /\ backlog' = backlog
      \/ Len(queue') = Len(queue) + 1 /\ backlog' = backlog + 1
  BY <1>1, <1>5
<1>8. ASSUME NEW w \in Worker PROVE (BatchThere(worker[w], proc) /\ Covered(worker[w]))'
  <2>1. /\ BatchThere(worker[w], proc) /\ Covered(worker[w])
        /\ worker'[w] = worker[w] /\ worker[w].amount \in Nat
    BY <1>0 DEF Settled, Local
  <2>2. Credit(worker[w]) \in Nat
    BY <2>1 DEF Credit
  <2>3. BatchThere(worker[w], proc)'
    BY <1>0, <2>1
  <2>4. Covered(worker[w])'
    <3>1. Len(queue') + Len(proc) + Credit(worker[w]) =< backlog'
      BY <1>0, <1>7, <2>1, <2>2 DEF Covered
    <3> QED BY <1>0, <2>1, <3>1 DEF Covered
  <2> QED BY <2>3, <2>4
<1> QED BY <1>6, <1>8 DEF Settled

LEMMA AloneNext ==
  ASSUME NEW w, Worker = {w}, Typed, Alone, [Next]_vars
  PROVE  Alone'
<1> SUFFICES ASSUME "redrive" \notin happened' PROVE OnePlace' /\ Settled'
  BY DEF Alone
<1>1. OnePlace /\ Settled
  BY HappenedGrows DEF Alone
<1>2. CASE \E m \in Message : Accept(m) \/ AcceptDirectly(m)
  BY <1>1, <1>2, ApiAlone
<1>3. CASE \E v \in Worker : Work(v) \/ Crash(v)
  <2>1. Work(w) \/ Crash(w)
    BY <1>3
  <2> QED BY <1>1, <2>1, LoopAlone, AckAlone, AckEachAlone, CommitAlone, DecrAlone,
             RetryAlone, HoldAlone, ParkAlone DEF Work
<1>4. CASE Admin
  BY <1>1, <1>4, AdminAlone
<1>5. CASE UNCHANGED vars
  <2>1. UNCHANGED <<queue, proc, dead, admin, offered, worker, backlog>>
    BY <1>5 DEF vars, lists, history
  <2>2. OnePlace'
    BY <1>1, <2>1, OnePlaceStays DEF HandIds
  <2>3. Settled'
    BY <1>1, <2>1 DEF Settled, Covered
  <2> QED BY <2>2, <2>3
<1> QED BY <1>2, <1>3, <1>4, <1>5 DEF Next

LEMMA AloneInit ==
  ASSUME NEW w, Worker = {w}, Init
  PROVE  Alone
<1>1. /\ queue = <<>> /\ proc = <<>> /\ dead = <<>> /\ admin = <<>> /\ backlog = 0
      /\ worker[w].pc = "startup" /\ worker[w].items = <<>> /\ worker[w].hand = <<>>
  BY DEF Init, Fresh
<1>2. HandIds = Ids(<<>>)
  BY <1>1, SoleHand
<1>3. OnePlace
  BY <1>1, <1>2, EmptyIds DEF OnePlace
<1>4. BatchThere(worker[w], proc)
  BY <1>1, EmptyIds DEF BatchThere
<1>5. Covered(worker[w])
  BY <1>1, EmptyIds DEF Covered, Credit
<1> QED BY <1>3, <1>4, <1>5, SoleSettled DEF Alone

\* With one worker the counter that backpressure looks at covers the lists it
\* stands for, and what the worker is about to take off it, however acks,
\* crashes, retries and redrives mix, unless the MULTI of a redrive raised
\* (_decr_backlog_events, main): a message is in one place, the batch of the
\* worker is still in the processing list when its acknowledgement is counted.
THEOREM CounterCovers ==
  ASSUME NEW w, Worker = {w}
  PROVE  Spec => []BacklogCovers
<1>1. Init => Typed /\ Alone
  BY InitTyped, AloneInit
<1>2. Typed /\ Alone /\ [Next]_vars => (Typed /\ Alone)'
  BY NextTyped, AloneNext
<1>3. Typed /\ Alone => BacklogCovers
  <2> SUFFICES ASSUME Typed, Alone, "redrive" \notin happened
               PROVE  Len(queue) + Len(proc) =< backlog
    BY DEF BacklogCovers
  <2>1. /\ Len(queue) \in Nat /\ Len(proc) \in Nat /\ backlog \in Int
        /\ worker[w].amount \in Nat
    BY LenProperties DEF Typed, ListsTyped, HistoryTyped, WorkersTyped, Local
  <2>2. Len(queue) + Len(proc) + Credit(worker[w]) =< backlog
    BY SoleSettled DEF Alone, Covered
  <2>3. Credit(worker[w]) \in Nat
    BY <2>1 DEF Credit
  <2> QED BY <2>1, <2>2, <2>3
<1> QED BY <1>1, <1>2, <1>3, PTL DEF Spec

-----------------------------------------------------------------------------
(* One worker that is not interrupted: a message is stored once.           *)

\* The worker moves messages, it makes none.
LEMMA NothingAppears ==
  ASSUME Typed, NEW w, Worker = {w},
         \/ Startup(w) \/ StartupEnds(w) \/ Fetch(w) \/ FetchEnds(w) \/ FetchFails(w)
         \/ Decr(w) \/ Clamp(w) \/ Retry(w) \/ Hold(w) \/ Park(w)
  PROVE  Everywhere' \subseteq Everywhere
<1> USE DEF lists, history, bounds
<1>0. /\ worker \in [Worker -> Local] /\ worker[w] \in Local /\ LocalShape(worker[w])
      /\ queue \in Seq(Ready) /\ proc \in Seq(Ready) /\ dead \in Seq(Payload)
      /\ worker[w].hand \in Seq(Payload)
  BY DEF Typed, WorkersTyped, ListsTyped, DeadTyped, LocalShape, Local
<1>1. Everywhere' = Ids(queue') \cup Ids(proc') \cup Ids(dead') \cup Ids(admin') \cup HandIds'
  BY DEF Everywhere
<1>2. ASSUME UNCHANGED <<queue, proc, dead, admin>>, HandIds' \subseteq HandIds
      PROVE  Everywhere' \subseteq Everywhere
  BY <1>1, <1>2 DEF Everywhere
<1>3. ASSUME Idle(w) \/ RetryLoop(w) PROVE HandIds' = {}
  <2>1. worker'[w].hand = <<>>
    BY <1>0, <1>3, MovedOn DEF Emptied
  <2> QED BY <2>1, SoleHand, EmptyIds
<1>4. ASSUME NEW pc, Goto(w, pc) PROVE HandIds' = HandIds
  <2>1. worker'[w].hand = worker[w].hand
    BY <1>0, <1>4, MovedOn DEF SameData
  <2> QED BY <2>1, SoleHand
<1>5. CASE StartupEnds(w) \/ FetchEnds(w) \/ FetchFails(w) \/ Decr(w) \/ Clamp(w)
  BY <1>2, <1>3, <1>4, <1>5 DEF StartupEnds, FetchEnds, FetchFails, Decr, Clamp, Resume
<1>6. CASE Startup(w)
  <2> DEFINE e == Last(proc)
  <2>1. e \in Ready /\ Ids(proc) = Ids(proc') \cup {e.id}
    BY <1>0, <1>6, FrontIds DEF Startup
  <2>2. Ids(queue') = Ids(queue) \cup {e.id}
    BY <1>0, <1>6, <2>1, PushIds DEF Startup, PushBack
  <2>3. UNCHANGED <<dead, admin>> /\ HandIds' = HandIds
    BY <1>6 DEF Startup, HandIds
  <2> HIDE DEF e
  <2> QED BY <1>1, <2>1, <2>2, <2>3 DEF Everywhere
<1>7. CASE Fetch(w)
  <2> DEFINE e == Last(queue)
             items == Append(worker[w].items, e)
             l == [worker[w] EXCEPT !.items = items,
                     !.pc = IF Len(items) = BatchMessages THEN "commit" ELSE "fetch"]
  <2>1. e \in Ready /\ Ids(queue) = Ids(queue') \cup {e.id}
    BY <1>0, <1>7, FrontIds DEF Fetch
  <2>2. Ids(proc') = Ids(proc) \cup {e.id}
    BY <1>0, <1>7, <2>1, PushIds DEF Fetch
  <2>3. UNCHANGED <<dead, admin>> /\ worker' = [worker EXCEPT ![w] = l]
    BY <1>7 DEF Fetch
  <2>4. l.hand = worker[w].hand
    BY <1>0 DEF Local
  <2> HIDE DEF l, e
  <2>5. HandIds' = HandIds
    BY <1>0, <2>3, <2>4, SoleHand
  <2> QED BY <1>1, <2>1, <2>2, <2>3, <2>5 DEF Everywhere
<1>8. CASE Retry(w)
  <2>1. UNCHANGED <<queue, dead, admin>>
    BY <1>8 DEF Retry
  <2>2. CASE Idle(w) /\ UNCHANGED proc
    BY <1>2, <1>3, <2>1, <2>2
  <2>3. CASE ~(Idle(w) /\ UNCHANGED proc)
    <3> DEFINE e == Last(proc)
               msg == NextRetry(e)
               pc == IF Retriable(msg) THEN "hold" ELSE "decr"
               l == [Fresh EXCEPT !.hand = <<msg>>, !.pc = pc,
                                  !.amount = IF Retriable(msg) THEN 0 ELSE 1]
    <3>1. proc # <<>> /\ proc' = Front(proc) /\ worker' = [worker EXCEPT ![w] = l]
      BY <1>8, <2>3 DEF Retry
    <3>2. e \in Ready /\ Ids(proc) = Ids(proc') \cup {e.id}
      BY <1>0, <3>1, FrontIds
    <3>3. msg.id = e.id
      BY <3>2 DEF NextRetry, Ready
    <3>4. Ids(<<msg>>) = {e.id}
      BY <3>3, SingletonIds
    <3> HIDE DEF e, msg, pc
    <3>5. l.hand = <<msg>>
      BY DEF Fresh
    <3> HIDE DEF l
    <3>6. HandIds' = {e.id}
      <4>1. worker'[w] = l
        BY <1>0, <3>1
      <4> QED BY <3>4, <3>5, <4>1, SoleHand
    <3> QED BY <1>1, <2>1, <3>2, <3>6 DEF Everywhere
  <2> QED BY <2>2, <2>3
<1>9. CASE Hold(w)
  <2>1. UNCHANGED <<proc, dead, admin>> /\ HandIds' = {}
    BY <1>3, <1>9 DEF Hold
  <2>2. CASE UNCHANGED queue
    BY <1>2, <2>1, <2>2
  <2>3. CASE queue' = worker[w].hand \o queue
    <3>1. worker[w].hand \in Seq(Ready)
      BY <1>0, <1>9 DEF Hold, LocalShape
    <3>2. Ids(queue') = Ids(worker[w].hand) \cup Ids(queue)
      BY <1>0, <2>3, <3>1, ConcatIds
    <3> QED BY <1>1, <2>1, <3>2, SoleHand DEF Everywhere
  <2> QED BY <1>9, <2>2, <2>3 DEF Hold
<1>10. CASE Park(w)
  <2>1. UNCHANGED <<queue, proc, admin>> /\ HandIds' = {}
    BY <1>3, <1>10 DEF Park
  <2>2. CASE UNCHANGED dead
    BY <1>2, <2>1, <2>2
  <2>3. CASE dead' = Trim(dead \o worker[w].hand)
    <3> DEFINE pushed == dead \o worker[w].hand
    <3>1. pushed \in Seq(Payload) /\ Ids(pushed) = Ids(dead) \cup Ids(worker[w].hand)
      BY <1>0, ConcatIds
    <3> HIDE DEF pushed
    <3>2. Ids(Trim(pushed)) \subseteq Ids(pushed)
      BY <3>1, TrimIds
    <3>3. Ids(dead') \subseteq Ids(dead) \cup Ids(worker[w].hand)
      BY <2>3, <3>1, <3>2 DEF pushed
    <3> QED BY <1>1, <2>1, <3>3, SoleHand DEF Everywhere
  <2> QED BY <1>10, <2>2, <2>3 DEF Park
<1> QED BY <1>5, <1>6, <1>7, <1>8, <1>9, <1>10

\* A step that stores nothing, of a worker that is not acknowledging.
LEMMA NotYetStays ==
  ASSUME Typed, NEW w, Worker = {w}, NotYet, UNCHANGED <<stored, offered>>,
         worker[w].pc # "ack", worker'[w].pc \notin {"ack", "ack_each"},
         Everywhere' \subseteq Everywhere
  PROVE  NotYet'
<1>1. \A m \in Everywhere : stored[m] = 0
  BY DEF NotYet, Everywhere
<1>2. Everywhere' = Ids(queue') \cup Ids(proc') \cup Ids(dead') \cup Ids(admin') \cup HandIds'
  BY DEF Everywhere
<1> QED BY <1>1, <1>2 DEF NotYet

\* A step of the API or of a dead letter operation.
LEMMA NotYetElse ==
  ASSUME Typed, NotYet, UNCHANGED <<stored, proc, worker>>,
         offered \subseteq offered', offered' \subseteq Message,
         Ids(queue') \cup Ids(dead') \cup Ids(admin') \subseteq
           Ids(queue) \cup Ids(dead) \cup Ids(admin) \cup (offered' \ offered)
  PROVE  NotYet'
<1>1. HandIds' = HandIds /\ Ids(proc') = Ids(proc)
  BY DEF HandIds
<1>2. \A m \in Ids(queue') \cup Ids(dead') \cup Ids(admin') \cup HandIds' : stored[m] = 0
  BY <1>1 DEF NotYet
<1>3. \A m \in Message \ offered' : stored[m] = 0
  BY DEF NotYet
<1> QED BY <1>1, <1>2, <1>3 DEF NotYet

LEMMA CommitCalm ==
  ASSUME Typed, NEW w, Worker = {w}, OnePlace, Settled, NotYet, IdempotentPerBatch,
         Commit(w), happened' \subseteq {"pg"}
  PROVE  NotYet' /\ IdempotentPerBatch'
<1> USE DEF lists, history, bounds
<1> DEFINE items == worker[w].items
<1>0. /\ worker \in [Worker -> Local] /\ worker[w] \in Local /\ LocalShape(worker[w])
      /\ stored \in [Message -> 0 .. 2] /\ proc \in Seq(Ready) /\ items \in Seq(Ready)
      /\ worker[w].pc = "commit"
      /\ UNCHANGED <<queue, proc, dead, admin, offered>>
  BY DEF Typed, WorkersTyped, HistoryTyped, ListsTyped, LocalShape, Commit
<1>1. \A m \in Everywhere : stored[m] = 0
  BY <1>0 DEF NotYet, Everywhere
<1>2. worker[w].hand = <<>>
  BY <1>0 DEF LocalShape
<1>3. CASE RetryLoop(w) /\ stored' = stored
  <2>1. worker'[w].pc = "retry" /\ Emptied(worker'[w])
    BY <1>0, <1>3, MovedOn
  <2>2. HandIds' = HandIds
    BY <1>2, <2>1, SoleHand DEF Emptied
  <2>3. Everywhere' \subseteq Everywhere
    BY <1>0, <2>2 DEF Everywhere
  <2>4. NotYet'
    BY <1>0, <1>3, <2>1, <2>3, NotYetStays
  <2> QED BY <1>3, <2>4 DEF IdempotentPerBatch
<1>4. CASE stored' = Store(Ids(items)) /\ (Goto(w, "ack") \/ Fault("unknown"))
  <2>1. Ids(items) \subseteq Ids(proc)
    <3>1. Range(items) \subseteq Range(proc)
      BY <1>0, SoleSettled DEF BatchThere
    <3>2. Ids(items) = {e.id : e \in Range(items)} /\ Ids(proc) = {e.id : e \in Range(proc)}
      BY <1>0, IdsRange
    <3> QED BY <3>1, <3>2
  <2> HIDE DEF items
  <2>2. \A m \in Message : stored'[m] =< 1
    <3>1. \A m \in Ids(items) : stored[m] = 0
      BY <1>1, <2>1 DEF Everywhere
    <3>2. \A m \in Message : stored[m] \in 0 .. 2 /\ stored[m] =< 1
      BY <1>0 DEF IdempotentPerBatch
    <3> QED BY <1>4, <3>1, <3>2 DEF Store
  <2>3. \A m \in Message : m \notin Ids(items) => stored'[m] = stored[m]
    BY <1>4 DEF Store
  <2>4. CASE Goto(w, "ack")
    <3>1. /\ worker'[w].pc = "ack" /\ worker'[w].items = items
          /\ worker'[w].hand = <<>>
      BY <1>0, <1>2, <2>4, MovedOn DEF SameData, items
    <3>2. HandIds' = {} /\ HandIds = {}
      BY <1>2, <3>1, SoleHand, EmptyIds
    <3>3. /\ Ids(queue') = Ids(queue) /\ Ids(proc') = Ids(proc)
          /\ Ids(dead') = Ids(dead) /\ Ids(admin') = Ids(admin) /\ offered' = offered
      BY <1>0
    <3>4. Ids(queue) \cup Ids(dead) \cup Ids(admin) \cup Ids(proc) \subseteq Message
      BY DEF OnePlace, Typed, HistoryTyped
    <3>5. \A m \in Message \ offered' : stored'[m] = 0
      BY <2>1, <2>3, <3>3 DEF OnePlace, NotYet
    <3>6. \A m \in Ids(queue') \cup Ids(dead') \cup Ids(admin') \cup HandIds' : stored'[m] = 0
      <4> SUFFICES ASSUME NEW m \in Ids(queue) \cup Ids(dead) \cup Ids(admin)
                   PROVE  stored'[m] = 0
        BY <3>2, <3>3
      <4>1. m \notin Ids(items)
        BY <2>1 DEF OnePlace
      <4>2. stored[m] = 0 /\ m \in Message
        BY <1>1, <3>4 DEF Everywhere
      <4> QED BY <2>3, <4>1, <4>2
    <3>7. \A m \in Ids(proc') : stored'[m] = 0 \/ m \in Ids(items)
      BY <1>1, <2>3, <3>3, <3>4 DEF Everywhere
    <3>8. NotYet'
      BY <3>1, <3>5, <3>6, <3>7 DEF NotYet
    <3> QED BY <2>2, <3>8 DEF IdempotentPerBatch
  <2>5. ~Fault("unknown")
    BY DEF Fault
  <2> QED BY <1>4, <2>4, <2>5
<1> QED BY <1>3, <1>4 DEF Commit, RolledBack

LEMMA AckCalm ==
  ASSUME Typed, NEW w, Worker = {w}, OnePlace, Settled, NotYet, Ack(w),
         happened' \subseteq {"pg"}
  PROVE  NotYet'
<1> USE DEF lists, history, bounds
<1> DEFINE items == worker[w].items
           n == IF RemovedReceived(items) > 0 THEN RemovedReceived(items) ELSE Len(items)
           l == [Fresh EXCEPT !.pc = "decr", !.amount = n]
<1>0. /\ worker \in [Worker -> Local] /\ proc \in Seq(Ready) /\ items \in Seq(Ready)
      /\ UNCHANGED <<queue, dead, admin, stored, offered>>
  BY DEF Typed, WorkersTyped, ListsTyped, LocalShape, Ack
<1>1. /\ NoDup(proc) /\ Range(items) \subseteq Range(proc) /\ worker[w].pc = "ack"
      /\ worker[w].hand = <<>>
  BY SoleSettled DEF BatchThere, OnePlace, Ack, Typed, WorkersTyped, LocalShape
<1>2. ~Fault("redis")
  BY DEF Fault
<1>3. proc' = Removed(proc, items) /\ worker' = [worker EXCEPT ![w] = l]
  BY <1>2 DEF Ack
<1> HIDE DEF n
<1>4. l.pc = "decr" /\ l.hand = <<>>
  BY DEF Fresh
<1> HIDE DEF l
<1>5. worker'[w].pc = "decr" /\ HandIds' = {}
  <2>1. worker'[w] = l
    BY <1>0, <1>3
  <2> QED BY <1>4, <2>1, SoleHand, EmptyIds
<1>6. Removed(proc, items) \in Seq(Ready)
      /\ Range(Removed(proc, items)) = Range(proc) \ Range(items)
  BY <1>0, <1>1, RemovedIds
<1>7. \A m \in Ids(proc') : m \in Ids(proc) /\ m \notin Ids(items)
  <2>1. /\ Ids(proc) = {e.id : e \in Range(proc)} /\ Ids(items) = {e.id : e \in Range(items)}
        /\ Ids(proc') = {e.id : e \in Range(proc) \ Range(items)}
    BY <1>0, <1>3, <1>6, IdsRange
  <2>2. \A e, f \in Range(proc) : e.id = f.id => e = f
    BY <1>0, <1>1, NoDupRange
  <2> HIDE DEF items
  <2> QED BY <1>1, <2>1, <2>2
<1>8. \A m \in Ids(proc') : stored'[m] = 0
  BY <1>0, <1>7 DEF NotYet
<1>9. Ids(queue') = Ids(queue) /\ Ids(dead') = Ids(dead) /\ Ids(admin') = Ids(admin)
  BY <1>0
<1> QED BY <1>0, <1>5, <1>8, <1>9 DEF NotYet

LEMMA CalmWorker ==
  ASSUME Typed, NEW w, Worker = {w}, OnePlace, Settled, NotYet, IdempotentPerBatch,
         Work(w) \/ Crash(w), happened' \subseteq {"pg"}
  PROVE  NotYet' /\ IdempotentPerBatch'
<1> USE DEF lists, history, bounds
<1>1. CASE Commit(w)
  BY <1>1, CommitCalm
<1>2. CASE Ack(w)
  <2>1. UNCHANGED stored
    BY <1>2 DEF Ack
  <2> QED BY <1>2, <2>1, AckCalm DEF IdempotentPerBatch
<1>3. ~AckEach(w) /\ ~AckEachEnds(w)
  BY DEF NotYet, AckEach, AckEachEnds
<1>4. ~Crash(w)
  BY DEF Crash, Fault
<1>5. CASE \/ Startup(w) \/ StartupEnds(w) \/ Fetch(w) \/ FetchEnds(w) \/ FetchFails(w)
           \/ Decr(w) \/ Clamp(w) \/ Retry(w) \/ Hold(w) \/ Park(w)
  <2>1. UNCHANGED <<stored, offered>> /\ worker[w].pc \notin {"commit", "ack", "ack_each"}
    BY <1>5 DEF Startup, StartupEnds, Fetch, FetchEnds, FetchFails, Decr, Clamp, Retry,
       Hold, Park
  <2>2. worker'[w].pc \notin {"ack", "ack_each"}
    <3>1. PICK l : worker' = [worker EXCEPT ![w] = l] /\ AckStep(w, l)
      BY <1>5, WorkerSteps DEF Work
    <3>2. worker'[w] = l
      BY <3>1 DEF Typed, WorkersTyped
    <3> QED BY <2>1, <3>1, <3>2 DEF AckStep
  <2>3. Everywhere' \subseteq Everywhere
    BY <1>5, NothingAppears
  <2>4. NotYet'
    BY <2>1, <2>2, <2>3, NotYetStays
  <2> QED BY <2>1, <2>4 DEF IdempotentPerBatch
<1> QED BY <1>1, <1>2, <1>3, <1>4, <1>5 DEF Work

LEMMA CalmElse ==
  ASSUME Typed, OnePlace, NotYet, IdempotentPerBatch, happened' \subseteq {"pg"},
         Admin \/ \E m \in Message : Accept(m) \/ AcceptDirectly(m)
  PROVE  NotYet' /\ IdempotentPerBatch'
<1> USE DEF lists, history, bounds
<1>0. /\ queue \in Seq(Ready) /\ dead \in Seq(Payload) /\ admin \in Seq(Payload)
      /\ offered \subseteq Message
  BY DEF Typed, ListsTyped, DeadTyped, HistoryTyped
<1>1. Ids(<<>>) = {}
  BY EmptyIds
<1>2. ASSUME UNCHANGED <<stored, proc, worker>>,
             offered \subseteq offered', offered' \subseteq Message,
             Ids(queue') \cup Ids(dead') \cup Ids(admin') \subseteq
               Ids(queue) \cup Ids(dead) \cup Ids(admin) \cup (offered' \ offered)
      PROVE  NotYet' /\ IdempotentPerBatch'
  <2>1. NotYet'
    BY <1>2, NotYetElse
  <2> QED BY <1>2, <2>1 DEF IdempotentPerBatch
<1>3. ASSUME NEW m \in Message, Accept(m) PROVE NotYet' /\ IdempotentPerBatch'
  <2> DEFINE e == [id |-> m, retry |-> 0]
  <2>1. e \in Ready /\ e.id = m
    BY NewReady
  <2>2. /\ queue' = Append(queue, e) /\ UNCHANGED <<stored, proc, worker, dead, admin>>
        /\ offered' = offered \cup {m} /\ m \notin offered
    BY <1>3 DEF Accept
  <2> HIDE DEF e
  <2>3. e \in Ready /\ queue \in Seq(Ready)
    BY <1>0, <2>1
  <2>4. Ids(Append(queue, e)) = Ids(queue) \cup {e.id}
    BY <2>3, AppendIds
  <2> QED BY <1>0, <1>2, <2>1, <2>2, <2>4
<1>4. ASSUME NEW m \in Message, AcceptDirectly(m) PROVE FALSE
  BY <1>4 DEF AcceptDirectly, Fault
<1>5. CASE RedrivePop
  <2>1. dead # <<>> /\ dead' = Tail(dead) /\ admin' = <<Head(dead)>>
        /\ UNCHANGED <<stored, proc, worker, queue, offered>>
    BY <1>5 DEF RedrivePop
  <2>2. Ids(dead) = Ids(Tail(dead)) \cup {Head(dead).id} /\ Head(dead) \in Payload
    BY <1>0, <2>1, TailIds
  <2>3. Ids(<<Head(dead)>>) = {Head(dead).id}
    BY <2>2, SingletonIds
  <2> QED BY <1>0, <1>2, <2>1, <2>2, <2>3
<1>6. CASE RedrivePush
  <2>1. /\ queue' = <<Requeued>> \o queue /\ admin' = <<>> /\ admin # <<>>
        /\ UNCHANGED <<stored, proc, worker, dead, offered>>
    BY <1>6 DEF RedrivePush
  <2>2. Requeued \in Ready /\ admin = <<Head(admin)>> /\ Head(admin) \in Payload
    BY <1>0, <2>1, AdminReady, TailIds DEF Typed
  <2>3. Ids(admin) = {Head(admin).id}
    BY <2>2, SingletonIds
  <2>4. Requeued.id = Head(admin).id
    BY <2>2 DEF Requeued
  <2>5. Ids(<<Requeued>> \o queue) = Ids(queue) \cup {Requeued.id}
    BY <1>0, <2>2, PushIds
  <2> QED BY <1>0, <1>1, <1>2, <2>1, <2>3, <2>4, <2>5
<1>7. ~RedriveFails /\ ~AdminCrash
  BY DEF RedriveFails, AdminCrash, Fault
<1>8. CASE Discard
  <2>1. dead # <<>> /\ dead' \in {Tail(dead), <<>>}
        /\ UNCHANGED <<stored, proc, worker, queue, admin, offered>>
    BY <1>8 DEF Discard
  <2>2. Ids(dead) = Ids(Tail(dead)) \cup {Head(dead).id}
    BY <1>0, <2>1, TailIds
  <2>3. Ids(dead') \subseteq Ids(dead)
    BY <1>1, <2>1, <2>2
  <2> QED BY <1>0, <1>2, <2>1, <2>3
<1> QED BY <1>3, <1>4, <1>5, <1>6, <1>7, <1>8 DEF Admin

LEMMA CalmNext ==
  ASSUME NEW w, Worker = {w}, Typed, Alone, Calm, [Next]_vars
  PROVE  Calm'
<1> SUFFICES ASSUME happened' \subseteq {"pg"} PROVE NotYet' /\ IdempotentPerBatch'
  BY DEF Calm
<1>1. OnePlace /\ Settled /\ NotYet /\ IdempotentPerBatch
  BY HappenedGrows DEF Alone, Calm
<1>2. CASE \E m \in Message : Accept(m) \/ AcceptDirectly(m)
  BY <1>1, <1>2, CalmElse
<1>3. CASE \E v \in Worker : Work(v) \/ Crash(v)
  <2>1. Work(w) \/ Crash(w)
    BY <1>3
  <2> QED BY <1>1, <2>1, CalmWorker
<1>4. CASE Admin
  BY <1>1, <1>4, CalmElse
<1>5. CASE UNCHANGED vars
  BY <1>1, <1>5 DEF vars, lists, history, NotYet, HandIds, IdempotentPerBatch
<1> QED BY <1>2, <1>3, <1>4, <1>5 DEF Next

\* One worker that is not interrupted stores a message at most once, whatever
\* is refused, retried and redriven: what is in the lists, in a hand or on its
\* way back from the dead letters is not stored, and what is stored is taken off
\* the processing list before anything else happens to it (main,
\* _requeue_processing_with_retry_cap, deadletter.redrive).
THEOREM StoredAtMostOnce ==
  ASSUME NEW w, Worker = {w}
  PROVE  Spec => []StoredOnce
<1>1. Init => Typed /\ Alone /\ Calm
  <2>1. Init => Calm
    <3> SUFFICES ASSUME Init PROVE Calm
      OBVIOUS
    <3>1. /\ queue = <<>> /\ proc = <<>> /\ dead = <<>> /\ admin = <<>>
          /\ stored = [m \in Message |-> 0]
          /\ worker[w].pc = "startup" /\ worker[w].hand = <<>>
      BY DEF Init, Fresh
    <3>2. HandIds = {}
      BY <3>1, SoleHand, EmptyIds
    <3> QED BY <3>1, <3>2, EmptyIds DEF Calm, NotYet, IdempotentPerBatch
  <2> QED BY <2>1, InitTyped, AloneInit
<1>2. Typed /\ Alone /\ Calm /\ [Next]_vars => (Typed /\ Alone /\ Calm)'
  BY NextTyped, AloneNext, CalmNext
<1>3. Calm => StoredOnce
  BY DEF Calm, StoredOnce
<1> QED BY <1>1, <1>2, <1>3, PTL DEF Spec
=============================================================================
