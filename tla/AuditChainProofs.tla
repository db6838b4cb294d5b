-------------------------- MODULE AuditChainProofs --------------------------
(***************************************************************************)
(* Proofs about AuditChain, for any number of writers, events and prunes,  *)
(* any batch, page and retention: the chain is numbered and linked in      *)
(* commit order; what retention and losses take away is accounted for;     *)
(* the verifier reports the losses, and nothing else without a reason.     *)
(*                                                                         *)
(* CommitOrder alone is not inductive: it says nothing of the rows that an *)
(* open transaction has linked.  InChain adds that they continue the       *)
(* committed chain, and OneLinker that the lock lets one transaction at a  *)
(* time do so; a commit therefore finds the head where the link left it.   *)
(* The other invariants are stated where they are proved: Books for what   *)
(* is gone, Orderly for the order in which it goes, PassInv for what the   *)
(* verifier has read, Fits for the bounds of the types.                    *)
(***************************************************************************)
EXTENDS AuditChain, DataLemmas

ChainRow == [seq : Nat, event : Nat, prev : Nat, created : Int]

WeaklyTyped ==
  /\ rows \subseteq ChainRow
  /\ head \in [seq : Nat, hash : Nat]
  /\ writer \in [Writer -> [stamp : Int, event : Nat, pending : Seq(ChainRow)]]
  /\ clock \in Nat
  /\ issued \in Nat
  /\ log \in Seq(ChainRow)

\* The rows of p continue a chain whose head has number n and hash h.
Continues(p, n, h) ==
  \A i \in 1 .. Len(p) :
    /\ p[i].seq = n + i
    /\ p[i].prev = IF i = 1 THEN h ELSE p[i - 1].event

InChain == \A w \in Writer : Continues(writer[w].pending, head.seq, head.hash)

OneLinker == \A v, w \in Writer : Linking(v) /\ Linking(w) => v = w

ChainInv ==
  /\ WeaklyTyped
  /\ Legacy =< Len(log)
  /\ CommitOrder
  /\ InChain
  /\ OneLinker

-----------------------------------------------------------------------------
\* What migration 0039 leaves behind is a chain.
LEMMA InitChain == ChainInit => ChainInv
<1> SUFFICES ASSUME ChainInit PROVE ChainInv
  OBVIOUS
<1> USE AuditChainAssumption
<1>1. WeaklyTyped
  BY DEF ChainInit, WeaklyTyped, ChainRow, LegacyRow, NoWrite, NoHash, NoStamp
<1>2. Len(log) = Legacy /\ DOMAIN log = 1 .. Legacy
  BY DEF ChainInit
<1>3. CommitOrder
  BY <1>2 DEF ChainInit, CommitOrder, LegacyRow, Floor, NoHash
<1>4. InChain /\ OneLinker
  BY DEF ChainInit, InChain, OneLinker, Continues, Linking, NoWrite
<1> QED
  BY <1>1, <1>2, <1>3, <1>4 DEF ChainInv

\* What linking an event adds to a transaction continues what it has linked.
LEMMA AppendContinues ==
  ASSUME NEW p \in Seq(ChainRow), NEW n \in Nat, NEW h \in Nat,
         Continues(p, n, h),
         NEW r \in ChainRow,
         r.seq = n + Len(p) + 1,
         r.prev = IF p = <<>> THEN h ELSE p[Len(p)].event
  PROVE  Continues(Append(p, r), n, h)
<1> DEFINE q == Append(p, r)
<1>1. Len(q) = Len(p) + 1 /\ q[Len(p) + 1] = r
  OBVIOUS
<1>2. \A i \in 1 .. Len(p) : q[i] = p[i]
  OBVIOUS
<1> SUFFICES ASSUME NEW i \in 1 .. Len(q)
             PROVE  /\ q[i].seq = n + i
                    /\ q[i].prev = IF i = 1 THEN h ELSE q[i - 1].event
  BY DEF Continues
<1>3. CASE i =< Len(p)
  <2>1. i \in 1 .. Len(p)
    BY <1>3, <1>1
  <2>2. i # 1 => i - 1 \in 1 .. Len(p)
    BY <2>1
  <2> QED
    BY <2>1, <2>2, <1>2 DEF Continues
<1>4. CASE i = Len(p) + 1
  <2>1. CASE p = <<>>
    BY <2>1, <1>4, <1>1
  <2>2. CASE p # <<>>
    <3>1. Len(p) \in 1 .. Len(p)
      BY <2>2
    <3> QED
      BY <2>2, <3>1, <1>4, <1>1, <1>2
  <2> QED
    BY <2>1, <2>2
<1> QED
  BY <1>1, <1>3, <1>4

-----------------------------------------------------------------------------
\* Steps that touch neither the transactions nor the head, and add no row.
LEMMA QuietStep ==
  ASSUME ChainInv,
         rows' \subseteq rows,
         UNCHANGED <<head, writer, log>>,
         clock' \in Nat, issued' \in Nat
  PROVE  ChainInv'
<1>1. WeaklyTyped'
  BY DEF ChainInv, WeaklyTyped
<1>2. CommitOrder'
  BY DEF ChainInv, CommitOrder
<1>3. InChain' /\ OneLinker'
  BY DEF ChainInv, InChain, OneLinker, Continues, Linking
<1> QED
  BY <1>1, <1>2, <1>3 DEF ChainInv

\* A transaction stamps a row: it has linked nothing new.
LEMMA StampStep ==
  ASSUME ChainInv, NEW w \in Writer, Stamp(w)
  PROVE  ChainInv'
<1>1. WeaklyTyped'
  <2> DEFINE Txn == [stamp : Int, event : Nat, pending : Seq(ChainRow)]
             t == [writer[w] EXCEPT !.stamp = clock, !.event = issued + 1]
  <2>1. writer \in [Writer -> Txn] /\ clock \in Nat /\ issued \in Nat
    BY DEF ChainInv, WeaklyTyped
  <2>2. t \in Txn
    <3>1. writer[w] \in Txn /\ issued + 1 \in Nat /\ clock \in Int
      BY <2>1
    <3> QED
      BY <3>1, Zenon
  <2>3. writer' \in [Writer -> Txn]
    BY <2>1, <2>2 DEF Stamp
  <2> QED
    BY <2>1, <2>3 DEF ChainInv, WeaklyTyped, Stamp
<1>2. \A v \in Writer : writer'[v].pending = writer[v].pending
  BY DEF ChainInv, WeaklyTyped, Stamp
<1>6. Legacy =< Len(log')
  BY DEF ChainInv, Stamp
<1>3. CommitOrder'
  BY DEF ChainInv, CommitOrder, Stamp
<1>4. InChain'
  <2>1. head' = head
    BY DEF Stamp
  <2>2. \A v \in Writer : Continues(writer'[v].pending, head.seq, head.hash)
    BY <1>2 DEF ChainInv, InChain
  <2> QED
    BY <2>1, <2>2 DEF InChain, Continues
<1>5. OneLinker'
  BY <1>2 DEF ChainInv, OneLinker, Linking
<1> QED
  BY <1>1, <1>3, <1>4, <1>5, <1>6 DEF ChainInv

\* A transaction links a row to the head it sees, under the lock.
LEMMA LinkStep ==
  ASSUME ChainInv, NEW w \in Writer, Link(w)
  PROVE  ChainInv'
<1> DEFINE p == writer[w].pending
           seen == SeenHead(w)
           r == [seq |-> seen.seq + 1, event |-> writer[w].event,
                 prev |-> seen.hash, created |-> writer[w].stamp]
<1>1. p \in Seq(ChainRow) /\ writer[w].event \in Nat /\ writer[w].stamp \in Int
  BY DEF ChainInv, WeaklyTyped
<1>2. head.seq \in Nat /\ head.hash \in Nat
  BY DEF ChainInv, WeaklyTyped
<1>3. Continues(p, head.seq, head.hash)
  BY DEF ChainInv, InChain
<1>4. /\ seen.seq = head.seq + Len(p)
      /\ seen.hash = IF p = <<>> THEN head.hash ELSE p[Len(p)].event
      /\ seen.hash \in Nat
  <2>1. CASE p = <<>>
    BY <2>1, <1>2 DEF SeenHead, Linking
  <2>2. CASE p # <<>>
    <3>1. Len(p) \in 1 .. Len(p) /\ p[Len(p)] \in ChainRow
      BY <2>2, <1>1
    <3>2. p[Len(p)].seq = head.seq + Len(p) /\ p[Len(p)].event \in Nat
      BY <3>1, <1>3 DEF Continues, ChainRow
    <3> QED
      BY <2>2, <3>2 DEF SeenHead, Linking, HeadAt
  <2> QED
    BY <2>1, <2>2
<1>5. r \in ChainRow /\ r.seq = head.seq + Len(p) + 1
      /\ r.prev = IF p = <<>> THEN head.hash ELSE p[Len(p)].event
  BY <1>1, <1>2, <1>4 DEF ChainRow
<1>6. Continues(Append(p, r), head.seq, head.hash)
  BY <1>1, <1>2, <1>3, <1>5, AppendContinues
<1> DEFINE t == [stamp |-> NoStamp, event |-> NoHash,
                 pending |-> Append(p, r)]
<1>7. writer' = [writer EXCEPT ![w] = t]
  BY DEF Link
<1>8. /\ writer'[w].pending = Append(p, r)
      /\ \A v \in Writer \ {w} : writer'[v] = writer[v]
  BY <1>7 DEF ChainInv, WeaklyTyped, NoWrite
<1>9. WeaklyTyped'
  <2>1. Append(p, r) \in Seq(ChainRow)
    BY <1>1, <1>5
  <2>2. t \in [stamp : Int, event : Nat, pending : Seq(ChainRow)]
    BY <2>1 DEF NoStamp, NoHash
  <2> QED
    BY <2>2, <1>7 DEF ChainInv, WeaklyTyped, Link
<1>10. CommitOrder'
  BY DEF ChainInv, CommitOrder, Link
<1>11. InChain'
  <2>1. head' = head
    BY DEF Link
  <2>2. \A v \in Writer : Continues(writer'[v].pending, head.seq, head.hash)
    BY <1>6, <1>8 DEF ChainInv, InChain
  <2> QED
    BY <2>1, <2>2 DEF InChain, Continues
<1>12. OneLinker'
  <2>1. \A v \in Writer \ {w} : writer'[v].pending = <<>>
    BY <1>8 DEF Link, HeadFree, Linking
  <2> QED
    BY <2>1 DEF OneLinker, Linking
<1> QED
  BY <1>9, <1>10, <1>11, <1>12 DEF ChainInv, Link

\* A transaction commits: its rows become the end of the committed chain.
LEMMA CommitStep ==
  ASSUME ChainInv, NEW w \in Writer, Commit(w)
  PROVE  ChainInv'
<1> USE AuditChainAssumption
<1> DEFINE p == writer[w].pending
           n == Len(log)
<1>1. /\ p \in Seq(ChainRow) /\ p # <<>>
      /\ log \in Seq(ChainRow)
      /\ Len(p) \in Nat \ {0} /\ n \in Nat
  BY DEF ChainInv, WeaklyTyped, Commit, Linking
<1>2. /\ head.seq = n /\ Legacy =< n
      /\ head.hash = IF n < Floor THEN NoHash ELSE log[n].event
  BY DEF ChainInv, CommitOrder
<1>3. /\ rows' = rows \cup {p[i] : i \in DOMAIN p}
      /\ head' = HeadAt(p) /\ log' = log \o p
      /\ writer' = [writer EXCEPT ![w] = NoWrite]
  BY DEF Commit
<1>4. \A i \in 1 .. Len(p) :
        /\ p[i] \in ChainRow
        /\ p[i].seq = n + i
        /\ p[i].prev = IF i = 1 THEN head.hash ELSE p[i - 1].event
  BY <1>1, <1>2 DEF ChainInv, InChain, Continues
<1>5. /\ Len(log') = n + Len(p)
      /\ \A i \in 1 .. n : log'[i] = log[i]
      /\ \A i \in 1 .. Len(p) : log'[n + i] = p[i]
  BY <1>1, <1>3
<1>6. head'.seq = n + Len(p) /\ head'.hash = p[Len(p)].event
  <2>1. Len(p) \in 1 .. Len(p)
    BY <1>1
  <2> QED
    BY <2>1, <1>3, <1>4 DEF HeadAt
<1>7. WeaklyTyped'
  <2>1. rows' \subseteq ChainRow /\ log' \in Seq(ChainRow)
    BY <1>1, <1>3, <1>4 DEF ChainInv, WeaklyTyped
  <2>2. head' \in [seq : Nat, hash : Nat]
    <3>1. Len(p) \in 1 .. Len(p)
      BY <1>1
    <3>2. p[Len(p)] \in ChainRow
      BY <3>1, <1>4
    <3> QED
      BY <3>2, <1>3 DEF HeadAt, ChainRow
  <2>3. NoWrite \in [stamp : Int, event : Nat, pending : Seq(ChainRow)]
    BY DEF NoWrite, NoStamp, NoHash
  <2> QED
    BY <2>1, <2>2, <2>3, <1>3 DEF ChainInv, WeaklyTyped, Commit
<1>8. CommitOrder'
  <2>1. head'.seq = Len(log')
    BY <1>5, <1>6
  <2>2. head'.hash = IF Len(log') < Floor THEN NoHash ELSE log'[Len(log')].event
    <3>1. Len(p) \in 1 .. Len(p) /\ ~(n + Len(p) < Floor)
      BY <1>1, <1>2 DEF Floor
    <3> QED
      BY <3>1, <1>5, <1>6
  <2>3. ASSUME NEW i \in DOMAIN log'
        PROVE  log'[i].seq = i /\ (i > Floor => log'[i].prev = log'[i - 1].event)
    <3>1. i \in 1 .. n + Len(p)
      BY <1>1, <1>3, <1>5
    <3>2. CASE i =< n
      <4>1. i \in 1 .. n /\ i \in DOMAIN log
        BY <3>1, <3>2, <1>1
      <4>2. i > Floor => i - 1 \in 1 .. n
        BY <4>1 DEF Floor
      <4> QED
        BY <4>1, <4>2, <1>5 DEF ChainInv, CommitOrder
    <3>3. CASE i > n
      <4>1. PICK j \in 1 .. Len(p) : i = n + j
        <5>1. i - n \in 1 .. Len(p) /\ i = n + (i - n)
          BY <3>1, <3>3, <1>1
        <5> QED
          BY <5>1
      <4>2. log'[i] = p[j]
        BY <4>1, <1>5
      <4>3. CASE j = 1
        <5>1. i > Floor => n \in 1 .. n /\ ~(n < Floor) /\ i - 1 = n
          BY <4>1, <4>3, <1>1, <1>2 DEF Floor
        <5>2. i > Floor => log'[i - 1] = log[n]
          BY <5>1, <1>5
        <5>3. i > Floor => head.hash = log[n].event
          BY <5>1, <1>2
        <5>4. p[j].seq = i /\ p[j].prev = head.hash
          BY <4>1, <4>3, <1>4
        <5> QED
          BY <4>2, <5>2, <5>3, <5>4
      <4>4. CASE j # 1
        <5>1. j - 1 \in 1 .. Len(p) /\ i - 1 = n + (j - 1)
          BY <4>1, <4>4, <1>1
        <5>2. log'[i - 1] = p[j - 1]
          BY <5>1, <1>5
        <5> QED
          BY <4>1, <4>2, <4>4, <5>2, <1>4
      <4> QED
        BY <4>3, <4>4
    <3> QED
      BY <3>1, <3>2, <3>3, <1>1
  <2>4. ASSUME NEW r \in rows'
        PROVE  r.seq \in DOMAIN log' /\ r = log'[r.seq]
    <3>1. CASE r \in rows
      <4>1. r.seq \in DOMAIN log /\ r = log[r.seq]
        BY <3>1 DEF ChainInv, CommitOrder
      <4>2. r.seq \in 1 .. n
        BY <4>1, <1>1
      <4>3. r.seq \in DOMAIN log'
        BY <4>2, <1>1, <1>3, <1>5
      <4> QED
        BY <4>1, <4>2, <4>3, <1>5
    <3>2. CASE r \notin rows
      <4>1. PICK i \in 1 .. Len(p) : r = p[i]
        BY <3>2, <1>1, <1>3
      <4>2. r.seq = n + i /\ log'[n + i] = r
        BY <4>1, <1>4, <1>5
      <4>3. n + i \in 1 .. Len(log')
        BY <1>1, <1>5
      <4>4. DOMAIN log' = 1 .. Len(log')
        BY <1>1, <1>3
      <4> QED
        BY <4>2, <4>3, <4>4
    <3> QED
      BY <3>1, <3>2
  <2> QED
    BY <2>1, <2>2, <2>3, <2>4 DEF CommitOrder
<1>9. \A v \in Writer : writer'[v].pending = <<>>
  <2>1. writer'[w].pending = <<>>
    BY <1>3 DEF ChainInv, WeaklyTyped, NoWrite
  <2>2. \A v \in Writer \ {w} : ~Linking(v) /\ writer'[v] = writer[v]
    BY <1>3 DEF ChainInv, WeaklyTyped, OneLinker, Commit
  <2> QED
    BY <2>1, <2>2 DEF Linking
<1>10. InChain' /\ OneLinker'
  BY <1>9 DEF InChain, OneLinker, Continues, Linking
<1>11. Legacy =< Len(log')
  BY <1>1, <1>2, <1>5
<1> QED
  BY <1>7, <1>8, <1>10, <1>11 DEF ChainInv

\* A rolled back transaction leaves the committed chain as it was.
LEMMA RollbackStep ==
  ASSUME ChainInv, NEW w \in Writer, AbortWrite(w)
  PROVE  ChainInv'
<1>1. writer' = [writer EXCEPT ![w] = NoWrite]
  BY DEF AbortWrite
<1>2. /\ writer'[w].pending = <<>>
      /\ \A v \in Writer \ {w} : writer'[v] = writer[v]
  BY <1>1 DEF ChainInv, WeaklyTyped, NoWrite
<1>3. WeaklyTyped'
  <2>1. NoWrite \in [stamp : Int, event : Nat, pending : Seq(ChainRow)]
    BY DEF NoWrite, NoStamp, NoHash
  <2> QED
    BY <2>1, <1>1 DEF ChainInv, WeaklyTyped, AbortWrite
<1>4. CommitOrder'
  BY DEF ChainInv, CommitOrder, AbortWrite
<1>5. InChain'
  <2>1. head' = head
    BY DEF AbortWrite
  <2>2. \A v \in Writer : Continues(writer'[v].pending, head.seq, head.hash)
    BY <1>2 DEF ChainInv, InChain, Continues
  <2> QED
    BY <2>1, <2>2 DEF InChain, Continues
<1>6. OneLinker'
  BY <1>2 DEF ChainInv, OneLinker, Linking
<1>7. Legacy =< Len(log')
  BY DEF ChainInv, AbortWrite
<1> QED
  BY <1>3, <1>4, <1>5, <1>6, <1>7 DEF ChainInv

-----------------------------------------------------------------------------
LEMMA ChainStep == ChainInv /\ [ChainNext]_chainVars => ChainInv'
<1> SUFFICES ASSUME ChainInv, [ChainNext]_chainVars PROVE ChainInv'
  OBVIOUS
<1>0. clock \in Nat /\ issued \in Nat
  BY DEF ChainInv, WeaklyTyped
<1>1. CASE Tick
  BY <1>0, <1>1, QuietStep DEF Tick
<1>2. CASE \E w \in Writer : Stamp(w)
  BY <1>2, StampStep
<1>3. CASE \E w \in Writer : Link(w)
  BY <1>3, LinkStep
<1>4. CASE \E w \in Writer : Commit(w)
  BY <1>4, CommitStep
<1>5. CASE \E w \in Writer : AbortWrite(w)
  BY <1>5, RollbackStep
<1>6. CASE Prune
  <2>1. rows' \subseteq rows
    BY <1>6 DEF Prune
  <2> QED
    BY <2>1, <1>0, <1>6, QuietStep DEF Prune
<1>7. CASE Lose
  <2>1. rows' \subseteq rows
    BY <1>7 DEF Lose
  <2> QED
    BY <2>1, <1>0, <1>7, QuietStep DEF Lose
<1>8. CASE StartPass
  BY <1>0, <1>8, QuietStep DEF StartPass
<1>9. CASE ReadPage
  BY <1>0, <1>9, QuietStep DEF ReadPage
<1>10. CASE ReadPredecessor
  BY <1>0, <1>10, QuietStep DEF ReadPredecessor
<1>11. CASE ReadCheckpoint
  BY <1>0, <1>11, QuietStep DEF ReadCheckpoint
<1>12. CASE UNCHANGED chainVars
  BY <1>0, <1>12, QuietStep DEF chainVars
<1> QED
  BY <1>1, <1>2, <1>3, <1>4, <1>5, <1>6, <1>7, <1>8, <1>9, <1>10, <1>11,
     <1>12 DEF ChainNext

\* Transactions continue the committed chain one at a time, whatever the
\* number of writers: locked_head and link_event, with commits and rollbacks.
THEOREM ChainInvariant == ChainSpec => []ChainInv
<1>1. ChainInit => ChainInv
  BY InitChain
<1>2. ChainInv /\ [ChainNext]_chainVars => ChainInv'
  BY ChainStep
<1> QED
  BY <1>1, <1>2, PTL DEF ChainSpec

\* Sequence order is commit order, the chain does not fork and has no gap, and
\* the head names the newest event, for any number of writers and events.
THEOREM CommitOrdered == ChainSpec => []CommitOrder
<1>1. ChainInv => CommitOrder
  BY DEF ChainInv
<1> QED
  BY <1>1, ChainInvariant, PTL

-----------------------------------------------------------------------------
(* The rows of a set in the order of their numbers.                        *)

\* The numbers of the rows of S lie in 1 .. n.
Numbered(S, n) == \A r \in S : r.seq \in 1 .. n

\* First and Last find a row with the least and the greatest number.
LEMMA FirstLast ==
  ASSUME NEW n \in Nat, NEW S, Numbered(S, n), S # {}
  PROVE  /\ First(S) \in S /\ \A s \in S : First(S).seq =< s.seq
         /\ Last(S) \in S /\ \A s \in S : s.seq =< Last(S).seq
<1> DEFINE N == {s.seq : s \in S}
           M == {n - s.seq : s \in S}
<1>1. \A s \in S : s.seq \in Nat /\ n - s.seq \in Nat
  BY DEF Numbered
<1>2. PICK f \in S : \A s \in S : f.seq =< s.seq
  <2>1. N \in SUBSET Nat /\ N # {}
    BY <1>1
  <2>2. \E k \in N : \A m \in N : k =< m
    <3> HIDE DEF N
    <3> QED BY <2>1, LeastOf
  <2> QED BY <2>2
<1>3. PICK l \in S : \A s \in S : l.seq >= s.seq
  <2>1. M \in SUBSET Nat /\ M # {}
    BY <1>1
  <2>2. \E k \in M : \A m \in M : k =< m
    <3> HIDE DEF M
    <3> QED BY <2>1, LeastOf
  <2>3. PICK l \in S : \A s \in S : n - l.seq =< n - s.seq
    BY <2>2
  <2>4. \A s \in S : l.seq >= s.seq
    BY <1>1, <2>3
  <2> QED BY <2>4
<1>4. First(S) \in S /\ \A s \in S : First(S).seq =< s.seq
  BY <1>2 DEF First
<1>5. Last(S) \in S /\ \A s \in S : Last(S).seq >= s.seq
  BY <1>3 DEF Last
<1>6. Last(S) \in S /\ \A s \in S : s.seq =< Last(S).seq
  BY <1>1, <1>5
<1> QED BY <1>4, <1>6

\* A page or a batch holds the lowest rows, and all of them when it is short.
LEMMA LimitProperties ==
  ASSUME NEW n \in Nat, NEW S, Numbered(S, n), IsFiniteSet(S), NEW k \in Nat \ {0}
  PROVE  /\ Limit(S, k) \subseteq S
         /\ S # {} => Limit(S, k) # {}
         /\ \A p \in Limit(S, k), s \in S \ Limit(S, k) : p.seq < s.seq
         /\ Cardinality(Limit(S, k)) < k => Limit(S, k) = S
<1> DEFINE Lower(r) == {s \in S : s.seq < r.seq}
           P == Limit(S, k)
<1>1. P = {r \in S : Cardinality(Lower(r)) < k}
  BY DEF Limit
<1>2. \A r \in S : r.seq \in Nat
  BY DEF Numbered
<1>3. \A r \in S : IsFiniteSet(Lower(r)) /\ Cardinality(Lower(r)) \in Nat
  BY FS_Subset, FS_CardinalityType
<1>4. ASSUME S # {} PROVE P # {}
  <2> DEFINE f == First(S)
  <2>1. f \in S /\ \A s \in S : f.seq =< s.seq
    BY <1>4, FirstLast
  <2>2. Lower(f) = {}
    <3> HIDE DEF f
    <3> QED BY <1>2, <2>1
  <2>3. Cardinality(Lower(f)) < k
    <3>1. Cardinality({}) = 0
      BY FS_EmptySet
    <3> QED BY <2>2, <3>1
  <2> QED BY <1>1, <2>1, <2>3
<1>5. ASSUME NEW p \in P, NEW s \in S \ P PROVE p.seq < s.seq
  <2>1. p \in S /\ p.seq \in Nat /\ s.seq \in Nat
    BY <1>1, <1>2
  <2> SUFFICES ASSUME s.seq =< p.seq PROVE FALSE
    BY <2>1
  <2>2. Lower(s) \subseteq Lower(p)
    <3> SUFFICES ASSUME NEW x \in S, x.seq < s.seq PROVE x.seq < p.seq
      OBVIOUS
    <3>1. x.seq \in Nat
      BY <1>2
    <3> QED BY <2>1, <3>1
  <2>3. Cardinality(Lower(s)) =< Cardinality(Lower(p))
    <3>1. IsFiniteSet(Lower(p)) /\ Lower(s) \in SUBSET Lower(p)
      BY <1>3, <2>1, <2>2
    <3> HIDE DEF Lower
    <3> QED BY <3>1, FS_Subset
  <2>4. Cardinality(Lower(p)) < k /\ ~(Cardinality(Lower(s)) < k)
    BY <1>1
  <2>5. Cardinality(Lower(p)) \in Nat /\ Cardinality(Lower(s)) \in Nat
    BY <1>3, <2>1
  <2> HIDE DEF Lower
  <2> QED BY <2>3, <2>4, <2>5
<1>6. ASSUME Cardinality(P) < k, P # S PROVE FALSE
  <2>1. S \ P # {} /\ Numbered(S \ P, n)
    BY <1>1, <1>6 DEF Numbered
  <2> DEFINE f == First(S \ P)
  <2>2. f \in S \ P /\ \A s \in S \ P : f.seq =< s.seq
    <3> HIDE DEF P
    <3> QED BY <2>1, FirstLast
  <2> HIDE DEF f
  <2>3. Lower(f) \subseteq P
    <3> SUFFICES ASSUME NEW x \in S, x.seq < f.seq, x \notin P PROVE FALSE
      OBVIOUS
    <3>1. f.seq =< x.seq /\ x.seq \in Nat /\ f.seq \in Nat
      BY <1>2, <2>2
    <3> QED BY <3>1
  <2>4. IsFiniteSet(P) /\ Cardinality(P) \in Nat
    <3>1. P \subseteq S
      BY <1>1
    <3> HIDE DEF P
    <3> QED BY <3>1, FS_Subset, FS_CardinalityType
  <2>5. Cardinality(Lower(f)) =< Cardinality(P)
    <3> HIDE DEF P, Lower
    <3> QED BY <2>3, <2>4, FS_Subset
  <2>6. ~(Cardinality(Lower(f)) < k) /\ Cardinality(Lower(f)) \in Nat
    BY <1>1, <1>3, <2>2
  <2> HIDE DEF P, Lower
  <2> QED BY <1>6, <2>4, <2>5, <2>6
<1> HIDE DEF P
<1>7. P \subseteq S
  BY <1>1
<1>8. Cardinality(P) < k => P = S
  BY <1>6
<1> QED BY <1>4, <1>5, <1>7, <1>8 DEF P

-----------------------------------------------------------------------------
(* The counts of a set of checkpoints.                                     *)

Counts(C) == MapThenSumSet(LAMBDA c : c.count, C)

\* The fold that adds the counts up.
LEMMA CountsFold ==
  ASSUME NEW C, IsFiniteSet(C), \A c \in C : c.count \in Nat
  PROVE  \E g \in [SUBSET C -> Nat] :
           Counts(C) = g[C] /\ SumOf(g, C, [c \in C |-> c.count])
<1> DEFINE f == [c \in C |-> c.count]
           pick == [T \in SUBSET C |-> CHOOSE x \in T : TRUE]
           step == [a \in C \X Nat |-> a[1].count + a[2]]
           Fold(g) == [T \in SUBSET C |-> IF T = {} THEN 0
                         ELSE (CHOOSE x \in T : TRUE).count
                                + g[T \ {CHOOSE x \in T : TRUE}]]
           fold == CHOOSE g : g = Fold(g)
<1>1. Counts(C) = fold[C]
  BY DEF Counts, MapThenSumSet, MapThenFoldSet
<1>2. IsFold(C, Nat, 0, step, pick)
  BY DEF IsFold
<1>3. PICK g \in [SUBSET C -> Nat] : Folds(g, C, 0, step, pick)
  <2> HIDE DEF step, pick
  <2> QED BY <1>2, FoldExists
<1>4. ASSUME NEW T \in SUBSET C, T # {}, NEW x, x = CHOOSE y \in T : TRUE
      PROVE  g[T] = x.count + g[T \ {x}]
  <2>1. x \in T /\ pick[T] = x
    BY <1>4
  <2>2. g[T] = step[<<x, g[T \ {x}]>>]
    BY <1>3, <1>4, <2>1 DEF Folds
  <2>3. <<x, g[T \ {x}]>> \in C \X Nat
    BY <2>1
  <2> QED BY <2>2, <2>3
<1>5. g[{}] = 0
  BY <1>3 DEF Folds
<1>6. g = Fold(g)
  BY <1>4, <1>5
<1>7. fold = Fold(fold)
  BY <1>6
<1>8. \A T \in SUBSET C : Fold(fold)[T] =
        IF T = {} THEN 0 ELSE (CHOOSE x \in T : TRUE).count
                                + fold[T \ {CHOOSE x \in T : TRUE}]
  <2> HIDE DEF fold
  <2> QED OBVIOUS
<1>9. DOMAIN fold = SUBSET C
  <2> HIDE DEF fold
  <2>1. DOMAIN Fold(fold) = SUBSET C
    OBVIOUS
  <2> QED BY <1>7, <2>1
<1> HIDE DEF fold, Fold, step, pick
<1>10. fold[{}] = 0
  BY <1>7, <1>8
<1>11. ASSUME NEW T \in SUBSET C, T # {}, NEW x, x = CHOOSE y \in T : TRUE
       PROVE  fold[T] = f[x] + fold[T \ {x}] /\ f[x] \in Nat
  <2>1. fold[T] = x.count + fold[T \ {x}]
    BY <1>7, <1>8, <1>11
  <2>2. x \in C
    BY <1>11
  <2> QED BY <2>1, <2>2
<1> HIDE DEF f
<1>13. \A T \in SUBSET C : fold[T] \in Nat
  <2> DEFINE P == {T \in SUBSET C : fold[T] \in Nat}
  <2>1. {} \in P
    BY <1>10
  <2>2. ASSUME NEW T \in SUBSET C, T # {}
        PROVE  \E x \in T : T \ {x} \in P => T \in P
    <3> DEFINE p == CHOOSE x \in T : TRUE
    <3>1. p \in T
      BY <2>2
    <3>2. fold[T] = f[p] + fold[T \ {p}] /\ f[p] \in Nat
      BY <1>11, <2>2
    <3> HIDE DEF p
    <3> SUFFICES ASSUME T \ {p} \in P PROVE T \in P
      BY <3>1
    <3>3. fold[T \ {p}] \in Nat
      OBVIOUS
    <3>4. fold[T] \in Nat
      BY <3>2, <3>3
    <3> QED BY <3>4
  <2>3. \A T \in SUBSET C : T \in P
    <3> HIDE DEF P
    <3> QED BY <2>1, <2>2, SubsetInduction
  <2> QED BY <2>3
<1>14. fold \in [SUBSET C -> Nat]
  <2>1. fold = [T \in SUBSET C |-> fold[T]]
    <3>1. Fold(fold) = [T \in SUBSET C |-> Fold(fold)[T]]
      BY DEF Fold
    <3>2. fold = [T \in SUBSET C |-> Fold(fold)[T]]
      BY <1>7, <3>1
    <3>3. \A T \in SUBSET C : Fold(fold)[T] = fold[T]
      BY <1>7
    <3> QED BY <3>2, <3>3
  <2> QED BY <1>13, <2>1
<1>15. f \in [C -> Nat]
  BY DEF f
<1>16. SumOf(fold, C, f)
  BY <1>10, <1>11, <1>14, <1>15 DEF SumOf
<1> QED BY <1>1, <1>14, <1>16 DEF f

\* A new checkpoint adds its count.
LEMMA CountsAdd ==
  ASSUME NEW C, IsFiniteSet(C), \A c \in C : c.count \in Nat,
         NEW x, x \notin C, x.count \in Nat
  PROVE  /\ Counts(C) \in Nat
         /\ Counts(C \cup {x}) = Counts(C) + x.count
<1> DEFINE S == C \cup {x}
           e == [c \in C |-> c.count]
           f == [c \in S |-> c.count]
<1>1. IsFiniteSet(S) /\ \A c \in S : c.count \in Nat
  BY FS_AddElement
<1>2. PICK g \in [SUBSET C -> Nat] : Counts(C) = g[C] /\ SumOf(g, C, e)
  BY CountsFold
<1>3. PICK h \in [SUBSET S -> Nat] : Counts(S) = h[S] /\ SumOf(h, S, f)
  <2> HIDE DEF S
  <2> QED BY <1>1, CountsFold
<1>4. f \in [S -> Nat] /\ x \in S /\ f[x] = x.count /\ S \ {x} = C
  BY <1>1
<1>5. C \in SUBSET S /\ \A c \in C : e[c] = f[c]
  OBVIOUS
<1> HIDE DEF S, e, f
<1>6. h[S] = f[x] + h[C]
  <2>1. SumOf(h, S, f) /\ x \in S
    BY <1>3, <1>4
  <2>2. h[S] = f[x] + h[S \ {x}]
    BY <2>1, SumTakeOut
  <2> QED BY <1>4, <2>2
<1>7. g[C] = h[C]
  <2>1. \A T \in SUBSET C : g[T] = h[T]
    BY <1>1, <1>2, <1>3, <1>5, SumUnique
  <2> QED BY <2>1
<1>8. Counts(C) \in Nat
  BY <1>2
<1>9. Counts(S) = Counts(C) + x.count
  <2>1. h[S] = x.count + g[C] /\ g[C] \in Nat
    BY <1>2, <1>4, <1>6, <1>7
  <2>2. h[S] = g[C] + x.count
    BY <2>1
  <2> QED BY <1>2, <1>3, <2>2
<1> QED BY <1>8, <1>9 DEF S

LEMMA CountsNone == Counts({}) = 0
<1>1. IsFiniteSet({})
  BY FS_EmptySet
<1>2. PICK g \in [SUBSET {} -> Nat] : Counts({}) = g[{}] /\ SumOf(g, {}, [c \in {} |-> c.count])
  BY <1>1, CountsFold
<1> QED BY <1>2 DEF SumOf

-----------------------------------------------------------------------------
(* What the steps that change the stored rows do to them.                  *)

\* The rows are finite in number, and each has a number of the chain.
LEMMA RowsFinite ==
  ASSUME ChainInv
  PROVE  /\ IsFiniteSet(rows) /\ head.seq \in Nat
         /\ Numbered(rows, head.seq)
         /\ \A r, s \in rows : r.seq = s.seq => r = s
<1> DEFINE n == head.seq
           f == [r \in rows |-> r.seq]
<1>1. n \in Nat /\ DOMAIN log = 1 .. n
  BY DEF ChainInv, WeaklyTyped, CommitOrder
<1>2. \A r \in rows : r.seq \in 1 .. n /\ r = log[r.seq]
  BY <1>1 DEF ChainInv, CommitOrder
<1>3. \A r, s \in rows : r.seq = s.seq => r = s
  BY <1>2
<1>4. f \in Injection(rows, 1 .. n)
  BY <1>2, <1>3 DEF Injection, IsInjective
<1>5. IsFiniteSet(1 .. n)
  BY <1>1, FS_Interval
<1>6. IsFiniteSet(rows)
  <2> HIDE DEF f, n
  <2> QED BY <1>4, <1>5, FS_Injection
<1> QED BY <1>1, <1>2, <1>3, <1>6 DEF Numbered

\* Rows with different numbers are as many as the sequence is long.
LEMMA DistinctRows ==
  ASSUME NEW p \in Seq(ChainRow),
         \A i, j \in 1 .. Len(p) : p[i].seq = p[j].seq => i = j
  PROVE  /\ IsFiniteSet({p[i] : i \in DOMAIN p})
         /\ Cardinality({p[i] : i \in DOMAIN p}) = Len(p)
<1> DEFINE I == 1 .. Len(p)
           T == {p[i] : i \in DOMAIN p}
           f == [i \in I |-> p[i]]
<1>1. Len(p) \in Nat /\ DOMAIN p = I
  OBVIOUS
<1>2. f \in Surjection(I, T)
  BY <1>1 DEF Surjection
<1>3. f \in Injection(I, T)
  BY <1>1 DEF Injection, IsInjective
<1>4. IsFiniteSet(I) /\ Cardinality(I) = Len(p)
  <2>1. Cardinality(1 .. Len(p)) = IF 1 > Len(p) THEN 0 ELSE Len(p) - 1 + 1
    BY <1>1, FS_Interval
  <2> QED BY <1>1, <2>1, FS_Interval
<1> HIDE DEF I, T, f
<1>5. IsFiniteSet(T) /\ Cardinality(T) = Cardinality(I)
  BY <1>2, <1>3, <1>4, FS_Surjection
<1> QED BY <1>4, <1>5 DEF T

\* A commit appends the rows of one transaction to the chain.
Appended(p, n) ==
  /\ n = head.seq /\ n \in Nat
  /\ p \in Seq(ChainRow) /\ Len(p) \in Nat \ {0}
  /\ \A i \in 1 .. Len(p) : p[i].seq = n + i
  /\ p[1].prev = head.hash
  /\ rows' = rows \cup {p[i] : i \in DOMAIN p}
  /\ head'.seq = n + Len(p)
  /\ DOMAIN log = 1 .. n /\ DOMAIN log' = 1 .. n + Len(p)
  /\ \A i \in 1 .. n : log'[i] = log[i]
  /\ \A i \in 1 .. Len(p) : log'[n + i] = p[i]
  /\ UNCHANGED <<checkpoints, verifier, clock, issued, lost>>

LEMMA CommitAppends ==
  ASSUME ChainInv, NEW w \in Writer, Commit(w)
  PROVE  \E p, n : Appended(p, n)
<1>0. PICK p, n : p = writer[w].pending /\ n = head.seq
  OBVIOUS
<1>1. /\ p \in Seq(ChainRow) /\ p # <<>> /\ Len(p) \in Nat \ {0} /\ n \in Nat
      /\ log \in Seq(ChainRow) /\ n = Len(log) /\ DOMAIN log = 1 .. n
  BY <1>0 DEF ChainInv, WeaklyTyped, CommitOrder, Commit, Linking
<1>2. \A i \in 1 .. Len(p) :
        /\ p[i].seq = n + i
        /\ p[i].prev = IF i = 1 THEN head.hash ELSE p[i - 1].event
  BY <1>0, <1>1 DEF ChainInv, InChain, Continues
<1>3. 1 \in 1 .. Len(p) /\ Len(p) \in 1 .. Len(p)
  BY <1>1
<1>4. log' = log \o p /\ head' = HeadAt(p) /\ rows' = rows \cup {p[i] : i \in DOMAIN p}
  BY <1>0 DEF Commit
<1>5. /\ DOMAIN log' = 1 .. n + Len(p)
      /\ \A i \in 1 .. n : log'[i] = log[i]
      /\ \A i \in 1 .. Len(p) : log'[n + i] = p[i]
  BY <1>1, <1>4
<1>6. head'.seq = n + Len(p)
  BY <1>2, <1>3, <1>4 DEF HeadAt
<1>7. UNCHANGED <<checkpoints, verifier, clock, issued, lost>>
  BY DEF Commit
<1>8. p[1].prev = head.hash /\ \A i \in 1 .. Len(p) : p[i].seq = n + i
  BY <1>2, <1>3
<1>9. Appended(p, n)
  BY <1>0, <1>1, <1>4, <1>5, <1>6, <1>7, <1>8 DEF Appended
<1> QED BY <1>9

\* The rows that a prune takes.
Batch == Limit(Expired, PruneBatch)

LEMMA PruneFacts ==
  ASSUME ChainInv, Prune
  PROVE  /\ Batch \subseteq Expired /\ Expired \subseteq rows
         /\ First(Batch) \in Batch /\ Last(Batch) \in Batch
         /\ \A r \in Batch : First(Batch).seq =< r.seq /\ r.seq =< Last(Batch).seq
         /\ \A r \in Batch, s \in Expired \ Batch : r.seq < s.seq
         /\ rows' = rows \ Batch
         /\ checkpoints' = checkpoints \cup {Seal(Batch)}
         /\ verifier' = [verifier EXCEPT !.overtaken = @ \/ Overtakes(Batch)]
         /\ UNCHANGED <<head, writer, clock, issued, log, lost>>
<1>1. IsFiniteSet(rows) /\ head.seq \in Nat /\ Numbered(rows, head.seq)
  BY RowsFinite
<1>2. Expired \subseteq rows /\ Expired # {}
  BY DEF Expired, Prune
<1>3. IsFiniteSet(Expired) /\ Numbered(Expired, head.seq)
  BY <1>1, <1>2, FS_Subset DEF Numbered
<1>4. PruneBatch \in Nat \ {0}
  BY AuditChainAssumption
<1>5. /\ Batch \subseteq Expired /\ Batch # {}
      /\ \A r \in Batch, s \in Expired \ Batch : r.seq < s.seq
  BY <1>1, <1>2, <1>3, <1>4, LimitProperties DEF Batch
<1>6. Numbered(Batch, head.seq)
  BY <1>3, <1>5 DEF Numbered
<1>7. /\ First(Batch) \in Batch /\ Last(Batch) \in Batch
      /\ \A r \in Batch : First(Batch).seq =< r.seq /\ r.seq =< Last(Batch).seq
  BY <1>1, <1>5, <1>6, FirstLast
<1>8. /\ rows' = rows \ Batch
      /\ checkpoints' = checkpoints \cup {Seal(Batch)}
      /\ verifier' = [verifier EXCEPT !.overtaken = @ \/ Overtakes(Batch)]
      /\ UNCHANGED <<head, writer, clock, issued, log, lost>>
  BY DEF Prune, Batch
<1> QED BY <1>2, <1>5, <1>7, <1>8

-----------------------------------------------------------------------------
(* Retention accounts for everything it deletes.                           *)
(*                                                                         *)
(* Accounted is inductive only together with GoneForGood: a row that was   *)
(* pruned or lost never comes back, so the checkpoint of a prune is not    *)
(* one that exists already, and its count is added to the others.          *)

GoneForGood ==
  /\ IsFiniteSet(checkpoints)
  /\ \A n \in lost : n \in 1 .. head.seq /\ \A r \in rows : r.seq # n
  /\ \A c \in checkpoints :
       /\ c.count \in Nat
       /\ c.from \in 1 .. c.to /\ c.to \in 1 .. head.seq
       /\ c.to \notin lost
       /\ \A r \in rows : r.seq # c.to
       /\ c.last = log[c.to].event

NumbersCovered ==
  \A n \in 1 .. head.seq :
    \/ \E r \in rows : r.seq = n
    \/ n \in lost
    \/ \E c \in checkpoints : c.from =< n /\ n =< c.to

Counted == head.seq = Cardinality(rows) + Cardinality(lost) + Counts(checkpoints)

Books == GoneForGood /\ NumbersCovered /\ Counted

LEMMA BooksAccount == Accounted <=> NumbersCovered /\ Counted
BY DEF Accounted, NumbersCovered, Counted, Counts

LEMMA InitBooks == ChainInit => Books
<1> SUFFICES ASSUME ChainInit PROVE Books
  OBVIOUS
<1> USE AuditChainAssumption
<1>1. log \in Seq(ChainRow) /\ Len(log) = Legacy /\ DOMAIN log = 1 .. Legacy
  BY InitChain DEF ChainInit, ChainInv, WeaklyTyped
<1>2. \A i \in 1 .. Legacy : log[i] = LegacyRow(i)
  BY DEF ChainInit
<1>3. rows = {log[i] : i \in DOMAIN log}
  BY <1>1, <1>2 DEF ChainInit
<1>4. \A i, j \in 1 .. Len(log) : log[i].seq = log[j].seq => i = j
  BY <1>1, <1>2 DEF LegacyRow
<1>5. Cardinality(rows) = Legacy
  BY <1>1, <1>3, <1>4, DistinctRows
<1>6. head.seq = Legacy /\ checkpoints = {} /\ lost = {}
  BY DEF ChainInit
<1>7. Counted
  <2>1. Cardinality({}) = 0
    BY FS_EmptySet
  <2> QED BY <1>5, <1>6, <2>1, CountsNone DEF Counted
<1>8. NumbersCovered
  BY <1>6 DEF ChainInit, NumbersCovered, LegacyRow
<1>9. GoneForGood
  BY <1>6, FS_EmptySet DEF GoneForGood
<1> QED BY <1>7, <1>8, <1>9 DEF Books

LEMMA LostFinite ==
  ASSUME ChainInv, GoneForGood
  PROVE  IsFiniteSet(lost) /\ Cardinality(lost) \in Nat
<1>1. head.seq \in Nat
  BY RowsFinite
<1>2. IsFiniteSet(1 .. head.seq) /\ lost \in SUBSET (1 .. head.seq)
  BY <1>1, FS_Interval DEF GoneForGood
<1> QED BY <1>2, FS_Subset, FS_CardinalityType

LEMMA BooksCommit ==
  ASSUME ChainInv, Books, NEW w \in Writer, Commit(w)
  PROVE  Books'
<1>0. PICK p, n : Appended(p, n) /\ n = head.seq
  BY CommitAppends DEF Appended
<1> DEFINE N == {p[i] : i \in DOMAIN p}
<1>1. /\ p \in Seq(ChainRow) /\ Len(p) \in Nat \ {0} /\ n \in Nat
      /\ \A i \in 1 .. Len(p) : p[i].seq = n + i
      /\ rows' = rows \cup N
      /\ head'.seq = n + Len(p)
      /\ \A i \in 1 .. n : log'[i] = log[i]
      /\ UNCHANGED <<checkpoints, lost>>
  BY <1>0 DEF Appended
<1>2. DOMAIN p = 1 .. Len(p)
  BY <1>1
<1>3. IsFiniteSet(rows) /\ Numbered(rows, n)
  BY <1>0, RowsFinite
<1>4. \A r \in N : r.seq \in n + 1 .. n + Len(p)
  BY <1>1, <1>2
<1>5. \A i \in 1 .. Len(p) : p[i] \in N
  BY <1>2
<1>6. IsFiniteSet(N) /\ Cardinality(N) = Len(p)
  <2>1. p \in Seq(ChainRow)
    BY <1>1
  <2>2. \A i, j \in 1 .. Len(p) : p[i].seq = p[j].seq => i = j
    BY <1>1
  <2> QED BY <2>1, <2>2, DistinctRows
<1> HIDE DEF N
<1>7. GoneForGood'
  <2>1. \A m \in lost : m \in 1 .. n /\ \A r \in rows : r.seq # m
    BY <1>0 DEF Books, GoneForGood
  <2>2. \A m \in lost : m \in 1 .. n + Len(p) /\ \A r \in rows \cup N : r.seq # m
    BY <1>1, <1>4, <2>1
  <2>3. \A c \in checkpoints :
          /\ c.count \in Nat /\ c.from \in 1 .. c.to /\ c.to \in 1 .. n
          /\ c.to \notin lost /\ c.last = log[c.to].event
          /\ \A r \in rows : r.seq # c.to
    BY <1>0 DEF Books, GoneForGood
  <2>4. \A c \in checkpoints :
          /\ c.to \in 1 .. n + Len(p)
          /\ c.last = log'[c.to].event
          /\ \A r \in rows \cup N : r.seq # c.to
    BY <1>1, <1>4, <2>3
  <2>5. IsFiniteSet(checkpoints)
    BY DEF Books, GoneForGood
  <2> QED BY <1>1, <2>2, <2>3, <2>4, <2>5 DEF GoneForGood
<1>8. NumbersCovered'
  <2> SUFFICES ASSUME NEW m \in 1 .. n + Len(p)
               PROVE  \/ \E r \in rows' : r.seq = m
                      \/ m \in lost
                      \/ \E c \in checkpoints : c.from =< m /\ m =< c.to
    BY <1>1 DEF NumbersCovered
  <2>1. CASE m \in 1 .. n
    BY <1>0, <1>1, <2>1 DEF Books, NumbersCovered
  <2>2. CASE m \notin 1 .. n
    <3>1. m - n \in 1 .. Len(p) /\ n + (m - n) = m
      BY <1>1, <2>2
    <3>2. p[m - n].seq = m
      BY <1>1, <3>1
    <3> QED BY <1>1, <1>5, <3>1, <3>2
  <2> QED BY <2>1, <2>2
<1>9. Counted'
  <2>1. rows \cap N = {}
    BY <1>1, <1>3, <1>4 DEF Numbered
  <2>2. Cardinality(rows \cup N) = Cardinality(rows) + Cardinality(N)
    <3>1. Cardinality(rows \cup N)
            = Cardinality(rows) + Cardinality(N) - Cardinality(rows \cap N)
      BY <1>3, <1>6, FS_Union
    <3>2. Cardinality({}) = 0
      BY FS_EmptySet
    <3>3. Cardinality(rows) \in Nat /\ Cardinality(N) \in Nat
      BY <1>3, <1>6, FS_CardinalityType
    <3>4. Cardinality(rows \cap N) = 0
      BY <2>1, <3>2
    <3> QED BY <3>1, <3>3, <3>4
  <2>3. n = Cardinality(rows) + Cardinality(lost) + Counts(checkpoints)
    BY <1>0 DEF Books, Counted
  <2>4. /\ Cardinality(rows) \in Nat /\ Cardinality(lost) \in Nat
        /\ Counts(checkpoints) \in Nat
    <3>1. Cardinality(lost) \in Nat
      BY LostFinite DEF Books
    <3>2. Counts(checkpoints) \in Nat
      <4>1. IsFiniteSet(checkpoints) /\ \A c \in checkpoints : c.count \in Nat
        BY DEF Books, GoneForGood
      <4>2. PICK g \in [SUBSET checkpoints -> Nat] : Counts(checkpoints) = g[checkpoints]
        BY <4>1, CountsFold
      <4> QED BY <4>2
    <3> QED BY <1>3, <3>1, <3>2, FS_CardinalityType
  <2>5. n + Len(p) = Cardinality(rows \cup N) + Cardinality(lost) + Counts(checkpoints)
    BY <1>1, <1>6, <2>2, <2>3, <2>4
  <2>6. Counts(checkpoints)' = Counts(checkpoints)
    <3>1. checkpoints' = checkpoints
      BY <1>1
    <3> QED BY <3>1
  <2> QED BY <1>1, <2>5, <2>6 DEF Counted
<1> QED BY <1>7, <1>8, <1>9 DEF Books

LEMMA BooksPrune ==
  ASSUME ChainInv, Books, Prune
  PROVE  Books'
<1> DEFINE a == First(Batch)
           b == Last(Batch)
           c == Seal(Batch)
<1>1. /\ Batch \subseteq rows /\ a \in Batch /\ b \in Batch
      /\ \A r \in Batch : a.seq =< r.seq /\ r.seq =< b.seq
      /\ rows' = rows \ Batch
      /\ checkpoints' = checkpoints \cup {c}
      /\ head' = head /\ log' = log /\ lost' = lost
  BY PruneFacts
<1>2. /\ IsFiniteSet(rows) /\ head.seq \in Nat
      /\ \A r \in rows : r.seq \in 1 .. head.seq
      /\ \A r, s \in rows : r.seq = s.seq => r = s
  BY RowsFinite DEF Numbered
<1>3. IsFiniteSet(Batch) /\ Cardinality(Batch) \in Nat /\ Cardinality(rows) \in Nat
  BY <1>1, <1>2, FS_Subset, FS_CardinalityType
<1>4. /\ c.from = a.seq /\ c.to = b.seq /\ c.count = Cardinality(Batch)
      /\ c.last = b.event
  BY DEF Seal
<1>5. a.seq \in 1 .. b.seq /\ b.seq \in 1 .. head.seq
  BY <1>1, <1>2
<1>6. b = log[b.seq]
  BY <1>1 DEF ChainInv, CommitOrder
<1> HIDE DEF a, b, c
<1>7. /\ IsFiniteSet(checkpoints)
      /\ \A n \in lost : n \in 1 .. head.seq /\ \A r \in rows : r.seq # n
      /\ \A d \in checkpoints :
           /\ d.count \in Nat
           /\ d.from \in 1 .. d.to /\ d.to \in 1 .. head.seq
           /\ d.to \notin lost
           /\ \A r \in rows : r.seq # d.to
           /\ d.last = log[d.to].event
  BY DEF Books, GoneForGood
<1>8. c \notin checkpoints
  BY <1>1, <1>4, <1>7
<1>9. GoneForGood'
  <2>1. IsFiniteSet(checkpoints')
    BY <1>1, <1>7, FS_AddElement
  <2>2. \A n \in lost : \A r \in rows \ Batch : r.seq # n
    BY <1>7
  <2>3. /\ c.count \in Nat /\ c.from \in 1 .. c.to /\ c.to \in 1 .. head.seq
        /\ c.last = log[c.to].event
    BY <1>3, <1>4, <1>5, <1>6
  <2>4. c.to \notin lost
    BY <1>1, <1>4, <1>7
  <2>5. \A r \in rows \ Batch : r.seq # c.to
    BY <1>1, <1>2, <1>4
  <2> QED BY <1>1, <1>7, <2>1, <2>2, <2>3, <2>4, <2>5 DEF GoneForGood
<1>10. NumbersCovered'
  <2> SUFFICES ASSUME NEW n \in 1 .. head.seq
               PROVE  \/ \E r \in rows \ Batch : r.seq = n
                      \/ n \in lost
                      \/ \E d \in checkpoints \cup {c} : d.from =< n /\ n =< d.to
    BY <1>1 DEF NumbersCovered
  <2>1. \/ \E r \in rows : r.seq = n
        \/ n \in lost
        \/ \E d \in checkpoints : d.from =< n /\ n =< d.to
    BY DEF Books, NumbersCovered
  <2>2. \A r \in Batch : r.seq = n => c.from =< n /\ n =< c.to
    BY <1>1, <1>4
  <2> QED BY <2>1, <2>2
<1>11. Counted'
  <2>1. /\ Counts(checkpoints) \in Nat
        /\ Counts(checkpoints \cup {c}) = Counts(checkpoints) + c.count
    <3>1. c.count \in Nat /\ \A d \in checkpoints : d.count \in Nat
      BY <1>3, <1>4, <1>7
    <3> QED BY <1>7, <1>8, <3>1, CountsAdd
  <2>2. Cardinality(rows \ Batch) = Cardinality(rows) - Cardinality(Batch)
    <3>1. Cardinality(rows \ Batch) = Cardinality(rows) - Cardinality(rows \cap Batch)
      BY <1>2, FS_Difference
    <3>2. rows \cap Batch = Batch
      BY <1>1
    <3> QED BY <3>1, <3>2
  <2>3. head.seq = Cardinality(rows) + Cardinality(lost) + Counts(checkpoints)
    BY DEF Books, Counted
  <2>4. Cardinality(lost) \in Nat
    BY LostFinite DEF Books
  <2>5. head.seq = Cardinality(rows \ Batch) + Cardinality(lost)
                     + Counts(checkpoints \cup {c})
    BY <1>3, <1>4, <2>1, <2>2, <2>3, <2>4
  <2>6. /\ head'.seq = head.seq
        /\ Cardinality(rows') = Cardinality(rows \ Batch)
        /\ Cardinality(lost') = Cardinality(lost)
        /\ Counts(checkpoints') = Counts(checkpoints \cup {c})
    BY <1>1
  <2> QED BY <2>5, <2>6 DEF Counted
<1> QED BY <1>9, <1>10, <1>11 DEF Books

LEMMA BooksLose ==
  ASSUME ChainInv, Books, Lose
  PROVE  Books'
<1>1. PICK r \in rows : rows' = rows \ {r} /\ lost' = lost \cup {r.seq}
  BY DEF Lose
<1>2. UNCHANGED <<head, checkpoints, log>>
  BY DEF Lose
<1>3. /\ IsFiniteSet(rows) /\ head.seq \in Nat
      /\ \A s \in rows : s.seq \in 1 .. head.seq
      /\ \A s, t \in rows : s.seq = t.seq => s = t
  BY RowsFinite DEF Numbered
<1>4. IsFiniteSet(lost) /\ Cardinality(lost) \in Nat
  BY LostFinite DEF Books
<1>5. /\ IsFiniteSet(checkpoints)
      /\ \A n \in lost : n \in 1 .. head.seq /\ \A s \in rows : s.seq # n
      /\ \A d \in checkpoints :
           /\ d.count \in Nat
           /\ d.from \in 1 .. d.to /\ d.to \in 1 .. head.seq
           /\ d.to \notin lost
           /\ \A s \in rows : s.seq # d.to
           /\ d.last = log[d.to].event
  BY DEF Books, GoneForGood
<1>6. r.seq \notin lost /\ r.seq \in 1 .. head.seq
  BY <1>3, <1>5
<1>7. GoneForGood'
  <2>1. \A n \in lost' : n \in 1 .. head.seq /\ \A s \in rows' : s.seq # n
    BY <1>1, <1>3, <1>5, <1>6
  <2>2. \A d \in checkpoints : d.to \notin lost' /\ \A s \in rows' : s.seq # d.to
    BY <1>1, <1>5
  <2> QED BY <1>2, <1>5, <2>1, <2>2 DEF GoneForGood
<1>8. NumbersCovered'
  <2> SUFFICES ASSUME NEW n \in 1 .. head.seq
               PROVE  \/ \E s \in rows' : s.seq = n
                      \/ n \in lost'
                      \/ \E d \in checkpoints : d.from =< n /\ n =< d.to
    BY <1>2 DEF NumbersCovered
  <2>1. \/ \E s \in rows : s.seq = n
        \/ n \in lost
        \/ \E d \in checkpoints : d.from =< n /\ n =< d.to
    BY DEF Books, NumbersCovered
  <2> QED BY <1>1, <2>1
<1>9. Counted'
  <2>1. Cardinality(rows') = Cardinality(rows) - 1 /\ Cardinality(rows) \in Nat
    BY <1>1, <1>3, FS_RemoveElement, FS_CardinalityType
  <2>2. Cardinality(lost') = Cardinality(lost) + 1
    BY <1>1, <1>4, <1>6, FS_AddElement
  <2>3. head.seq = Cardinality(rows) + Cardinality(lost) + Counts(checkpoints)
    BY DEF Books, Counted
  <2>4. Counts(checkpoints) \in Nat
    <3>1. IsFiniteSet(checkpoints) /\ \A c \in checkpoints : c.count \in Nat
      BY <1>5
    <3>2. PICK g \in [SUBSET checkpoints -> Nat] : Counts(checkpoints) = g[checkpoints]
      BY <3>1, CountsFold
    <3> QED BY <3>2
  <2>5. head'.seq = head.seq /\ Counts(checkpoints') = Counts(checkpoints)
    BY <1>2
  <2>6. head.seq = Cardinality(rows') + Cardinality(lost') + Counts(checkpoints)
    BY <1>4, <2>1, <2>2, <2>3, <2>4
  <2> QED BY <2>5, <2>6 DEF Counted
<1> QED BY <1>7, <1>8, <1>9 DEF Books

\* Every step but these three leaves the rows and what accounts for them alone.
StoreSame == UNCHANGED <<rows, head, checkpoints, log, lost>>

LEMMA StoreSteps ==
  ASSUME [ChainNext]_chainVars
  PROVE  \/ StoreSame
         \/ \E w \in Writer : Commit(w)
         \/ Prune
         \/ Lose
<1>1. CASE Tick
  BY <1>1 DEF Tick, StoreSame
<1>2. CASE \E w \in Writer : Stamp(w) \/ Link(w) \/ AbortWrite(w)
  BY <1>2 DEF Stamp, Link, AbortWrite, StoreSame
<1>3. CASE StartPass \/ ReadPage
  BY <1>3 DEF StartPass, ReadPage, StoreSame
<1>4. CASE ReadPredecessor
  BY <1>4 DEF ReadPredecessor, StoreSame
<1>5. CASE ReadCheckpoint
  BY <1>5 DEF ReadCheckpoint, StoreSame
<1>6. CASE UNCHANGED chainVars
  BY <1>6 DEF chainVars, StoreSame
<1> QED
  BY <1>1, <1>2, <1>3, <1>4, <1>5, <1>6 DEF ChainNext

LEMMA BooksStep == ChainInv /\ Books /\ [ChainNext]_chainVars => Books'
<1> SUFFICES ASSUME ChainInv, Books, [ChainNext]_chainVars PROVE Books'
  OBVIOUS
<1>1. CASE StoreSame
  <2>1. GoneForGood' /\ NumbersCovered'
    BY <1>1 DEF StoreSame, Books, GoneForGood, NumbersCovered
  <2>2. Counted'
    <3>1. rows' = rows /\ head' = head /\ checkpoints' = checkpoints /\ lost' = lost
      BY <1>1 DEF StoreSame
    <3>2. Counts(checkpoints') = Counts(checkpoints)
      BY <3>1
    <3> QED BY <3>1, <3>2 DEF Books, Counted
  <2> QED BY <2>1, <2>2 DEF Books
<1>2. CASE \E w \in Writer : Commit(w)
  BY <1>2, BooksCommit
<1>3. CASE Prune
  BY <1>3, BooksPrune
<1>4. CASE Lose
  BY <1>4, BooksLose
<1> QED
  BY <1>1, <1>2, <1>3, <1>4, StoreSteps

\* Each number of the chain is stored, lost or inside the range of a
\* checkpoint, and the counts of the checkpoints add up to the rows that were
\* pruned: seal_pruned_range and the delete of prune_audit_events, for any
\* retention and batch, whether or not created_at follows seq.
THEOREM NothingUnaccounted == ChainSpec => []Accounted
<1>1. ChainInit => ChainInv /\ Books
  BY InitChain, InitBooks
<1>2. ChainInv /\ Books /\ [ChainNext]_chainVars => (ChainInv /\ Books)'
  BY ChainStep, BooksStep
<1>3. ChainInv /\ Books => Accounted
  BY BooksAccount DEF Books
<1> QED
  BY <1>1, <1>2, <1>3, PTL DEF ChainSpec

-----------------------------------------------------------------------------
(* While created_at grows with seq, retention prunes from below.           *)
(*                                                                         *)
(* FromBelow is what makes a checkpoint an anchor: with no row at or below *)
(* the range of any checkpoint, the row before the first survivor is the   *)
(* end of one.  It says nothing once two events are inverted, and an       *)
(* inversion stays in the history for ever.                                *)

FromBelow == ~Inverted => \A c \in checkpoints, r \in rows : c.to < r.seq

\* The first events of the chain point at nothing.
Rooted == \A i \in DOMAIN log : i =< Floor => log[i].prev = NoHash

Orderly == FromBelow /\ Rooted /\ CheckpointsChained

LEMMA InitOrderly == ChainInit => Orderly
<1> SUFFICES ASSUME ChainInit PROVE Orderly
  OBVIOUS
<1>1. checkpoints = {}
  BY DEF ChainInit
<1>2. Rooted
  BY AuditChainAssumption DEF ChainInit, Rooted, LegacyRow
<1> QED BY <1>1, <1>2 DEF Orderly, FromBelow, CheckpointsChained

\* The greatest element of a set of numbers below a bound.
LEMMA MaxIs ==
  ASSUME NEW n \in Nat, NEW S \in SUBSET (0 .. n), NEW m \in S, \A x \in S : x =< m
  PROVE  Max(S) = m
<1>1. IsFiniteSet(0 .. n)
  BY FS_Interval
<1>2. S \in SUBSET Int /\ S # {}
  OBVIOUS
<1>3. IsFiniteSet(S)
  BY <1>1, FS_Subset
<1>4. Max(S) \in S /\ \A x \in S : x =< Max(S)
  BY <1>2, <1>3, MinMaxProperties
<1>5. Max(S) =< m /\ m =< Max(S) /\ Max(S) \in Int /\ m \in Int
  BY <1>2, <1>4
<1> QED BY <1>5

LEMMA MaxOf ==
  ASSUME NEW n \in Nat, NEW S \in SUBSET (0 .. n), S # {}
  PROVE  Max(S) \in S /\ \A x \in S : x =< Max(S)
<1>1. IsFiniteSet(0 .. n)
  BY FS_Interval
<1>2. S \in SUBSET Int
  OBVIOUS
<1>3. IsFiniteSet(S)
  BY <1>1, FS_Subset
<1> QED BY <1>2, <1>3, MinMaxProperties

\* Where the ranges of the checkpoints of C end.
Ends(C) == {NoHash} \cup {d.to : d \in C}

LEMMA LatestEnd ==
  ASSUME ChainInv, GoneForGood
  PROVE  LatestCheckpoint = Max(Ends(checkpoints))
<1>1. \A c \in checkpoints : c.to \in 1 .. head.seq
  BY DEF GoneForGood
<1>2. head.seq \in Nat
  BY RowsFinite
<1>3. CASE checkpoints = {}
  <2>1. Ends(checkpoints) = {0}
    BY <1>3 DEF Ends, NoHash
  <2>2. Max({0}) = 0
    BY <1>2, MaxIs
  <2> QED BY <1>3, <2>1, <2>2 DEF LatestCheckpoint, NoHash
<1>4. CASE checkpoints # {}
  <2> DEFINE T == {c.to : c \in checkpoints}
             m == Max(T)
  <2>1. T \in SUBSET (0 .. head.seq) /\ T # {}
    BY <1>1, <1>2, <1>4
  <2>2. m \in T /\ \A x \in T : x =< m
    <3> HIDE DEF T
    <3> QED BY <1>2, <2>1, MaxOf
  <2>3. Ends(checkpoints) = {0} \cup T
    BY DEF Ends, NoHash
  <2> HIDE DEF m
  <2>4. {0} \cup T \in SUBSET (0 .. head.seq) /\ m \in {0} \cup T
        /\ \A x \in {0} \cup T : x =< m
    <3>1. m \in 0 .. head.seq
      BY <2>1, <2>2
    <3> HIDE DEF T
    <3> QED BY <1>2, <2>1, <2>2, <3>1
  <2>5. Max({0} \cup T) = m
    <3> HIDE DEF T
    <3> QED BY <1>2, <2>4, MaxIs
  <2> QED BY <1>4, <2>3, <2>5 DEF LatestCheckpoint, m
<1> QED BY <1>3, <1>4

\* A prune takes the lowest rows when created_at grows with seq.
LEMMA PruneFromBelow ==
  ASSUME ChainInv, Prune, ~Inverted
  PROVE  \A r \in rows \ Batch : Last(Batch).seq < r.seq
<1> DEFINE b == Last(Batch)
<1>1. /\ Batch \subseteq Expired /\ Expired \subseteq rows /\ b \in Batch
      /\ \A s \in Expired \ Batch : b.seq < s.seq
  BY PruneFacts
<1> HIDE DEF b
<1> SUFFICES ASSUME NEW r \in rows \ Batch PROVE b.seq < r.seq
  BY DEF b
<1>2. CASE r \in Expired
  BY <1>1, <1>2
<1>3. CASE r \notin Expired
  <2>1. b.created < clock - Retention /\ ~(r.created < clock - Retention)
    BY <1>1, <1>3 DEF Expired
  <2>2. /\ b.created \in Int /\ r.created \in Int /\ clock \in Int /\ Retention \in Int
        /\ b.seq \in Nat /\ r.seq \in Nat
    BY <1>1, AuditChainAssumption DEF ChainInv, WeaklyTyped, ChainRow
  <2>3. r.created > b.created
    BY <2>1, <2>2
  <2>4. /\ r.seq \in DOMAIN log /\ r = log[r.seq]
        /\ b.seq \in DOMAIN log /\ b = log[b.seq]
    BY <1>1 DEF ChainInv, CommitOrder
  <2>5. ~(r.seq < b.seq)
    BY <2>3, <2>4 DEF Inverted
  <2>6. r.seq # b.seq
    BY <1>1, <2>4
  <2> QED BY <2>2, <2>5, <2>6
<1> QED BY <1>2, <1>3

\* What is inverted stays inverted: the history is only appended to.
LEMMA InvertedStays ==
  ASSUME ChainInv, [ChainNext]_chainVars, Inverted
  PROVE  Inverted'
<1>1. CASE log' = log
  BY <1>1 DEF Inverted
<1>2. CASE \E w \in Writer : Commit(w)
  <2>1. PICK p, n : Appended(p, n)
    BY <1>2, CommitAppends
  <2>2. /\ DOMAIN log = 1 .. n /\ DOMAIN log' = 1 .. n + Len(p)
        /\ n \in Nat /\ Len(p) \in Nat
        /\ \A i \in 1 .. n : log'[i] = log[i]
    BY <2>1 DEF Appended
  <2>3. PICK i, j \in DOMAIN log : i < j /\ log[i].created > log[j].created
    BY DEF Inverted
  <2>4. i \in DOMAIN log' /\ j \in DOMAIN log' /\ log'[i] = log[i] /\ log'[j] = log[j]
    BY <2>2, <2>3
  <2> QED BY <2>3, <2>4 DEF Inverted
<1> QED
  BY <1>1, <1>2, StoreSteps DEF StoreSame, Prune, Lose

LEMMA OrderlyCommit ==
  ASSUME ChainInv, Books, Orderly, NEW w \in Writer, Commit(w)
  PROVE  Orderly'
<1>1. PICK p, n : Appended(p, n)
  BY CommitAppends
<1>2. /\ n = head.seq /\ n \in Nat /\ Len(p) \in Nat \ {0} /\ p \in Seq(ChainRow)
      /\ \A i \in 1 .. Len(p) : p[i].seq = n + i
      /\ p[1].prev = head.hash
      /\ rows' = rows \cup {p[i] : i \in DOMAIN p}
      /\ checkpoints' = checkpoints
      /\ DOMAIN log = 1 .. n /\ DOMAIN log' = 1 .. n + Len(p)
      /\ \A i \in 1 .. n : log'[i] = log[i]
      /\ \A i \in 1 .. Len(p) : log'[n + i] = p[i]
  BY <1>1 DEF Appended
<1>3. Inverted => Inverted'
  <2>1. [ChainNext]_chainVars
    BY DEF ChainNext
  <2> QED BY <2>1, InvertedStays
<1>4. FromBelow'
  <2> SUFFICES ASSUME ~Inverted, NEW c \in checkpoints, NEW r \in rows'
               PROVE  c.to < r.seq
    BY <1>2, <1>3 DEF FromBelow
  <2>1. CASE r \in rows
    BY <2>1 DEF Orderly, FromBelow
  <2>2. CASE r \notin rows
    <3>1. PICK i \in 1 .. Len(p) : r = p[i]
      BY <1>2, <2>2
    <3>2. r.seq = n + i /\ c.to \in 1 .. n
      BY <1>2, <3>1 DEF Books, GoneForGood
    <3> QED BY <1>2, <3>2
  <2> QED BY <2>1, <2>2
<1>5. Rooted'
  <2> SUFFICES ASSUME NEW i \in 1 .. n + Len(p), i =< Floor
               PROVE  log'[i].prev = NoHash
    BY <1>2 DEF Rooted
  <2>1. CASE i \in 1 .. n
    BY <1>2, <2>1 DEF Orderly, Rooted
  <2>2. CASE i \notin 1 .. n
    <3>1. Legacy =< n /\ Legacy \in Nat /\ Len(log) = n
      BY <1>2, AuditChainAssumption DEF ChainInv, CommitOrder
    <3>2. i = n + 1 /\ n < Floor
      BY <1>2, <2>2, <3>1 DEF Floor
    <3>3. head.hash = NoHash
      BY <3>1, <3>2 DEF ChainInv, CommitOrder
    <3>4. 1 \in 1 .. Len(p)
      BY <1>2
    <3> QED BY <1>2, <3>2, <3>3, <3>4
  <2> QED BY <2>1, <2>2
<1>6. CheckpointsChained'
  BY <1>2, <1>3 DEF Orderly, CheckpointsChained
<1> QED BY <1>4, <1>5, <1>6 DEF Orderly

LEMMA OrderlyPrune ==
  ASSUME ChainInv, Books, Orderly, Prune
  PROVE  Orderly'
<1> DEFINE b == Last(Batch)
           c == Seal(Batch)
<1>1. /\ Batch \subseteq rows /\ b \in Batch
      /\ rows' = rows \ Batch
      /\ checkpoints' = checkpoints \cup {c}
      /\ head' = head /\ log' = log
  BY PruneFacts
<1>2. ~Inverted => \A r \in rows \ Batch : b.seq < r.seq
  BY PruneFromBelow
<1>3. c.to = b.seq /\ c.prev = LatestCheckpoint
  BY DEF Seal
<1> HIDE DEF b, c
<1>4. Inverted' <=> Inverted
  BY <1>1 DEF Inverted
<1>5. Rooted'
  BY <1>1 DEF Orderly, Rooted
<1>6. ~Inverted => \A d \in checkpoints : d.to < c.to
  BY <1>1, <1>3 DEF Orderly, FromBelow
<1>7. FromBelow'
  BY <1>1, <1>2, <1>3, <1>4 DEF Orderly, FromBelow
<1>8. CheckpointsChained'
  <2> SUFFICES ASSUME ~Inverted, NEW d \in checkpoints \cup {c}
               PROVE  d.prev = Max({NoHash} \cup
                        {x.to : x \in {e \in checkpoints \cup {c} : e.to < d.to}})
    BY <1>1, <1>4 DEF CheckpointsChained
  <2>1. c.to \in Nat /\ \A e \in checkpoints : e.to \in Nat
    <3>1. b.seq \in Nat
      BY <1>1 DEF ChainInv, WeaklyTyped, ChainRow
    <3> QED BY <1>3, <3>1 DEF Books, GoneForGood
  <2>2. CASE d = c
    <3>1. {e \in checkpoints \cup {c} : e.to < c.to} = checkpoints
      BY <1>6, <2>1
    <3>2. LatestCheckpoint = Max({NoHash} \cup {x.to : x \in checkpoints})
      BY LatestEnd DEF Books, Ends
    <3> QED BY <1>3, <2>2, <3>1, <3>2
  <2>3. CASE d \in checkpoints
    <3>1. {e \in checkpoints \cup {c} : e.to < d.to} = {e \in checkpoints : e.to < d.to}
      <4>1. d.to < c.to
        BY <1>6, <2>3
      <4>2. ~(c.to < d.to)
        BY <2>1, <2>3, <4>1
      <4> QED BY <4>2
    <3> QED BY <2>3, <3>1 DEF Orderly, CheckpointsChained
  <2> QED BY <2>2, <2>3
<1> QED BY <1>5, <1>7, <1>8 DEF Orderly

LEMMA OrderlyStep ==
  ChainInv /\ Books /\ Orderly /\ [ChainNext]_chainVars => Orderly'
<1> SUFFICES ASSUME ChainInv, Books, Orderly, [ChainNext]_chainVars PROVE Orderly'
  OBVIOUS
<1>1. CASE StoreSame
  BY <1>1 DEF StoreSame, Orderly, FromBelow, Rooted, CheckpointsChained, Inverted
<1>2. CASE \E w \in Writer : Commit(w)
  BY <1>2, OrderlyCommit
<1>3. CASE Prune
  BY <1>3, OrderlyPrune
<1>4. CASE Lose
  <2>1. rows' \subseteq rows /\ UNCHANGED <<checkpoints, log>>
    BY <1>4 DEF Lose
  <2> QED BY <2>1 DEF Orderly, FromBelow, Rooted, CheckpointsChained, Inverted
<1> QED
  BY <1>1, <1>2, <1>3, <1>4, StoreSteps

StoreInv == ChainInv /\ Books /\ Orderly

\* What the processes share: the chain, what accounts for it, and the order in
\* which retention prunes it.
THEOREM StoreInvariant == ChainSpec => []StoreInv
<1>1. ChainInit => StoreInv
  BY InitChain, InitBooks, InitOrderly DEF StoreInv
<1>2. StoreInv /\ [ChainNext]_chainVars => StoreInv'
  BY ChainStep, BooksStep, OrderlyStep DEF StoreInv
<1> QED
  BY <1>1, <1>2, PTL DEF ChainSpec

\* The checkpoints form one chain as long as created_at grows with seq: each
\* is chained to the one that ended before it (latest_checkpoint).
THEOREM CheckpointsInOneChain == ChainSpec => []CheckpointsChained
<1>1. StoreInv => CheckpointsChained
  BY DEF StoreInv, Orderly
<1> QED
  BY <1>1, StoreInvariant, PTL

\* What a link is verified against is there, as long as nothing was lost.
LEMMA Precedes ==
  ASSUME StoreInv, ~Inverted, lost = {}, NEW n \in 1 .. head.seq,
         NEW r \in rows, r.seq = n + 1
  PROVE  \/ log[n] \in rows /\ log[n].seq = n
         \/ \E c \in checkpoints : c.to = n /\ c.last = log[n].event
<1>1. \/ \E s \in rows : s.seq = n
      \/ \E c \in checkpoints : c.from =< n /\ n =< c.to
  BY DEF StoreInv, Books, NumbersCovered
<1>2. ASSUME NEW s \in rows, s.seq = n PROVE log[n] \in rows /\ log[n].seq = n
  <2>1. s = log[n]
    BY <1>2 DEF StoreInv, ChainInv, CommitOrder
  <2> QED BY <1>2, <2>1
<1>3. ASSUME NEW c \in checkpoints, n =< c.to PROVE c.to = n /\ c.last = log[n].event
  <2>1. c.to < r.seq /\ c.to \in 1 .. head.seq /\ c.last = log[c.to].event
    BY DEF StoreInv, Orderly, FromBelow, Books, GoneForGood
  <2>2. head.seq \in Nat
    BY RowsFinite DEF StoreInv
  <2>3. c.to = n
    BY <1>3, <2>1, <2>2
  <2> QED BY <2>1, <2>3
<1> QED BY <1>1, <1>2, <1>3

\* Every event that survives retention can be verified against what precedes
\* it, whatever the batches of the prunes, as long as created_at grows with seq
\* and nothing is lost.
THEOREM SurvivorsAnchored == ChainSpec => []AnchoredInOrder
<1>1. ASSUME StoreInv, ~Inverted, lost = {}, NEW r \in rows, r.seq > Floor
      PROVE  Anchored(r)
  <2>1. head.seq \in Nat /\ r.seq \in 1 .. head.seq /\ Legacy \in Nat
    BY <1>1, RowsFinite, AuditChainAssumption DEF StoreInv, Numbered
  <2>2. r.seq \in DOMAIN log /\ r = log[r.seq]
    BY <1>1 DEF StoreInv, ChainInv, CommitOrder
  <2>3. r.prev = log[r.seq - 1].event
    BY <1>1, <2>2 DEF StoreInv, ChainInv, CommitOrder
  <2>4. PICK n \in 1 .. head.seq : n = r.seq - 1 /\ r.seq = n + 1
    <3>1. r.seq - 1 \in 1 .. head.seq /\ r.seq = (r.seq - 1) + 1
      BY <1>1, <2>1 DEF Floor
    <3> QED BY <3>1
  <2>5. \/ log[n] \in rows /\ log[n].seq = n
        \/ \E c \in checkpoints : c.to = n /\ c.last = log[n].event
    BY <1>1, <2>4, Precedes
  <2> QED BY <2>3, <2>4, <2>5 DEF Anchored
<1>2. StoreInv => AnchoredInOrder
  BY <1>1 DEF AnchoredInOrder, Survivors
<1> QED
  BY <1>2, StoreInvariant, PTL

-----------------------------------------------------------------------------
(* The verifier.                                                           *)
(*                                                                         *)
(* Between two of its statements rows are appended, pruned and lost, so    *)
(* the invariant says what a page that was read still tells of the chain.  *)
(* PageRead: a page holds every row up to its last one that is stored now, *)
(* and a short page all of those that the pass began with; no row that was *)
(* lost before the pass began is in it.  LossSeen: what lies behind the    *)
(* page was reported.  QuietPass: when nothing excuses an alarm, the rows of a *)
(* page follow one another, and what its first row is to be verified       *)
(* against is stored, or is a checkpoint once the row has been pruned.     *)

AnyPass == [pc : {"idle", "page", "predecessor", "checkpoint"},
            after : Nat, page : SUBSET ChainRow,
            breaks : SUBSET [seq : Nat, reason : Reason],
            overtaken : BOOLEAN, missing : SUBSET Nat, upto : Nat, done : BOOLEAN]

PassTyped ==
  /\ verifier \in AnyPass
  /\ verifier.missing \subseteq lost
  /\ verifier.upto =< head.seq
  /\ verifier.pc # "idle" => Legacy =< verifier.after

Reading == verifier.pc \in {"predecessor", "checkpoint"}

PageRead ==
  Reading =>
    /\ verifier.page # {}
    /\ \A r \in verifier.page :
         /\ r.seq \in DOMAIN log /\ r = log[r.seq]
         /\ verifier.after < r.seq
         /\ r.seq \notin verifier.missing
    /\ \A r \in rows :
         verifier.after < r.seq /\ r.seq =< Last(verifier.page).seq
           => r \in verifier.page
    /\ Cardinality(verifier.page) < PageLimit =>
         \A r \in rows :
           verifier.after < r.seq /\ r.seq =< verifier.upto => r \in verifier.page
    /\ verifier.pc = "checkpoint" => Floor < First(verifier.page).seq

\* The predecessor of r was lost when the pass began, and r was there.
Watched(r) ==
  r.seq - 1 \in verifier.missing /\ Floor < r.seq /\ r.seq =< verifier.upto

Reported(r) == \E b \in verifier.breaks : b.seq = r.seq

LossSeen ==
  verifier.pc # "idle" =>
    \A r \in rows : Watched(r) /\ r.seq =< verifier.after => Reported(r)

Finished == verifier.done /\ verifier.pc = "idle"

LossTold == Finished => \A r \in rows : Watched(r) => Reported(r)

\* Nothing that explains an alarm has happened.
Calm == ~Inverted /\ ~verifier.overtaken /\ lost = {}

Consecutive(P) == \A r \in P : r # First(P) => \E s \in P : s.seq = r.seq - 1

QuietPass ==
  Calm =>
    /\ verifier.breaks = {}
    /\ Reading => Consecutive(verifier.page)
    /\ LET n == First(verifier.page).seq IN
         /\ verifier.pc = "predecessor" /\ Floor < n =>
              \/ \E s \in rows : s.seq = n - 1
              \/ \E c \in checkpoints : c.to = n - 1
         /\ verifier.pc = "checkpoint" => \E c \in checkpoints : c.to = n - 1

PassInv == PassTyped /\ PageRead /\ LossSeen /\ LossTold /\ QuietPass

LEMMA InitPass == ChainInit => PassInv
<1> SUFFICES ASSUME ChainInit PROVE PassInv
  OBVIOUS
<1>1. verifier = NoPass
  BY DEF ChainInit
<1>2. verifier.pc = "idle" /\ ~verifier.done /\ verifier.breaks = {}
  BY <1>1 DEF NoPass
<1>3. PassTyped
  <2>1. Legacy \in Nat /\ head.seq = Legacy
    BY AuditChainAssumption DEF ChainInit
  <2>2. verifier \in AnyPass
    BY <1>1 DEF NoPass, AnyPass
  <2>3. verifier.missing = {} /\ verifier.upto = 0
    BY <1>1 DEF NoPass
  <2> QED BY <1>2, <2>1, <2>2, <2>3 DEF PassTyped
<1> QED
  BY <1>2, <1>3 DEF PassInv, PageRead, LossSeen, LossTold, Finished, QuietPass, Reading

-----------------------------------------------------------------------------
(* The other processes, while the verifier rests between two statements.   *)

LEMMA PassSame ==
  ASSUME PassInv, StoreSame, verifier' = verifier
  PROVE  PassInv'
<1>1. UNCHANGED <<rows, head, checkpoints, log, lost>>
  BY DEF StoreSame
<1>2. PassTyped'
  BY <1>1 DEF PassInv, PassTyped
<1>3. PageRead'
  BY <1>1 DEF PassInv, PageRead, Reading
<1>4. LossSeen' /\ LossTold'
  BY <1>1 DEF PassInv, LossSeen, LossTold, Finished, Watched, Reported
<1>5. QuietPass'
  BY <1>1 DEF PassInv, QuietPass, Calm, Inverted, Reading, Consecutive
<1> QED BY <1>2, <1>3, <1>4, <1>5 DEF PassInv

\* Rows are taken away: what the verifier knows stays true of the others.
LEMMA PassFewer ==
  ASSUME PassInv, rows' \subseteq rows, lost \subseteq lost',
         UNCHANGED <<head, log>>,
         verifier' \in AnyPass,
         verifier'.pc = verifier.pc, verifier'.after = verifier.after,
         verifier'.page = verifier.page, verifier'.breaks = verifier.breaks,
         verifier'.missing = verifier.missing, verifier'.upto = verifier.upto,
         verifier'.done = verifier.done
  PROVE  PassTyped' /\ PageRead' /\ LossSeen' /\ LossTold'
<1>1. PassTyped'
  BY DEF PassInv, PassTyped
<1>2. PageRead'
  BY DEF PassInv, PageRead, Reading
<1>3. LossSeen' /\ LossTold'
  BY DEF PassInv, LossSeen, LossTold, Finished, Watched, Reported
<1> QED BY <1>1, <1>2, <1>3

LEMMA PassLose ==
  ASSUME PassInv, Lose
  PROVE  PassInv'
<1>1. /\ rows' \subseteq rows /\ lost \subseteq lost' /\ lost' # {}
      /\ head' = head /\ log' = log /\ verifier' = verifier
  BY DEF Lose
<1>2. verifier \in AnyPass
  BY DEF PassInv, PassTyped
<1>3. PassTyped' /\ PageRead' /\ LossSeen' /\ LossTold'
  BY <1>1, <1>2, PassFewer
<1>4. QuietPass'
  BY <1>1 DEF QuietPass, Calm
<1> QED BY <1>3, <1>4 DEF PassInv

LEMMA PassCommit ==
  ASSUME StoreInv, PassInv, NEW w \in Writer, Commit(w)
  PROVE  PassInv'
<1>1. PICK p, n : Appended(p, n)
  BY CommitAppends DEF StoreInv
<1>2. /\ n = head.seq /\ n \in Nat /\ Len(p) \in Nat \ {0} /\ p \in Seq(ChainRow)
      /\ \A i \in 1 .. Len(p) : p[i].seq = n + i
      /\ rows' = rows \cup {p[i] : i \in DOMAIN p}
      /\ head'.seq = n + Len(p)
      /\ checkpoints' = checkpoints /\ verifier' = verifier /\ lost' = lost
      /\ DOMAIN log = 1 .. n /\ DOMAIN log' = 1 .. n + Len(p)
      /\ \A i \in 1 .. n : log'[i] = log[i]
  BY <1>1 DEF Appended
<1>3. rows \subseteq rows' /\ \A r \in rows' : r \in rows \/ (r.seq \in Nat /\ n < r.seq)
  <2>1. \A i \in 1 .. Len(p) : p[i].seq \in Nat /\ n < p[i].seq
    BY <1>2
  <2>2. DOMAIN p = 1 .. Len(p)
    BY <1>2
  <2> QED BY <1>2, <2>1, <2>2
<1>4. verifier \in AnyPass /\ verifier.upto =< n /\ verifier.upto \in Nat
      /\ verifier.after \in Nat
  BY <1>2 DEF PassInv, PassTyped, AnyPass
<1>5. PassTyped'
  BY <1>2, <1>4 DEF PassInv, PassTyped
<1>6. PageRead'
  <2> SUFFICES ASSUME Reading PROVE PageRead'
    BY <1>2 DEF PageRead, Reading
  <2> DEFINE P == verifier.page
             z == Last(P).seq
  <2>1. /\ P # {}
        /\ \A r \in P : r.seq \in 1 .. n /\ r = log[r.seq]
                        /\ verifier.after < r.seq /\ r.seq \notin verifier.missing
        /\ \A r \in rows : verifier.after < r.seq /\ r.seq =< z => r \in P
        /\ Cardinality(P) < PageLimit =>
             \A r \in rows : verifier.after < r.seq /\ r.seq =< verifier.upto => r \in P
        /\ verifier.pc = "checkpoint" => Floor < First(P).seq
    BY <1>2 DEF PassInv, PageRead
  <2>2. z \in 1 .. n
    <3>1. Numbered(P, n)
      BY <2>1 DEF Numbered
    <3>2. Last(P) \in P
      BY <1>2, <2>1, <3>1, FirstLast
    <3> QED BY <2>1, <3>2
  <2> HIDE DEF P, z
  <2>3. \A r \in P : r.seq \in 1 .. n + Len(p) /\ r = log'[r.seq]
    BY <1>2, <2>1
  <2>4. \A r \in rows' : verifier.after < r.seq /\ r.seq =< z => r \in P
    BY <1>2, <1>3, <2>1, <2>2
  <2>5. Cardinality(P) < PageLimit =>
          \A r \in rows' : verifier.after < r.seq /\ r.seq =< verifier.upto => r \in P
    BY <1>2, <1>3, <1>4, <2>1
  <2> QED
    BY <1>2, <2>1, <2>3, <2>4, <2>5 DEF PageRead, P, z
<1>7. LossSeen' /\ LossTold'
  <2>1. \A r \in rows' : Watched(r) => r \in rows
    BY <1>2, <1>3, <1>4 DEF Watched
  <2>2. \A r : (Watched(r))' <=> Watched(r)
    BY <1>2 DEF Watched
  <2>3. \A r : (Reported(r))' <=> Reported(r)
    BY <1>2 DEF Reported
  <2> QED BY <1>2, <2>1, <2>2, <2>3 DEF PassInv, LossSeen, LossTold, Finished
<1>8. QuietPass'
  <2>1. Calm' => Calm
    <3>1. [ChainNext]_chainVars /\ ChainInv
      BY DEF ChainNext, StoreInv
    <3>2. Inverted => Inverted'
      BY <3>1, InvertedStays
    <3> QED BY <1>2, <3>2 DEF Calm
  <2> QED BY <1>2, <1>3, <2>1 DEF PassInv, QuietPass, Reading, Consecutive
<1> QED BY <1>5, <1>6, <1>7, <1>8 DEF PassInv

LEMMA PassPrune ==
  ASSUME StoreInv, PassInv, Prune
  PROVE  PassInv'
<1> DEFINE b == Last(Batch)
<1>1. /\ Batch \subseteq rows /\ b \in Batch
      /\ rows' = rows \ Batch
      /\ checkpoints' = checkpoints \cup {Seal(Batch)}
      /\ verifier' = [verifier EXCEPT !.overtaken = @ \/ Overtakes(Batch)]
      /\ head' = head /\ log' = log /\ lost' = lost
      /\ \A r \in Batch : r.seq =< b.seq
  BY PruneFacts DEF StoreInv
<1>2. ~Inverted => \A r \in rows \ Batch : b.seq < r.seq
  BY PruneFromBelow DEF StoreInv
<1>3. Seal(Batch).to = b.seq
  BY DEF Seal
<1> HIDE DEF b
<1>4. verifier \in AnyPass
  BY DEF PassInv, PassTyped
<1>5. /\ verifier' \in AnyPass
      /\ verifier'.pc = verifier.pc /\ verifier'.after = verifier.after
      /\ verifier'.page = verifier.page /\ verifier'.breaks = verifier.breaks
      /\ verifier'.missing = verifier.missing /\ verifier'.upto = verifier.upto
      /\ verifier'.done = verifier.done
      /\ verifier'.overtaken = (verifier.overtaken \/ Overtakes(Batch))
  <2>1. (verifier.overtaken \/ Overtakes(Batch)) \in BOOLEAN
    BY <1>4 DEF AnyPass, Overtakes
  <2> QED BY <1>1, <1>4, <2>1 DEF AnyPass
<1>6. PassTyped' /\ PageRead' /\ LossSeen' /\ LossTold'
  BY <1>1, <1>5, PassFewer
<1>7. QuietPass'
  <2> SUFFICES ASSUME Calm' PROVE QuietPass'
    BY DEF QuietPass
  <2>1. Calm /\ ~Overtakes(Batch)
    <3>1. Inverted => Inverted'
      BY <1>1 DEF Inverted
    <3> QED BY <1>1, <1>5, <3>1 DEF Calm
  <2>2. ~Inverted /\ lost = {}
    BY <2>1 DEF Calm
  <2> DEFINE n == First(verifier.page).seq
  <2>3. /\ verifier.breaks = {}
        /\ Reading => Consecutive(verifier.page)
        /\ verifier.pc = "predecessor" /\ Floor < n =>
             \/ \E s \in rows : s.seq = n - 1
             \/ \E c \in checkpoints : c.to = n - 1
        /\ verifier.pc = "checkpoint" => \E c \in checkpoints : c.to = n - 1
    BY <2>1 DEF PassInv, QuietPass
  <2>4. ASSUME verifier.pc = "predecessor", Floor < n
        PROVE  \/ \E s \in rows \ Batch : s.seq = n - 1
               \/ \E c \in checkpoints' : c.to = n - 1
    <3> SUFFICES ASSUME NEW s \in Batch, s.seq = n - 1
                 PROVE  \E c \in checkpoints' : c.to = n - 1
      BY <1>1, <2>3, <2>4
    <3>1. n \in 1 .. head.seq /\ head.seq \in Nat
      <4>1. /\ verifier.page # {} /\ DOMAIN log = 1 .. head.seq /\ head.seq \in Nat
            /\ \A r \in verifier.page : r.seq \in DOMAIN log
        BY <2>4 DEF PassInv, PageRead, Reading, StoreInv, ChainInv, WeaklyTyped, CommitOrder
      <4>2. Numbered(verifier.page, head.seq)
        BY <4>1 DEF Numbered
      <4>3. First(verifier.page) \in verifier.page
        BY <4>1, <4>2, FirstLast
      <4> QED BY <4>1, <4>3
    <3>2. n - 1 \notin {r.seq : r \in Batch} \/ n \notin {r.seq : r \in Batch}
      BY <2>1, <2>4 DEF Overtakes
    <3> HIDE DEF n
    <3>3. \A r \in Batch : r.seq # n
      BY <3>2
    <3>4. \E r \in rows : r.seq = n
      <4>1. \/ \E r \in rows : r.seq = n
            \/ \E c \in checkpoints : c.from =< n /\ n =< c.to
        BY <2>2, <3>1 DEF StoreInv, Books, NumbersCovered
      <4>2. ASSUME NEW c \in checkpoints, n =< c.to PROVE FALSE
        <5>1. c.to < s.seq /\ c.to \in 1 .. head.seq
          BY <1>1, <2>2 DEF StoreInv, Orderly, FromBelow, Books, GoneForGood
        <5> QED BY <3>1, <4>2, <5>1
      <4> QED BY <4>1, <4>2
    <3>5. b.seq < n /\ n - 1 =< b.seq
      BY <1>1, <1>2, <2>2, <3>3, <3>4
    <3>6. b.seq \in Nat
      BY <1>1 DEF StoreInv, ChainInv, WeaklyTyped, ChainRow
    <3>7. b.seq = n - 1
      BY <3>1, <3>5, <3>6
    <3> QED BY <1>1, <1>3, <3>7
  <2>5. Calm' => /\ verifier'.breaks = {}
                 /\ Reading' => Consecutive(verifier'.page)
                 /\ verifier'.pc = "predecessor" /\ Floor < n =>
                      \/ \E s \in rows' : s.seq = n - 1
                      \/ \E c \in checkpoints' : c.to = n - 1
                 /\ verifier'.pc = "checkpoint" => \E c \in checkpoints' : c.to = n - 1
    <3> HIDE DEF n
    <3>1. Reading' = Reading
      BY <1>5 DEF Reading
    <3> QED BY <1>1, <1>5, <2>3, <2>4, <3>1
  <2>6. First(verifier'.page).seq = n
    BY <1>5
  <2> HIDE DEF n
  <2>7. Consecutive(verifier.page)' <=> Consecutive(verifier'.page)
    BY DEF Consecutive
  <2> QED BY <2>5, <2>6, <2>7 DEF QuietPass
<1> QED BY <1>6, <1>7 DEF PassInv

-----------------------------------------------------------------------------
(* The statements of the verifier.                                         *)

LEMMA PassStart ==
  ASSUME StoreInv, PassInv, StartPass
  PROVE  PassInv'
<1>1. UNCHANGED <<rows, head, checkpoints, log, lost>>
  BY DEF StartPass
<1>2. /\ head.seq \in Nat /\ lost \in SUBSET Nat /\ Legacy \in Nat
  BY RowsFinite, AuditChainAssumption DEF StoreInv, Books, GoneForGood
<1>3. verifier' = [NoPass EXCEPT !.pc = "page", !.after = Floor - 1,
                                 !.missing = lost, !.upto = head.seq]
  BY DEF StartPass
<1>4. Floor - 1 = Legacy
  BY <1>2 DEF Floor
<1>5. NoPass \in AnyPass
  BY DEF NoPass, AnyPass
<1>6. /\ verifier' \in AnyPass
      /\ verifier'.pc = "page" /\ verifier'.after = Legacy
      /\ verifier'.missing = lost /\ verifier'.upto = head.seq
      /\ verifier'.breaks = {}
  BY <1>2, <1>3, <1>4, <1>5 DEF AnyPass, NoPass
<1>7. PassTyped'
  BY <1>1, <1>2, <1>6 DEF PassTyped
<1>8. PageRead' /\ LossTold'
  BY <1>6 DEF PageRead, Reading, LossTold, Finished
<1>9. LossSeen'
  <2>1. \A r \in rows : r.seq \in Nat
    BY DEF StoreInv, ChainInv, WeaklyTyped, ChainRow
  <2>2. \A r \in rows : Floor < r.seq => ~(r.seq =< Legacy)
    BY <1>2, <2>1 DEF Floor
  <2> QED BY <1>1, <1>6, <2>2 DEF LossSeen, Watched
<1>10. QuietPass'
  BY <1>6 DEF QuietPass, Reading
<1> QED BY <1>7, <1>8, <1>9, <1>10 DEF PassInv

LEMMA PassReadPage ==
  ASSUME StoreInv, PassInv, ReadPage
  PROVE  PassInv'
<1> DEFINE S == {r \in rows : r.seq > verifier.after}
           P == Limit(S, PageLimit)
<1>1. /\ UNCHANGED <<rows, head, checkpoints, log, lost>>
      /\ verifier.pc = "page"
      /\ verifier' = IF P = {} THEN Report(verifier)
                     ELSE [verifier EXCEPT !.pc = "predecessor", !.page = P]
  BY DEF ReadPage
<1>2. /\ verifier \in AnyPass /\ verifier.missing \subseteq lost
      /\ verifier.upto =< head.seq /\ Legacy =< verifier.after
      /\ verifier.after \in Nat
  BY <1>1 DEF PassInv, PassTyped, AnyPass
<1>3. /\ head.seq \in Nat /\ IsFiniteSet(rows)
      /\ \A r \in rows : /\ r \in ChainRow /\ r.seq \in 1 .. head.seq
                         /\ r.seq \in DOMAIN log /\ r = log[r.seq]
      /\ \A r, s \in rows : r.seq = s.seq => r = s
  BY RowsFinite DEF StoreInv, Numbered, ChainInv, WeaklyTyped, CommitOrder
<1>4. IsFiniteSet(S) /\ Numbered(S, head.seq) /\ PageLimit \in Nat \ {0}
  BY <1>3, FS_Subset, AuditChainAssumption DEF Numbered
<1>5. \A r \in S : r \in rows /\ verifier.after < r.seq
  BY <1>2, <1>3
<1>6. \A r \in rows : verifier.after < r.seq => r \in S
  BY <1>2, <1>3
<1> HIDE DEF S
<1>7. /\ P \subseteq S
      /\ S # {} => P # {}
      /\ \A p \in P, s \in S \ P : p.seq < s.seq
      /\ Cardinality(P) < PageLimit => P = S
  BY <1>3, <1>4, LimitProperties
<1> HIDE DEF P
<1>8. CASE P = {}
  <2>1. /\ verifier' \in AnyPass
        /\ verifier'.pc = "idle" /\ verifier'.after = verifier.after
        /\ verifier'.missing = verifier.missing /\ verifier'.upto = verifier.upto
        /\ verifier'.breaks = verifier.breaks /\ verifier'.overtaken = verifier.overtaken
    <3>1. verifier' = [verifier EXCEPT !.pc = "idle", !.page = {}, !.done = TRUE]
      BY <1>1, <1>8 DEF Report
    <3> QED BY <1>2, <3>1 DEF AnyPass
  <2>2. \A r \in rows : r.seq =< verifier.after
    BY <1>2, <1>3, <1>6, <1>7, <1>8
  <2>3. PassTyped'
    BY <1>1, <1>2, <2>1 DEF PassTyped
  <2>4. PageRead' /\ LossSeen'
    BY <2>1 DEF PageRead, Reading, LossSeen
  <2>5. LossTold'
    <3>1. \A r \in rows : Watched(r) => Reported(r)
      BY <1>1, <2>2 DEF PassInv, LossSeen
    <3>2. \A r \in rows : (Watched(r))' <=> Watched(r)
      BY <2>1 DEF Watched
    <3>3. \A r \in rows : (Reported(r))' <=> Reported(r)
      BY <2>1 DEF Reported
    <3> QED BY <1>1, <3>1, <3>2, <3>3 DEF LossTold
  <2>6. QuietPass'
    BY <1>1, <2>1 DEF PassInv, QuietPass, Calm, Inverted, Reading
  <2> QED BY <2>3, <2>4, <2>5, <2>6 DEF PassInv
<1>9. CASE P # {}
  <2>1. /\ verifier' \in AnyPass
        /\ verifier'.pc = "predecessor" /\ verifier'.page = P
        /\ verifier'.after = verifier.after
        /\ verifier'.missing = verifier.missing /\ verifier'.upto = verifier.upto
        /\ verifier'.breaks = verifier.breaks /\ verifier'.overtaken = verifier.overtaken
    <3>1. verifier' = [verifier EXCEPT !.pc = "predecessor", !.page = P]
      BY <1>1, <1>9
    <3>2. P \in SUBSET ChainRow
      BY <1>3, <1>5, <1>7
    <3> QED BY <1>2, <3>1, <3>2 DEF AnyPass
  <2>2. /\ First(P) \in P /\ \A r \in P : First(P).seq =< r.seq
        /\ Last(P) \in P
    <3>1. Numbered(P, head.seq)
      BY <1>4, <1>7 DEF Numbered
    <3> QED BY <1>3, <1>9, <3>1, FirstLast
  <2>3. PassTyped'
    BY <1>1, <1>2, <2>1 DEF PassTyped
  <2>4. PageRead'
    <3>1. \A r \in P : /\ r.seq \in DOMAIN log /\ r = log[r.seq]
                       /\ verifier.after < r.seq /\ r.seq \notin verifier.missing
      BY <1>2, <1>3, <1>5, <1>7 DEF StoreInv, Books, GoneForGood
    <3>2. \A r \in rows : verifier.after < r.seq /\ r.seq =< Last(P).seq => r \in P
      <4> SUFFICES ASSUME NEW r \in rows, verifier.after < r.seq, r.seq =< Last(P).seq,
                          r \notin P
                   PROVE  FALSE
        OBVIOUS
      <4>1. Last(P).seq < r.seq
        BY <1>6, <1>7, <2>2
      <4>2. r.seq \in Nat /\ Last(P).seq \in Nat
        BY <1>3, <1>5, <1>7, <2>2
      <4> QED BY <4>1, <4>2
    <3>3. Cardinality(P) < PageLimit => \A r \in rows : verifier.after < r.seq => r \in P
      BY <1>6, <1>7
    <3> QED BY <1>1, <1>9, <2>1, <3>1, <3>2, <3>3 DEF PageRead
  <2>5. LossSeen' /\ LossTold'
    <3>1. \A r \in rows : (Watched(r))' <=> Watched(r)
      BY <2>1 DEF Watched
    <3>2. \A r \in rows : (Reported(r))' <=> Reported(r)
      BY <2>1 DEF Reported
    <3> QED BY <1>1, <2>1, <3>1, <3>2 DEF PassInv, LossSeen, LossTold, Finished
  <2>6. QuietPass'
    <3> SUFFICES ASSUME Calm PROVE QuietPass'
      BY <1>1, <2>1 DEF QuietPass, Calm, Inverted
    <3>1. ~Inverted /\ lost = {} /\ verifier.breaks = {}
      BY DEF Calm, PassInv, QuietPass
    <3>2. First(P) \in rows /\ First(P).seq \in Nat \ {0}
      BY <1>3, <1>5, <1>7, <2>2
    <3>3. ASSUME NEW r \in P, r # First(P) PROVE \E s \in P : s.seq = r.seq - 1
      <4>1. r \in rows /\ r.seq \in 1 .. head.seq /\ First(P).seq < r.seq
        BY <1>3, <1>5, <1>7, <2>2, <3>2, <3>3
      <4>2. PICK n \in 1 .. head.seq : n = r.seq - 1 /\ r.seq = n + 1
        BY <1>3, <3>2, <4>1
      <4>3. First(P).seq =< n
        BY <3>2, <4>1, <4>2
      <4>4. ASSUME NEW c \in checkpoints, c.to = n PROVE FALSE
        <5>1. c.to < First(P).seq
          BY <3>1, <3>2 DEF StoreInv, Orderly, FromBelow
        <5>2. n < First(P).seq
          BY <4>4, <5>1
        <5>3. n \in Int /\ First(P).seq \in Int
          BY <3>2
        <5> QED BY <4>3, <5>2, <5>3
      <4>5. log[n] \in rows /\ log[n].seq = n
        BY <3>1, <4>1, <4>2, <4>4, Precedes
      <4>6. verifier.after < n
        <5>1. verifier.after < First(P).seq
          BY <1>5, <1>7, <2>2
        <5> QED BY <1>2, <3>2, <4>2, <4>3, <5>1
      <4>7. log[n] \in P
        <5> SUFFICES ASSUME log[n] \in S \ P PROVE FALSE
          BY <1>6, <4>5, <4>6
        <5>1. r.seq < n
          BY <1>7, <3>3, <4>5
        <5> QED BY <1>3, <4>2, <5>1
      <4> QED BY <4>2, <4>5, <4>7
    <3>4. ASSUME Floor < First(P).seq
          PROVE  \/ \E s \in rows : s.seq = First(P).seq - 1
                 \/ \E c \in checkpoints : c.to = First(P).seq - 1
      <4>1. PICK n \in 1 .. head.seq : n = First(P).seq - 1 /\ First(P).seq = n + 1
        <5>1. Legacy \in Nat /\ First(P).seq \in 1 .. head.seq
          BY <1>3, <3>2, AuditChainAssumption
        <5> QED BY <1>3, <3>4, <5>1 DEF Floor
      <4>2. \/ log[n] \in rows /\ log[n].seq = n
            \/ \E c \in checkpoints : c.to = n /\ c.last = log[n].event
        BY <3>1, <3>2, <4>1, Precedes
      <4> QED BY <4>1, <4>2
    <3>5. Consecutive(P)
      BY <3>3 DEF Consecutive
    <3>6. Consecutive(verifier.page)' <=> Consecutive(P)
      BY <2>1 DEF Consecutive
    <3> QED BY <1>1, <2>1, <3>1, <3>4, <3>5, <3>6 DEF QuietPass
  <2> QED BY <2>3, <2>4, <2>5, <2>6 DEF PassInv
<1> QED BY <1>8, <1>9

\* The page that is being verified, with its first and its last row.
LEMMA PageFacts ==
  ASSUME StoreInv, PassInv, Reading
  PROVE  /\ Numbered(verifier.page, head.seq) /\ head.seq \in Nat
         /\ \A r \in verifier.page :
              /\ r \in ChainRow /\ r.seq \in DOMAIN log /\ r = log[r.seq]
              /\ verifier.after < r.seq /\ r.seq \notin verifier.missing
         /\ First(verifier.page) \in verifier.page
         /\ Last(verifier.page) \in verifier.page
         /\ \A r \in verifier.page : /\ First(verifier.page).seq =< r.seq
                                     /\ r.seq =< Last(verifier.page).seq
<1> DEFINE P == verifier.page
<1>1. /\ P # {} /\ DOMAIN log = 1 .. head.seq /\ head.seq \in Nat
      /\ \A r \in P : /\ r.seq \in DOMAIN log /\ r = log[r.seq]
                      /\ verifier.after < r.seq /\ r.seq \notin verifier.missing
  BY DEF PassInv, PageRead, StoreInv, ChainInv, WeaklyTyped, CommitOrder
<1>2. \A r \in P : r \in ChainRow
  <2>1. log \in Seq(ChainRow)
    BY DEF StoreInv, ChainInv, WeaklyTyped
  <2> QED BY <1>1, <2>1
<1>3. Numbered(P, head.seq)
  BY <1>1 DEF Numbered
<1> HIDE DEF P
<1>4. /\ First(P) \in P /\ Last(P) \in P
      /\ \A r \in P : First(P).seq =< r.seq /\ r.seq =< Last(P).seq
  BY <1>1, <1>3, FirstLast
<1> QED BY <1>1, <1>2, <1>3, <1>4 DEF P

\* The row that a row of a page is compared with.
LEMMA BeforeIs ==
  ASSUME StoreInv, PassInv, Reading,
         NEW r \in verifier.page, r # First(verifier.page)
  PROVE  /\ Before(r) \in verifier.page /\ Before(r).seq < r.seq
         /\ \A s \in verifier.page : s.seq < r.seq => s.seq =< Before(r).seq
<1> DEFINE P == verifier.page
           L == {s \in P : s.seq < r.seq}
<1>1. /\ Numbered(P, head.seq) /\ head.seq \in Nat
      /\ \A s \in P : s.seq \in Nat /\ s = log[s.seq]
      /\ First(P) \in P /\ \A s \in P : First(P).seq =< s.seq
  BY PageFacts DEF ChainRow
<1>2. First(P).seq < r.seq
  <2>1. First(P).seq # r.seq
    BY <1>1
  <2> QED BY <1>1, <2>1
<1>3. L # {} /\ Numbered(L, head.seq)
  BY <1>1, <1>2 DEF Numbered
<1>4. Last(L) \in L /\ \A s \in L : s.seq =< Last(L).seq
  <2> HIDE DEF L
  <2> QED BY <1>1, <1>3, FirstLast
<1>5. Before(r) = Last(L)
  BY DEF Before
<1> QED BY <1>4, <1>5

\* A hole before a row inside a page is reported.
LEMMA HoleReported ==
  ASSUME StoreInv, PassInv, Reading,
         NEW r \in verifier.page, r # First(verifier.page),
         \A s \in verifier.page : s.seq # r.seq - 1
  PROVE  \E b \in InnerBreaks(verifier.page) : b.seq = r.seq
<1>1. Before(r) \in verifier.page /\ r \in ChainRow /\ Before(r) \in ChainRow
  BY BeforeIs, PageFacts
<1>2. r.seq # Before(r).seq + 1
  <2>1. Before(r).seq # r.seq - 1
    BY <1>1
  <2>2. r.seq \in Nat /\ Before(r).seq \in Nat
    BY <1>1 DEF ChainRow
  <2> QED BY <2>1, <2>2
<1>3. r \in {s \in verifier.page \ {First(verifier.page)} : s.seq # Before(s).seq + 1}
  BY <1>2
<1>4. Break(r, "seq_gap") \in InnerBreaks(verifier.page)
  BY <1>3 DEF InnerBreaks
<1>5. Break(r, "seq_gap").seq = r.seq
  BY DEF Break
<1> QED BY <1>4, <1>5

\* A page whose rows follow one another has no break inside.
LEMMA NoInnerBreak ==
  ASSUME StoreInv, PassInv, Reading, Consecutive(verifier.page)
  PROVE  InnerBreaks(verifier.page) = {}
<1> DEFINE P == verifier.page
<1> SUFFICES ASSUME NEW r \in P \ {First(P)}
             PROVE  r.seq = Before(r).seq + 1 /\ r.prev = Before(r).event
  BY DEF InnerBreaks
<1>1. r # First(P) /\ r \in P
  OBVIOUS
<1>2. /\ Before(r) \in P /\ Before(r).seq < r.seq
      /\ \A s \in P : s.seq < r.seq => s.seq =< Before(r).seq
  BY <1>1, BeforeIs
<1>3. /\ \A s \in P : /\ s.seq \in Nat /\ s.seq \in DOMAIN log /\ s = log[s.seq]
                      /\ verifier.after < s.seq
      /\ First(P) \in P /\ \A s \in P : First(P).seq =< s.seq
  BY PageFacts DEF ChainRow
<1>4. PICK s \in P : s.seq = r.seq - 1
  BY <1>1 DEF Consecutive
<1>5. s.seq < r.seq /\ s.seq =< Before(r).seq
  BY <1>1, <1>2, <1>3, <1>4
<1>6. Before(r).seq = r.seq - 1
  BY <1>1, <1>2, <1>3, <1>4, <1>5
<1>7. r.seq = Before(r).seq + 1
  BY <1>1, <1>2, <1>3, <1>6
<1>8. Floor < r.seq
  <2>1. Legacy \in Nat /\ Legacy =< verifier.after /\ verifier.after \in Nat
    BY AuditChainAssumption DEF PassInv, PassTyped, AnyPass, Reading
  <2>2. verifier.after < s.seq
    BY <1>3
  <2> QED BY <1>1, <1>3, <1>4, <2>1, <2>2 DEF Floor
<1>9. log[r.seq].prev = log[r.seq - 1].event
  BY <1>1, <1>3, <1>8 DEF StoreInv, ChainInv, CommitOrder
<1>10. r.prev = Before(r).event
  BY <1>1, <1>2, <1>3, <1>6, <1>9
<1> QED BY <1>7, <1>10

AnyBreak == [seq : Nat, reason : Reason]

\* The end of a page: what was found of its first row, and what was found
\* inside, is added to the breaks.
LEMMA PassFinish ==
  ASSUME StoreInv, PassInv, Reading,
         NEW F \in SUBSET AnyBreak, FinishPage(F),
         UNCHANGED <<rows, head, checkpoints, log, lost>>,
         Watched(First(verifier.page))
           => \E b \in F : b.seq = First(verifier.page).seq,
         Calm => F = {}
  PROVE  PassInv'
<1> DEFINE P == verifier.page
           G == verifier.breaks \cup F \cup InnerBreaks(P)
           z == Last(P).seq
           done == [verifier EXCEPT !.pc = "page", !.page = {}, !.after = z,
                                    !.breaks = G]
<1>1. /\ head.seq \in Nat
      /\ \A r \in P : /\ r \in ChainRow /\ r.seq \in 1 .. head.seq
                      /\ verifier.after < r.seq /\ r.seq \notin verifier.missing
      /\ First(P) \in P /\ Last(P) \in P
      /\ \A r \in P : r.seq =< z
  BY PageFacts DEF Numbered
<1>2. /\ verifier \in AnyPass /\ verifier.missing \subseteq lost
      /\ verifier.upto =< head.seq /\ Legacy =< verifier.after
      /\ verifier.after \in Nat /\ verifier.upto \in Nat /\ verifier.pc # "idle"
  BY DEF PassInv, PassTyped, AnyPass, Reading
<1>3. InnerBreaks(P) \in SUBSET AnyBreak
  <2>1. \A r \in P : Break(r, "seq_gap") \in AnyBreak
                     /\ Break(r, "prev_hash_mismatch") \in AnyBreak
    BY <1>1 DEF Break, AnyBreak, ChainRow, Reason
  <2> QED BY <2>1 DEF InnerBreaks
<1>4. G \in SUBSET AnyBreak
  <2>1. verifier.breaks \in SUBSET AnyBreak
    BY <1>2 DEF AnyPass, AnyBreak
  <2> QED BY <1>3, <2>1
<1>5. verifier' = IF Cardinality(P) < PageLimit
                  THEN [done EXCEPT !.pc = "idle", !.page = {}, !.done = TRUE]
                  ELSE done
  <2>1. done = [verifier EXCEPT !.pc = "page", !.page = {}, !.after = Last(P).seq,
                                !.breaks = @ \cup F \cup InnerBreaks(P)]
    OBVIOUS
  <2> HIDE DEF done
  <2> QED BY <2>1 DEF FinishPage, Report
<1>6. z \in Nat /\ Legacy \in Nat /\ Legacy =< z
  <2>1. z \in Nat /\ verifier.after < z /\ Legacy \in Nat
    BY <1>1, AuditChainAssumption
  <2> QED BY <1>2, <2>1
<1> HIDE DEF P, G, z
<1>7. done \in AnyPass
  <2>1. z \in Nat /\ {} \in SUBSET ChainRow /\ G \in SUBSET [seq : Nat, reason : Reason]
    BY <1>4, <1>6 DEF AnyBreak
  <2> QED BY <1>2, <2>1 DEF AnyPass
<1>8. /\ done.pc = "page" /\ done.after = z /\ done.breaks = G
      /\ done.missing = verifier.missing /\ done.upto = verifier.upto
      /\ done.overtaken = verifier.overtaken
  BY <1>2 DEF AnyPass
<1> HIDE DEF done
<1>9. /\ verifier' \in AnyPass
      /\ verifier'.after = z /\ verifier'.breaks = G
      /\ verifier'.missing = verifier.missing /\ verifier'.upto = verifier.upto
      /\ verifier'.overtaken = verifier.overtaken
      /\ verifier'.pc \in {"page", "idle"}
      /\ verifier'.pc = "idle" => Cardinality(P) < PageLimit
  BY <1>5, <1>7, <1>8 DEF AnyPass
<1>10. PassTyped'
  BY <1>2, <1>6, <1>9 DEF PassTyped
<1>11. PageRead'
  BY <1>9 DEF PageRead, Reading
<1>12. ASSUME NEW r \in rows, Watched(r), r \in P
       PROVE  \E b \in G : b.seq = r.seq
  <2>1. CASE r = First(P)
    BY <1>12, <2>1 DEF P, G
  <2>2. CASE r # First(P)
    <3>1. r.seq - 1 \in verifier.missing
      BY <1>12 DEF Watched
    <3>2. \A s \in P : s.seq # r.seq - 1
      BY <1>1, <3>1
    <3>3. \E b \in InnerBreaks(verifier.page) : b.seq = r.seq
      BY <1>12, <2>2, <3>2, HoleReported DEF P
    <3> QED BY <3>3 DEF G, P
  <2> QED BY <2>1, <2>2
<1>13. ASSUME NEW r \in rows, Watched(r),
              r.seq =< z \/ Cardinality(P) < PageLimit
       PROVE  \E b \in G : b.seq = r.seq
  <2>1. r.seq \in Nat
    BY DEF StoreInv, ChainInv, WeaklyTyped, ChainRow
  <2>2. CASE r.seq =< verifier.after
    <3>1. \E b \in verifier.breaks : b.seq = r.seq
      BY <1>2, <1>13, <2>2 DEF PassInv, LossSeen, Reported
    <3> QED BY <3>1 DEF G
  <2>3. CASE ~(r.seq =< verifier.after)
    <3>1. verifier.after < r.seq /\ r.seq =< verifier.upto
      BY <1>2, <1>13, <2>1, <2>3 DEF Watched
    <3>2. r \in P
      BY <1>13, <3>1 DEF PassInv, PageRead, P, z
    <3> QED BY <1>12, <1>13, <3>2
  <2> QED BY <2>2, <2>3
<1>14. LossSeen' /\ LossTold'
  <2>1. \A r \in rows : (Watched(r))' <=> Watched(r)
    BY <1>9 DEF Watched
  <2>2. \A r \in rows : (Reported(r))' <=> \E b \in G : b.seq = r.seq
    BY <1>9 DEF Reported
  <2>3. LossSeen'
    BY <1>9, <1>13, <2>1, <2>2 DEF LossSeen
  <2>4. LossTold'
    BY <1>9, <1>13, <2>1, <2>2 DEF LossTold, Finished
  <2> QED BY <2>3, <2>4
<1>15. QuietPass'
  <2>1. Calm' = Calm
    BY <1>9 DEF Calm, Inverted
  <2>2. ASSUME Calm PROVE G = {}
    <3>1. verifier.breaks = {} /\ Consecutive(verifier.page)
      BY <2>2 DEF PassInv, QuietPass
    <3>2. InnerBreaks(verifier.page) = {}
      BY <3>1, NoInnerBreak
    <3> QED BY <2>2, <3>1, <3>2 DEF G, P
  <2>3. ~Reading' /\ verifier'.pc # "predecessor" /\ verifier'.pc # "checkpoint"
    BY <1>9 DEF Reading
  <2> QED BY <1>9, <2>1, <2>2, <2>3 DEF QuietPass
<1> QED BY <1>10, <1>11, <1>14, <1>15 DEF PassInv

\* What a hash says of the first row of the page.
LEMMA AgainstIs ==
  ASSUME StoreInv, PassInv, Reading, NEW h
  PROVE  /\ Against(h) \in SUBSET AnyBreak
         /\ First(verifier.page).prev = h => Against(h) = {}
<1>1. First(verifier.page) \in ChainRow
  BY PageFacts
<1> QED BY <1>1 DEF Against, Break, AnyBreak, ChainRow, Reason

LEMMA PassReadPredecessor ==
  ASSUME StoreInv, PassInv, ReadPredecessor
  PROVE  PassInv'
<1> DEFINE f == First(verifier.page)
           prior == {r \in rows : r.seq = f.seq - 1}
<1>1. /\ UNCHANGED <<rows, head, checkpoints, log, lost>>
      /\ verifier.pc = "predecessor" /\ Reading
  BY DEF ReadPredecessor, Reading
<1>2. /\ f.seq =< Floor /\ FinishPage(Against(NoHash))
      \/ /\ f.seq > Floor /\ prior # {}
         /\ FinishPage(Against(First(prior).event))
      \/ /\ f.seq > Floor /\ prior = {}
         /\ verifier' = [verifier EXCEPT !.pc = "checkpoint"]
  BY DEF ReadPredecessor
<1>3. /\ f \in ChainRow /\ f.seq \in DOMAIN log /\ f = log[f.seq]
      /\ verifier.after < f.seq /\ f.seq \in Nat
  BY <1>1, PageFacts DEF ChainRow
<1>4. /\ verifier \in AnyPass /\ verifier.missing \subseteq lost
      /\ verifier.after \in Nat /\ Legacy =< verifier.after /\ Legacy \in Nat
  BY <1>1, AuditChainAssumption DEF PassInv, PassTyped, AnyPass
<1>5. /\ head.seq \in Nat /\ Numbered(rows, head.seq)
      /\ \A r \in rows : r = log[r.seq]
  BY RowsFinite DEF StoreInv, ChainInv, CommitOrder
<1> HIDE DEF f
<1>6. CASE f.seq =< Floor /\ FinishPage(Against(NoHash))
  <2>1. ~Watched(f)
    BY <1>3, <1>4, <1>6 DEF Watched, Floor
  <2>2. f.prev = NoHash
    <3>1. log[f.seq].prev = NoHash
      BY <1>3, <1>6 DEF StoreInv, Orderly, Rooted
    <3> QED BY <1>3, <3>1
  <2>3. Against(NoHash) \in SUBSET AnyBreak /\ Against(NoHash) = {}
    BY <1>1, <2>2, AgainstIs DEF f
  <2> QED BY <1>1, <1>6, <2>1, <2>3, PassFinish DEF f
<1>7. CASE f.seq > Floor /\ prior # {} /\ FinishPage(Against(First(prior).event))
  <2> DEFINE s == First(prior)
  <2>1. s \in rows /\ s.seq = f.seq - 1
    <3>1. Numbered(prior, head.seq)
      BY <1>5 DEF Numbered
    <3>2. s \in prior
      <4> HIDE DEF prior
      <4> QED BY <1>5, <1>7, <3>1, FirstLast
    <3> QED BY <3>2
  <2> HIDE DEF s
  <2>2. f.prev = s.event
    <3>1. log[f.seq].prev = log[f.seq - 1].event
      BY <1>3, <1>7 DEF StoreInv, ChainInv, CommitOrder
    <3>2. s = log[f.seq - 1]
      BY <1>5, <2>1
    <3> QED BY <1>3, <3>1, <3>2
  <2>3. ~Watched(f)
    <3>1. f.seq - 1 \notin lost
      BY <2>1 DEF StoreInv, Books, GoneForGood
    <3> QED BY <1>4, <3>1 DEF Watched
  <2>4. Against(s.event) \in SUBSET AnyBreak /\ Against(s.event) = {}
    BY <1>1, <2>2, AgainstIs DEF f
  <2>5. FinishPage(Against(s.event))
    BY <1>7 DEF s
  <2> QED BY <1>1, <2>3, <2>4, <2>5, PassFinish DEF f
<1>8. CASE /\ f.seq > Floor /\ prior = {}
           /\ verifier' = [verifier EXCEPT !.pc = "checkpoint"]
  <2>1. /\ verifier' \in AnyPass
        /\ verifier'.pc = "checkpoint" /\ verifier'.after = verifier.after
        /\ verifier'.page = verifier.page /\ verifier'.breaks = verifier.breaks
        /\ verifier'.missing = verifier.missing /\ verifier'.upto = verifier.upto
        /\ verifier'.overtaken = verifier.overtaken
    BY <1>4, <1>8 DEF AnyPass
  <2>2. PassTyped'
    BY <1>1, <2>1 DEF PassInv, PassTyped
  <2>3. First(verifier.page) = f /\ Floor < f.seq
    <3>1. Floor \in Nat
      BY <1>4 DEF Floor
    <3> QED BY <1>3, <1>8, <3>1 DEF f
  <2>4. PageRead'
    BY <1>1, <2>1, <2>3 DEF PassInv, PageRead
  <2>5. LossSeen' /\ LossTold'
    <3>1. \A r \in rows : (Watched(r))' <=> Watched(r)
      BY <2>1 DEF Watched
    <3>2. \A r \in rows : (Reported(r))' <=> Reported(r)
      BY <2>1 DEF Reported
    <3> QED BY <1>1, <2>1, <3>1, <3>2 DEF PassInv, LossSeen, LossTold, Finished
  <2>6. QuietPass'
    <3> SUFFICES ASSUME Calm PROVE QuietPass'
      BY <1>1, <2>1 DEF QuietPass, Calm, Inverted
    <3>1. /\ verifier.breaks = {} /\ Consecutive(verifier.page)
          /\ \/ \E s \in rows : s.seq = f.seq - 1
             \/ \E c \in checkpoints : c.to = f.seq - 1
      BY <1>1, <2>3 DEF PassInv, QuietPass
    <3>2. \E c \in checkpoints : c.to = f.seq - 1
      BY <1>8, <3>1
    <3>3. Consecutive(verifier.page)' <=> Consecutive(verifier.page)
      BY <2>1 DEF Consecutive
    <3>4. First(verifier'.page).seq = f.seq
      BY <2>1, <2>3
    <3> QED BY <1>1, <2>1, <3>1, <3>2, <3>3, <3>4 DEF QuietPass
  <2> QED BY <2>2, <2>4, <2>5, <2>6 DEF PassInv
<1> QED BY <1>2, <1>6, <1>7, <1>8

LEMMA PassReadCheckpoint ==
  ASSUME StoreInv, PassInv, ReadCheckpoint
  PROVE  PassInv'
<1> DEFINE f == First(verifier.page)
           n == f.seq - 1
<1>1. /\ UNCHANGED <<rows, head, checkpoints, log, lost>>
      /\ verifier.pc = "checkpoint" /\ Reading
  BY DEF ReadCheckpoint, Reading
<1>2. \/ /\ Anchors(n) = {} /\ FinishPage({Break(f, "missing_predecessor")})
      \/ \E c \in Anchors(n) : FinishPage(Against(c.last))
  BY DEF ReadCheckpoint
<1>3. /\ f \in ChainRow /\ f.seq \in DOMAIN log /\ f = log[f.seq]
      /\ f.seq \in Nat /\ Floor < f.seq
  BY <1>1, PageFacts DEF ChainRow, PassInv, PageRead
<1>4. verifier.missing \subseteq lost
  BY DEF PassInv, PassTyped
<1>5. Calm => \E c \in checkpoints : c.to = n
  BY <1>1 DEF PassInv, QuietPass
<1> HIDE DEF f
<1>6. CASE Anchors(n) = {} /\ FinishPage({Break(f, "missing_predecessor")})
  <2> DEFINE F == {Break(f, "missing_predecessor")}
  <2>1. F \in SUBSET AnyBreak /\ \E b \in F : b.seq = f.seq
    BY <1>3 DEF Break, AnyBreak, Reason
  <2>2. ~Calm
    BY <1>5, <1>6 DEF Anchors
  <2>3. FinishPage(F)
    BY <1>6
  <2> HIDE DEF F
  <2> QED BY <1>1, <2>1, <2>2, <2>3, PassFinish DEF f
<1>7. ASSUME NEW c \in Anchors(n), FinishPage(Against(c.last)) PROVE PassInv'
  <2>1. c \in checkpoints /\ c.to = n /\ c.last = log[n].event /\ c.to \notin lost
    BY DEF Anchors, StoreInv, Books, GoneForGood
  <2>2. log[f.seq].prev = log[f.seq - 1].event
    <3>1. f.seq > Floor
      <4>1. Floor \in Nat
        BY AuditChainAssumption DEF Floor
      <4> QED BY <1>3, <4>1
    <3> QED BY <1>3, <3>1 DEF StoreInv, ChainInv, CommitOrder
  <2>3. f.prev = c.last
    BY <1>3, <2>1, <2>2
  <2>4. ~Watched(f)
    BY <1>4, <2>1 DEF Watched
  <2>5. Against(c.last) \in SUBSET AnyBreak /\ Against(c.last) = {}
    BY <1>1, <2>3, AgainstIs DEF f
  <2> QED BY <1>1, <1>7, <2>4, <2>5, PassFinish DEF f
<1> QED BY <1>2, <1>6, <1>7

LEMMA PassStep ==
  StoreInv /\ PassInv /\ [ChainNext]_chainVars => PassInv'
<1> SUFFICES ASSUME StoreInv, PassInv, [ChainNext]_chainVars PROVE PassInv'
  OBVIOUS
<1>1. CASE Tick
  BY <1>1, PassSame DEF Tick, StoreSame
<1>2. CASE \E w \in Writer : Stamp(w) \/ Link(w) \/ AbortWrite(w)
  BY <1>2, PassSame DEF Stamp, Link, AbortWrite, StoreSame
<1>3. CASE \E w \in Writer : Commit(w)
  BY <1>3, PassCommit
<1>4. CASE Prune
  BY <1>4, PassPrune
<1>5. CASE Lose
  BY <1>5, PassLose
<1>6. CASE StartPass
  BY <1>6, PassStart
<1>7. CASE ReadPage
  BY <1>7, PassReadPage
<1>8. CASE ReadPredecessor
  BY <1>8, PassReadPredecessor
<1>9. CASE ReadCheckpoint
  BY <1>9, PassReadCheckpoint
<1>10. CASE UNCHANGED chainVars
  BY <1>10, PassSame DEF chainVars, StoreSame
<1> QED
  BY <1>1, <1>2, <1>3, <1>4, <1>5, <1>6, <1>7, <1>8, <1>9, <1>10 DEF ChainNext

\* What a pass of verify_chain knows of the rows it has read: they were stored,
\* they are all there was below the end of the page, and each row that a loss
\* preceded is reported.
THEOREM PassInvariant == ChainSpec => [](StoreInv /\ PassInv)
<1>1. ChainInit => StoreInv /\ PassInv
  BY InitChain, InitBooks, InitOrderly, InitPass DEF StoreInv
<1>2. StoreInv /\ PassInv /\ [ChainNext]_chainVars => (StoreInv /\ PassInv)'
  BY ChainStep, BooksStep, OrderlyStep, PassStep DEF StoreInv
<1> QED
  BY <1>1, <1>2, PTL DEF ChainSpec

\* A break that verify_chain reports has a reason: a row was lost, created_at
\* is not in seq order, or a prune took the end of a page that was read and the
\* start of the next at once; for any page, batch, retention and writers.
THEOREM NoFalseAlarm == ChainSpec => []AlarmsExplained
<1>1. StoreInv /\ PassInv => AlarmsExplained
  BY DEF PassInv, QuietPass, Calm, AlarmsExplained
<1> QED
  BY <1>1, PassInvariant, PTL

\* A pass of verify_chain reports every row lost before it began whose
\* successor was stored then and still is, whatever is appended and pruned
\* between its statements.
THEOREM LossesReported == ChainSpec => []LossReported
<1>1. StoreInv /\ PassInv => LossReported
  BY DEF PassInv, LossTold, Finished, Watched, Reported, LossReported
<1> QED
  BY <1>1, PassInvariant, PTL

-----------------------------------------------------------------------------
(* Types with their bounds.  An event is numbered when it is linked, and   *)
(* MaxEvents bounds how many are created: numbers stay below it because    *)
(* every event that is numbered, or is stamped and may still be, has been  *)
(* created.  Room says so; it counts the stamped events of all writers     *)
(* beside the rows that the one holder of the lock has linked.             *)

Stamped == {w \in Writer : writer[w].stamp # NoStamp}

Room ==
  /\ IsFiniteSet(Stamped)
  /\ head.seq + Cardinality(Stamped) =< issued
  /\ \A w \in Writer :
       head.seq + Len(writer[w].pending) + Cardinality(Stamped) =< issued

StampsNamed ==
  \A w \in Writer : writer[w].stamp # NoStamp => writer[w].event \in SeqNo

Fits == ChainTypeOK /\ StampsNamed /\ Room

WriteTxn == [stamp : {NoStamp} \cup 0 .. MaxClock, event : Hash, pending : Seq(Row)]

LEMMA InitFits == ChainInit => Fits
<1> SUFFICES ASSUME ChainInit PROVE Fits
  OBVIOUS
<1> USE AuditChainAssumption
<1>1. \A n \in 1 .. Legacy : LegacyRow(n) \in Row
  BY DEF LegacyRow, Row, SeqNo, Hash, NoHash
<1>2. log \in Seq(Row) /\ rows \subseteq Row
  BY <1>1 DEF ChainInit
<1>3. NoWrite \in WriteTxn /\ NoWrite.stamp = NoStamp /\ NoWrite.pending = <<>>
  BY DEF NoWrite, WriteTxn, Hash, NoHash
<1>4. writer \in [Writer -> WriteTxn]
  BY <1>3 DEF ChainInit
<1>5. head \in [seq : 0 .. MaxEvents, hash : Hash] /\ head.seq = Legacy
  BY DEF ChainInit, Hash, NoHash
<1>6. verifier \in Pass
  BY DEF ChainInit, NoPass, Pass
<1>7. ChainTypeOK
  BY <1>2, <1>4, <1>5, <1>6 DEF ChainTypeOK, ChainInit, WriteTxn
<1>8. \A w \in Writer : writer[w].stamp = NoStamp /\ writer[w].pending = <<>>
  BY <1>3 DEF ChainInit
<1>9. Stamped = {}
  BY <1>8 DEF Stamped
<1>10. IsFiniteSet(Stamped) /\ Cardinality(Stamped) = 0
  BY <1>9, FS_EmptySet
<1>11. issued = Legacy /\ \A w \in Writer : Len(writer[w].pending) = 0
  BY <1>8 DEF ChainInit
<1>12. Room
  BY <1>5, <1>10, <1>11 DEF Room
<1> QED
  BY <1>7, <1>8, <1>12 DEF Fits, StampsNamed

\* What Room and the types give the steps.
LEMMA RoomTypes ==
  ASSUME ChainInv, Fits
  PROVE  /\ head.seq \in Nat /\ issued \in 0 .. MaxEvents /\ MaxEvents \in Nat
         /\ writer \in [Writer -> WriteTxn]
         /\ IsFiniteSet(Stamped) /\ Cardinality(Stamped) \in Nat
         /\ \A w \in Writer : Len(writer[w].pending) \in Nat
<1>1. head.seq \in Nat
  BY RowsFinite
<1>2. issued \in 0 .. MaxEvents /\ MaxEvents \in Nat /\ writer \in [Writer -> WriteTxn]
  BY AuditChainAssumption DEF Fits, ChainTypeOK, WriteTxn
<1>3. IsFiniteSet(Stamped)
  BY DEF Fits, Room
<1>4. Cardinality(Stamped) \in Nat
  BY <1>3, FS_CardinalityType
<1>5. \A w \in Writer : Len(writer[w].pending) \in Nat
  BY <1>2 DEF WriteTxn
<1> QED BY <1>1, <1>2, <1>3, <1>4, <1>5

\* Steps that stamp no row and link none.
LEMMA RoomKept ==
  ASSUME ChainInv, Fits, Stamped' \subseteq Stamped,
         head' = head, issued' = issued,
         \A w \in Writer : /\ Len(writer'[w].pending) \in Nat
                           /\ Len(writer'[w].pending) =< Len(writer[w].pending)
  PROVE  Room'
<1>1. IsFiniteSet(Stamped') /\ Cardinality(Stamped') \in Nat
      /\ Cardinality(Stamped') =< Cardinality(Stamped)
  <2>1. IsFiniteSet(Stamped)
    BY RoomTypes
  <2>2. IsFiniteSet(Stamped') /\ Cardinality(Stamped') =< Cardinality(Stamped)
    BY <2>1, FS_Subset
  <2> QED BY <2>2, FS_CardinalityType
<1>2. head.seq + Cardinality(Stamped') =< issued
  BY <1>1, RoomTypes DEF Fits, Room
<1>3. ASSUME NEW w \in Writer
      PROVE  head.seq + Len(writer'[w].pending) + Cardinality(Stamped') =< issued
  <2> DEFINE a == Len(writer[w].pending)
             b == Len(writer'[w].pending)
             k == Cardinality(Stamped)
             l == Cardinality(Stamped')
  <2>1. head.seq + Len(writer[w].pending) + Cardinality(Stamped) =< issued
    BY DEF Fits, Room
  <2>2. /\ head.seq \in Nat /\ issued \in Nat /\ Cardinality(Stamped) \in Nat
        /\ Len(writer[w].pending) \in Nat /\ Len(writer'[w].pending) \in Nat
        /\ Len(writer'[w].pending) =< Len(writer[w].pending)
    BY RoomTypes
  <2>3. l \in Nat /\ l =< k
    BY <1>1
  <2> HIDE DEF a, b, k, l
  <2>4. head.seq + b + l =< issued
    <3>1. head.seq + a + k =< issued /\ head.seq \in Nat /\ issued \in Nat
          /\ a \in Nat /\ b \in Nat /\ k \in Nat /\ b =< a
      BY <2>1, <2>2 DEF a, b, k
    <3> QED BY <2>3, <3>1
  <2> QED BY <2>4 DEF b, l
<1> QED BY <1>1, <1>2, <1>3 DEF Room

LEMMA FitsStamp ==
  ASSUME ChainInv, Fits, NEW w \in Writer, Stamp(w)
  PROVE  Fits'
<1> DEFINE t == [writer[w] EXCEPT !.stamp = clock, !.event = issued + 1]
           k == Cardinality(Stamped)
<1>1. /\ head.seq \in Nat /\ issued \in 0 .. MaxEvents /\ MaxEvents \in Nat
      /\ writer \in [Writer -> WriteTxn] /\ IsFiniteSet(Stamped) /\ k \in Nat
      /\ \A v \in Writer : Len(writer[v].pending) \in Nat
  BY RoomTypes
<1>2. issued < MaxEvents /\ issued' = issued + 1 /\ clock \in 0 .. MaxClock
      /\ writer[w].stamp = NoStamp /\ head' = head
      /\ writer' = [writer EXCEPT ![w] = t]
  BY DEF Stamp, Fits, ChainTypeOK
<1>3. issued + 1 \in SeqNo /\ issued + 1 \in Hash
  BY <1>1, <1>2 DEF SeqNo, Hash
<1>4. writer[w] \in WriteTxn
  BY <1>1
<1>5. t \in WriteTxn /\ t.stamp = clock /\ t.event = issued + 1
      /\ t.pending = writer[w].pending
  BY <1>2, <1>3, <1>4 DEF WriteTxn
<1> HIDE DEF t
<1>6. writer' \in [Writer -> WriteTxn] /\ writer'[w] = t
      /\ \A v \in Writer \ {w} : writer'[v] = writer[v]
  BY <1>1, <1>2, <1>5
<1>7. ChainTypeOK'
  BY <1>1, <1>2, <1>6 DEF Fits, ChainTypeOK, Stamp, WriteTxn
<1>8. StampsNamed'
  BY <1>3, <1>5, <1>6 DEF Fits, StampsNamed, SeqNo
<1>9. clock # NoStamp
  BY <1>2, AuditChainAssumption DEF NoStamp
<1>10. w \notin Stamped /\ Stamped' = Stamped \cup {w}
  BY <1>2, <1>5, <1>6, <1>9 DEF Stamped
<1>11. IsFiniteSet(Stamped') /\ Cardinality(Stamped') = k + 1
  BY <1>1, <1>10, FS_AddElement
<1>12. \A v \in Writer : writer'[v].pending = writer[v].pending
  BY <1>5, <1>6
<1>13. Room'
  <2>1. head.seq + k =< issued
        /\ \A v \in Writer : head.seq + Len(writer[v].pending) + k =< issued
    BY DEF Fits, Room
  <2> HIDE DEF k
  <2>2. head.seq + (k + 1) =< issued + 1
    BY <1>1, <2>1
  <2>3. \A v \in Writer : head.seq + Len(writer[v].pending) + (k + 1) =< issued + 1
    BY <1>1, <2>1
  <2> QED BY <1>2, <1>11, <1>12, <2>2, <2>3 DEF Room
<1> QED BY <1>7, <1>8, <1>13 DEF Fits

\* The row that is linked has a number that Room left for it.
LEMMA LinkedRow ==
  ASSUME ChainInv, Fits, NEW w \in Writer, Link(w)
  PROVE  /\ SeenHead(w).seq + 1 \in SeqNo /\ SeenHead(w).hash \in Hash
         /\ w \in Stamped
<1> DEFINE p == writer[w].pending
           k == Cardinality(Stamped)
<1>1. /\ head.seq \in Nat /\ issued \in 0 .. MaxEvents /\ MaxEvents \in Nat
      /\ writer \in [Writer -> WriteTxn] /\ IsFiniteSet(Stamped) /\ k \in Nat
  BY RoomTypes
<1>2. p \in Seq(Row) /\ Len(p) \in Nat
  BY <1>1 DEF WriteTxn
<1>3. w \in Stamped
  BY DEF Link, Stamped
<1>4. k >= 1
  <2>1. k # 0
    BY <1>1, <1>3, FS_EmptySet
  <2> QED BY <1>1, <2>1
<1>5. head.seq + Len(p) + k =< issued
  BY DEF Fits, Room
<1>6. head.seq + Len(p) + 1 \in SeqNo
  <2> HIDE DEF p, k
  <2> QED BY <1>1, <1>2, <1>4, <1>5 DEF SeqNo
<1>7. CASE p = <<>>
  <2>1. SeenHead(w) = head /\ Len(p) = 0
    BY <1>7 DEF SeenHead, Linking
  <2>2. head.hash \in Hash
    BY DEF Fits, ChainTypeOK
  <2> QED BY <1>1, <1>3, <1>6, <2>1, <2>2
<1>8. CASE p # <<>>
  <2>1. Len(p) \in 1 .. Len(p) /\ p[Len(p)] \in Row
    BY <1>2, <1>8
  <2>2. p[Len(p)].seq = head.seq + Len(p)
    BY <2>1 DEF ChainInv, InChain, Continues
  <2>3. SeenHead(w).seq = head.seq + Len(p) /\ SeenHead(w).hash = p[Len(p)].event
    BY <1>8, <2>2 DEF SeenHead, Linking, HeadAt
  <2>4. p[Len(p)].event \in Hash
    BY <1>1, <2>1 DEF Row, SeqNo, Hash
  <2> QED BY <1>3, <1>6, <2>3, <2>4
<1> QED BY <1>7, <1>8

LEMMA FitsLink ==
  ASSUME ChainInv, Fits, NEW w \in Writer, Link(w)
  PROVE  Fits'
<1> DEFINE p == writer[w].pending
           r == [seq |-> SeenHead(w).seq + 1, event |-> writer[w].event,
                 prev |-> SeenHead(w).hash, created |-> writer[w].stamp]
           q == Append(p, r)
           t == [stamp |-> NoStamp, event |-> NoHash, pending |-> q]
           k == Cardinality(Stamped)
<1>1. /\ head.seq \in Nat /\ issued \in 0 .. MaxEvents /\ MaxEvents \in Nat
      /\ writer \in [Writer -> WriteTxn] /\ IsFiniteSet(Stamped) /\ k \in Nat
      /\ \A v \in Writer : Len(writer[v].pending) \in Nat
  BY RoomTypes
<1>2. writer' = [writer EXCEPT ![w] = t] /\ head' = head /\ issued' = issued
  BY DEF Link
<1>3. SeenHead(w).seq + 1 \in SeqNo /\ SeenHead(w).hash \in Hash /\ w \in Stamped
  BY LinkedRow
<1>4. writer[w].stamp # NoStamp /\ writer[w].event \in SeqNo
  BY <1>3 DEF Stamped, Fits, StampsNamed
<1>5. writer[w].stamp \in 0 .. MaxClock /\ p \in Seq(Row)
  BY <1>1, <1>4 DEF WriteTxn
<1>6. r \in Row
  BY <1>3, <1>4, <1>5 DEF Row
<1>7. q \in Seq(Row) /\ Len(q) = Len(p) + 1
  <2> HIDE DEF p, r
  <2> QED BY <1>5, <1>6
<1>8. t \in WriteTxn /\ t.stamp = NoStamp /\ t.pending = q
  <2> HIDE DEF q
  <2> QED BY <1>1, <1>7 DEF WriteTxn, NoHash, Hash
<1> HIDE DEF t, q, r
<1>9. writer' \in [Writer -> WriteTxn] /\ writer'[w] = t
      /\ \A v \in Writer \ {w} : writer'[v] = writer[v]
  BY <1>1, <1>2, <1>8
<1>10. ChainTypeOK'
  BY <1>9 DEF Fits, ChainTypeOK, Link, WriteTxn
<1>11. StampsNamed'
  BY <1>8, <1>9 DEF Fits, StampsNamed, SeqNo
<1>12. Stamped' = Stamped \ {w}
  BY <1>8, <1>9 DEF Stamped
<1>13. IsFiniteSet(Stamped') /\ Cardinality(Stamped') = k - 1
  BY <1>1, <1>3, <1>12, FS_RemoveElement
<1>14. \A v \in Writer \ {w} : writer'[v].pending = <<>>
  BY <1>9 DEF Link, HeadFree, Linking
<1>15. Room'
  <2>1. head.seq + k =< issued
        /\ head.seq + Len(p) + k =< issued
    BY DEF Fits, Room
  <2>2. Len(p) \in Nat
    BY <1>1
  <2> HIDE DEF k, p
  <2>3. head.seq + (k - 1) =< issued /\ head.seq + 0 + (k - 1) =< issued
    BY <1>1, <2>1
  <2>4. head.seq + (Len(p) + 1) + (k - 1) =< issued
    BY <1>1, <2>1, <2>2
  <2>5. \A v \in Writer :
          head.seq + Len(writer'[v].pending) + (k - 1) =< issued
    <3>1. TAKE v \in Writer
    <3>2. CASE v = w
      BY <3>2, <1>7, <1>8, <1>9, <2>4
    <3>3. CASE v # w
      BY <3>3, <1>14, <2>3
    <3> QED BY <3>2, <3>3
  <2> QED BY <1>2, <1>13, <2>3, <2>5 DEF Room
<1> QED BY <1>10, <1>11, <1>15 DEF Fits

LEMMA FitsRollback ==
  ASSUME ChainInv, Fits, NEW w \in Writer, AbortWrite(w)
  PROVE  Fits'
<1>1. writer \in [Writer -> WriteTxn]
      /\ \A v \in Writer : Len(writer[v].pending) \in Nat
  BY RoomTypes
<1>2. NoWrite \in WriteTxn /\ NoWrite.stamp = NoStamp /\ Len(NoWrite.pending) = 0
  BY AuditChainAssumption DEF NoWrite, WriteTxn, Hash, NoHash
<1>3. writer' = [writer EXCEPT ![w] = NoWrite] /\ head' = head /\ issued' = issued
  BY DEF AbortWrite
<1>4. writer' \in [Writer -> WriteTxn] /\ writer'[w] = NoWrite
      /\ \A v \in Writer \ {w} : writer'[v] = writer[v]
  BY <1>1, <1>2, <1>3
<1>5. ChainTypeOK'
  BY <1>4 DEF Fits, ChainTypeOK, AbortWrite, WriteTxn
<1>6. StampsNamed'
  BY <1>2, <1>4 DEF Fits, StampsNamed, SeqNo
<1>7. Stamped' \subseteq Stamped
  BY <1>2, <1>4 DEF Stamped
<1>8. \A v \in Writer : Len(writer'[v].pending) \in Nat
                        /\ Len(writer'[v].pending) =< Len(writer[v].pending)
  BY <1>1, <1>2, <1>4
<1>9. Room'
  BY <1>3, <1>7, <1>8, RoomKept
<1> QED BY <1>5, <1>6, <1>9 DEF Fits

LEMMA FitsCommit ==
  ASSUME ChainInv, Fits, NEW w \in Writer, Commit(w)
  PROVE  Fits'
<1> DEFINE p == writer[w].pending
           k == Cardinality(Stamped)
<1>1. /\ head.seq \in Nat /\ issued \in 0 .. MaxEvents /\ MaxEvents \in Nat
      /\ writer \in [Writer -> WriteTxn] /\ IsFiniteSet(Stamped) /\ k \in Nat
  BY RoomTypes
<1>2. p \in Seq(Row) /\ p # <<>> /\ writer[w].stamp = NoStamp
  BY <1>1 DEF Commit, Linking, WriteTxn
<1>3. Len(p) \in 1 .. Len(p) /\ Len(p) \in Nat /\ p[Len(p)] \in Row
  BY <1>2
<1>4. /\ rows' = rows \cup {p[i] : i \in DOMAIN p}
      /\ head' = HeadAt(p) /\ log' = log \o p
      /\ writer' = [writer EXCEPT ![w] = NoWrite]
      /\ UNCHANGED <<checkpoints, verifier, clock, issued, lost>>
  BY DEF Commit
<1>5. NoWrite \in WriteTxn /\ NoWrite.stamp = NoStamp /\ Len(NoWrite.pending) = 0
  BY AuditChainAssumption DEF NoWrite, WriteTxn, Hash, NoHash
<1>6. writer' \in [Writer -> WriteTxn] /\ writer'[w] = NoWrite
      /\ \A v \in Writer \ {w} : writer'[v] = writer[v]
  BY <1>1, <1>4, <1>5
<1>7. rows' \subseteq Row /\ log' \in Seq(Row)
  <2>1. \A i \in DOMAIN p : p[i] \in Row
    BY <1>2
  <2>2. rows \subseteq Row /\ log \in Seq(Row)
    BY DEF Fits, ChainTypeOK
  <2> HIDE DEF p
  <2> QED BY <1>2, <1>4, <2>1, <2>2
<1>8. p[Len(p)].seq = head.seq + Len(p)
  BY <1>3 DEF ChainInv, InChain, Continues
<1>9. head'.seq = head.seq + Len(p)
      /\ head' \in [seq : 0 .. MaxEvents, hash : Hash]
  <2>1. head' = [seq |-> p[Len(p)].seq, hash |-> p[Len(p)].event]
    BY <1>4 DEF HeadAt
  <2>2. p[Len(p)].seq \in 0 .. MaxEvents /\ p[Len(p)].event \in Hash
    BY <1>1, <1>3 DEF Row, SeqNo, Hash
  <2> QED BY <1>8, <2>1, <2>2
<1>10. ChainTypeOK'
  BY <1>4, <1>6, <1>7, <1>9 DEF Fits, ChainTypeOK, WriteTxn
<1>11. StampsNamed'
  BY <1>5, <1>6 DEF Fits, StampsNamed, SeqNo
<1>12. Stamped' = Stamped
  BY <1>2, <1>5, <1>6 DEF Stamped
<1>13. \A v \in Writer : Len(writer'[v].pending) = 0
  <2>1. \A v \in Writer \ {w} : writer[v].pending = <<>>
    BY DEF ChainInv, OneLinker, Commit, Linking
  <2> QED BY <1>5, <1>6, <2>1
<1>14. Room'
  <2>1. head.seq + Len(p) + k =< issued
    BY DEF Fits, Room
  <2>2. head'.seq + k =< issued /\ head'.seq + 0 + k =< issued
    <3> HIDE DEF p, k
    <3> QED BY <1>1, <1>3, <1>9, <2>1
  <2>3. issued' = issued
    BY <1>4
  <2> QED BY <1>1, <1>12, <1>13, <2>2, <2>3 DEF Room
<1> QED BY <1>10, <1>11, <1>14 DEF Fits

\* Steps that leave the transactions and the head alone.
LEMMA FitsSame ==
  ASSUME Fits, UNCHANGED <<head, writer, issued>>, ChainTypeOK'
  PROVE  Fits'
<1>1. Stamped' = Stamped
  BY DEF Stamped
<1> QED BY <1>1 DEF Fits, StampsNamed, Room

\* A batch is no larger than what is stored, and names events that exist.
LEMMA SealFits ==
  ASSUME StoreInv, Fits, Prune
  PROVE  Seal(Batch) \in Checkpoint
<1> DEFINE B == Batch
           n == Cardinality(B)
<1>1. /\ B \subseteq rows /\ First(B) \in B /\ Last(B) \in B
  BY PruneFacts DEF StoreInv
<1>2. rows \subseteq Row /\ MaxEvents \in Nat
  BY AuditChainAssumption DEF Fits, ChainTypeOK
<1>3. /\ First(B).seq \in SeqNo /\ Last(B).seq \in SeqNo /\ Last(B).event \in SeqNo
  BY <1>1, <1>2 DEF Row
<1>4. IsFiniteSet(rows) /\ Numbered(rows, head.seq) /\ head.seq \in 0 .. MaxEvents
      /\ \A r, s \in rows : r.seq = s.seq => r = s
  BY RowsFinite DEF StoreInv, Fits, ChainTypeOK
<1>5. IsFiniteSet(B) /\ n \in Nat /\ n =< Cardinality(rows)
  <2>1. IsFiniteSet(B) /\ n =< Cardinality(rows)
    BY <1>1, <1>4, FS_Subset
  <2> QED BY <2>1, FS_CardinalityType
<1>6. Cardinality(rows) \in Nat /\ Cardinality(rows) =< MaxEvents
  <2> DEFINE f == [r \in rows |-> r.seq]
  <2>1. \A r \in rows : r.seq \in SeqNo
    BY <1>2 DEF Row
  <2>2. f \in Injection(rows, SeqNo)
    BY <1>4, <2>1 DEF Injection, IsInjective
  <2>3. IsFiniteSet(SeqNo) /\ Cardinality(SeqNo) = MaxEvents
    <3>1. IsFiniteSet(1 .. MaxEvents)
          /\ Cardinality(1 .. MaxEvents)
               = IF 1 > MaxEvents THEN 0 ELSE MaxEvents - 1 + 1
      BY <1>2, FS_Interval
    <3> QED BY <1>2, <3>1 DEF SeqNo
  <2> HIDE DEF f
  <2>4. Cardinality(rows) =< Cardinality(SeqNo)
    BY <2>2, <2>3, FS_Injection
  <2> QED BY <1>4, <2>3, <2>4, FS_CardinalityType
<1>7. n # 0
  BY <1>1, <1>5, FS_EmptySet
<1>8. n \in SeqNo
  <2> HIDE DEF n
  <2> QED BY <1>2, <1>5, <1>6, <1>7 DEF SeqNo
<1>9. LatestCheckpoint \in Hash
  <2> DEFINE T == {c.to : c \in checkpoints}
  <2>1. CASE checkpoints = {}
    BY <2>1, <1>2 DEF LatestCheckpoint, NoHash, Hash
  <2>2. CASE checkpoints # {}
    <3>1. T \in SUBSET (0 .. MaxEvents) /\ T # {}
      BY <1>2, <2>2 DEF Fits, ChainTypeOK, Checkpoint, SeqNo
    <3>2. LatestCheckpoint = Max(T)
      BY <2>2 DEF LatestCheckpoint
    <3> HIDE DEF T
    <3>3. Max(T) \in T
      BY <1>2, <3>1, MaxOf
    <3> QED BY <3>1, <3>2, <3>3 DEF Hash
  <2> QED BY <2>1, <2>2
<1> QED
  BY <1>3, <1>8, <1>9 DEF Seal, Checkpoint

LEMMA FitsRetention ==
  ASSUME StoreInv, Fits, Tick \/ Prune \/ Lose
  PROVE  Fits'
<1>1. CASE Tick
  <2>1. clock' \in 0 .. MaxClock
    BY <1>1, AuditChainAssumption DEF Tick, Fits, ChainTypeOK
  <2>2. ChainTypeOK'
    BY <1>1, <2>1 DEF Tick, Fits, ChainTypeOK
  <2> QED BY <1>1, <2>2, FitsSame DEF Tick
<1>2. CASE Prune
  <2>1. Seal(Batch) \in Checkpoint
    BY <1>2, SealFits
  <2>2. /\ rows' = rows \ Batch
        /\ checkpoints' = checkpoints \cup {Seal(Batch)}
        /\ verifier' = [verifier EXCEPT !.overtaken = @ \/ Overtakes(Batch)]
        /\ UNCHANGED <<head, writer, clock, issued, log, lost>>
    BY <1>2, PruneFacts DEF StoreInv
  <2> DEFINE o == verifier.overtaken \/ Overtakes(Batch)
  <2>3. o \in BOOLEAN /\ verifier' = [verifier EXCEPT !.overtaken = o]
    BY <2>2 DEF Overtakes
  <2>4. verifier' \in Pass
    <3>1. verifier \in Pass
      BY DEF Fits, ChainTypeOK
    <3> HIDE DEF o
    <3> QED BY <2>3, <3>1 DEF Pass
  <2>5. ChainTypeOK'
    <3> HIDE DEF o
    <3> QED BY <2>1, <2>2, <2>4 DEF Fits, ChainTypeOK
  <2> QED BY <2>2, <2>5, FitsSame
<1>3. CASE Lose
  <2>1. PICK r \in rows : rows' = rows \ {r} /\ lost' = lost \cup {r.seq}
    BY <1>3 DEF Lose
  <2>2. r.seq \in SeqNo
    BY DEF Fits, ChainTypeOK, Row
  <2>3. ChainTypeOK'
    BY <1>3, <2>1, <2>2 DEF Lose, Fits, ChainTypeOK
  <2> QED BY <1>3, <2>3, FitsSame DEF Lose
<1> QED BY <1>1, <1>2, <1>3

-----------------------------------------------------------------------------
\* The verifier's steps change the pass only.
LEMMA FitsPass ==
  ASSUME Fits, verifier' \in Pass,
         UNCHANGED <<rows, head, checkpoints, writer, clock, issued, log, lost>>
  PROVE  Fits'
<1>1. ChainTypeOK'
  BY DEF Fits, ChainTypeOK
<1> QED BY <1>1, FitsSame

LEMMA ReportFits ==
  ASSUME NEW p \in Pass
  PROVE  Report(p) \in Pass
BY DEF Report, Pass

LEMMA FitsStart ==
  ASSUME StoreInv, Fits, StartPass
  PROVE  Fits'
<1>1. verifier' = [NoPass EXCEPT !.pc = "page", !.after = Floor - 1,
                                 !.missing = lost, !.upto = head.seq]
  BY DEF StartPass
<1>2. Floor - 1 \in 0 .. MaxEvents
  BY AuditChainAssumption DEF Floor
<1>3. lost \in SUBSET SeqNo /\ head.seq \in 0 .. MaxEvents
  BY DEF Fits, ChainTypeOK
<1>4. NoPass \in Pass
  BY AuditChainAssumption DEF NoPass, Pass
<1>5. verifier' \in Pass
  BY <1>1, <1>2, <1>3, <1>4 DEF Pass
<1> QED BY <1>5, FitsPass DEF StartPass

LEMMA FitsReadPage ==
  ASSUME StoreInv, Fits, ReadPage
  PROVE  Fits'
<1> DEFINE P == Limit({r \in rows : r.seq > verifier.after}, PageLimit)
<1>1. verifier \in Pass /\ rows \subseteq Row
  BY DEF Fits, ChainTypeOK
<1>2. P \in SUBSET Row
  BY <1>1 DEF Limit
<1>3. verifier' = IF P = {} THEN Report(verifier)
                  ELSE [verifier EXCEPT !.pc = "predecessor", !.page = P]
  BY DEF ReadPage
<1> HIDE DEF P
<1>4. [verifier EXCEPT !.pc = "predecessor", !.page = P] \in Pass
  BY <1>1, <1>2 DEF Pass
<1>5. verifier' \in Pass
  BY <1>1, <1>3, <1>4, ReportFits
<1> QED BY <1>5, FitsPass DEF ReadPage

FitBreak == [seq : SeqNo, reason : Reason]

LEMMA FitsFinish ==
  ASSUME StoreInv, PassInv, Fits, Reading,
         NEW F \in SUBSET FitBreak, FinishPage(F)
  PROVE  verifier' \in Pass
<1> DEFINE P == verifier.page
           G == verifier.breaks \cup F \cup InnerBreaks(P)
           z == Last(P).seq
           done == [verifier EXCEPT !.pc = "page", !.page = {}, !.after = z,
                                    !.breaks = G]
<1>1. verifier \in Pass /\ P \subseteq Row
  BY DEF Fits, ChainTypeOK, Pass
<1>2. Last(P) \in P
  BY PageFacts
<1>3. z \in 0 .. MaxEvents
  BY <1>1, <1>2 DEF Row, SeqNo
<1>4. InnerBreaks(P) \in SUBSET FitBreak
  <2>1. \A r \in P : Break(r, "seq_gap") \in FitBreak
                     /\ Break(r, "prev_hash_mismatch") \in FitBreak
    BY <1>1 DEF Break, FitBreak, Reason, Row
  <2> HIDE DEF P
  <2> QED BY <2>1 DEF InnerBreaks
<1>5. G \in SUBSET FitBreak
  BY <1>1, <1>4 DEF Pass, FitBreak
<1>6. verifier' = IF Cardinality(P) < PageLimit THEN Report(done) ELSE done
  BY DEF FinishPage
<1>7. done \in Pass
  <2> HIDE DEF G, z
  <2> QED BY <1>1, <1>3, <1>5 DEF Pass, FitBreak
<1> HIDE DEF done
<1> QED BY <1>6, <1>7, ReportFits

LEMMA FitsVerify ==
  ASSUME StoreInv, PassInv, Fits, ReadPredecessor \/ ReadCheckpoint
  PROVE  Fits'
<1> DEFINE first == First(verifier.page)
<1>1. Reading
  BY DEF Reading, ReadPredecessor, ReadCheckpoint
<1>2. first \in verifier.page
  BY <1>1, PageFacts
<1>3. verifier \in Pass /\ first.seq \in SeqNo
  BY <1>2 DEF Fits, ChainTypeOK, Pass, Row
<1>4. \A h : Against(h) \in SUBSET FitBreak
  BY <1>3 DEF Against, Break, FitBreak, Reason
<1>5. {Break(first, "missing_predecessor")} \in SUBSET FitBreak
  BY <1>3 DEF Break, FitBreak, Reason
<1> HIDE DEF first
<1>6. \/ \E h : FinishPage(Against(h))
      \/ FinishPage({Break(first, "missing_predecessor")})
      \/ verifier' = [verifier EXCEPT !.pc = "checkpoint"]
  BY DEF ReadPredecessor, ReadCheckpoint, first
<1>7. verifier' \in Pass
  <2>1. [verifier EXCEPT !.pc = "checkpoint"] \in Pass
    BY <1>3 DEF Pass
  <2>2. ASSUME NEW h, FinishPage(Against(h)) PROVE verifier' \in Pass
    BY <1>1, <1>4, <2>2, FitsFinish
  <2>3. ASSUME FinishPage({Break(first, "missing_predecessor")})
        PROVE  verifier' \in Pass
    BY <1>1, <1>5, <2>3, FitsFinish
  <2> QED BY <1>6, <2>1, <2>2, <2>3
<1> QED BY <1>7, FitsPass DEF ReadPredecessor, ReadCheckpoint

-----------------------------------------------------------------------------
LEMMA FitsStep ==
  StoreInv /\ PassInv /\ Fits /\ [ChainNext]_chainVars => Fits'
<1> SUFFICES ASSUME StoreInv, PassInv, Fits, [ChainNext]_chainVars PROVE Fits'
  OBVIOUS
<1>1. ChainInv
  BY DEF StoreInv
<1>2. CASE \E w \in Writer : Stamp(w) \/ Link(w) \/ Commit(w) \/ AbortWrite(w)
  BY <1>1, <1>2, FitsStamp, FitsLink, FitsCommit, FitsRollback
<1>3. CASE Tick \/ Prune \/ Lose
  BY <1>3, FitsRetention
<1>4. CASE StartPass \/ ReadPage
  BY <1>4, FitsStart, FitsReadPage
<1>5. CASE ReadPredecessor \/ ReadCheckpoint
  BY <1>5, FitsVerify
<1>6. CASE UNCHANGED chainVars
  <2>1. ChainTypeOK'
    BY <1>6 DEF chainVars, Fits, ChainTypeOK
  <2> QED BY <1>6, <2>1, FitsSame DEF chainVars
<1> QED
  BY <1>2, <1>3, <1>4, <1>5, <1>6 DEF ChainNext

\* Every reachable state of the chain is well typed, bounds included: no
\* number is handed out that was not left for an event, whatever is rolled
\* back, pruned or lost.
THEOREM ChainTyped == ChainSpec => []ChainTypeOK
<1> DEFINE Inv == StoreInv /\ PassInv /\ Fits
<1>1. ChainInit => Inv
  BY InitChain, InitBooks, InitOrderly, InitPass, InitFits DEF StoreInv
<1>2. Inv /\ [ChainNext]_chainVars => Inv'
  BY ChainStep, BooksStep, OrderlyStep, PassStep, FitsStep DEF StoreInv
<1>3. Inv => ChainTypeOK
  BY DEF Fits
<1> QED
  BY <1>1, <1>2, <1>3, PTL DEF ChainSpec
=============================================================================
