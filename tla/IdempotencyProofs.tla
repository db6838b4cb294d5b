------------------------- MODULE IdempotencyProofs -------------------------
(***************************************************************************)
(* Proofs about Idempotency, for any number of requests, contents and      *)
(* faults: the types, and the three safety properties of run_once.         *)
(***************************************************************************)
EXTENDS Idempotency, TLAPS

LEMMA Records == Absent \in Record /\ Free \in Local
BY DEF Absent, Record, Free, Local

LEMMA InitTypeOK == Init => TypeOK
<1> SUFFICES ASSUME Init PROVE TypeOK
  OBVIOUS
<1>1. faults \in 0 .. MaxFaults
  BY IdempotencyAssumption DEF IdempotencyAssumption, Init
<1>2. QED
  BY <1>1, Records DEF Init, TypeOK

LEMMA FaultType ==
  ASSUME TypeOK, NEW kind, Fault(kind) \/ NoFault
  PROVE  faults' \in 0 .. MaxFaults /\ happened' \subseteq Faults
BY IdempotencyAssumption DEF IdempotencyAssumption, TypeOK, Fault, NoFault, bounds

LEMMA GotoType ==
  ASSUME TypeOK, NEW r \in Request,
         NEW pc \in {"idle", "claim", "read", "run", "release", "save"},
         Goto(r, pc)
  PROVE  request' \in [Request -> Local]
<1>1. [request[r] EXCEPT !.pc = pc] \in Local
  BY ZenonT(30) DEF TypeOK, Local
<1>2. QED
  BY <1>1 DEF TypeOK, Goto

LEMMA RefuseType ==
  ASSUME TypeOK, NEW r \in Request, Refuse(r)
  PROVE  request' \in [Request -> Local] /\ acked' \subseteq Body
BY Records DEF TypeOK, Refuse

\* A request that was admitted has a content (Send).
HasBody == \A r \in Request : request[r].pc # "idle" => request[r].body \in Body

LEMMA AcknowledgeType ==
  ASSUME TypeOK, HasBody, NEW r \in Request, request[r].pc # "idle", Acknowledge(r)
  PROVE  request' \in [Request -> Local] /\ acked' \subseteq Body
BY Records DEF TypeOK, HasBody, Acknowledge

LEMMA NextHasBody == TypeOK /\ HasBody /\ [Next]_vars => HasBody'
<1> SUFFICES ASSUME TypeOK, HasBody, [Next]_vars PROVE HasBody'
  OBVIOUS
<1>1. ASSUME NEW r \in Request,
             \/ \E pc \in {"idle", "claim", "read", "run", "release", "save"} :
                  request[r].pc # "idle" /\ Goto(r, pc)
             \/ request' = [request EXCEPT ![r] = Free]
             \/ request' = request
      PROVE  HasBody'
  <2>1. ASSUME NEW q \in Request
        PROVE  \/ request'[q] = request[q]
               \/ request'[q].pc = "idle"
               \/ request[q].pc # "idle" /\ request'[q].body = request[q].body
    BY <1>1 DEF TypeOK, Local, Goto, Free
  <2>2. QED
    BY <2>1 DEF HasBody
<1>2. ASSUME NEW r \in Request, NEW b \in Body, Send(r, b)
      PROVE  HasBody'
  BY <1>2 DEF Send, HasBody, TypeOK
<1>3. ASSUME NEW r \in Request, Serve(r) \/ Crash(r)
      PROVE  HasBody'
  BY <1>1, <1>3 DEF Serve, Claim, Read, Run, Release, Save, Crash, Refuse, Acknowledge
<1>4. ASSUME request' = request
      PROVE  HasBody'
  BY <1>4 DEF HasBody
<1>5. QED
  BY <1>2, <1>3, <1>4
  DEF Next, vars, ExpireOrphan, ExpireRunning, ExpireCompleted, ExpireAs

ClaimTypes(r) == Claimed(r) \in Record /\ Result(r) \in Record

LEMMA KeyTypes ==
  ASSUME HasBody, NEW r \in Request, request[r].pc # "idle"
  PROVE  ClaimTypes(r)
<1>1. request[r].body \in Body
  BY DEF HasBody
<1>2. ASSUME NEW b \in Body
      PROVE  /\ [state |-> "processing", digest |-> b] \in Record
             /\ [state |-> "completed", digest |-> b] \in Record
  BY DEF Record
<1>3. QED
  BY <1>1, <1>2 DEF ClaimTypes, Claimed, Result

LEMMA AffectType ==
  ASSUME TypeOK, NEW b, Affect(b)
  PROVE  effects' \in [Body -> 0 .. 2]
<1>1. \A c \in Body : effects[c] \in 0 .. 2
  BY DEF TypeOK
<1>2. ASSUME NEW n \in 0 .. 2
      PROVE  (IF n < 2 THEN n + 1 ELSE 2) \in 0 .. 2
  OBVIOUS
<1>3. \A c \in Body : (IF effects[c] < 2 THEN effects[c] + 1 ELSE 2) \in 0 .. 2
  BY <1>1, <1>2
<1>4. QED
  BY <1>3 DEF TypeOK, Affect

\* The type invariant, with HasBody, is inductive (every action).
LEMMA NextTypeOK == TypeOK /\ HasBody /\ [Next]_vars => TypeOK'
<1> SUFFICES ASSUME TypeOK, HasBody, [Next]_vars PROVE TypeOK'
  OBVIOUS
<1> DEFINE Faulty == \E kind \in FaultKind : Fault(kind)
<1>1. ASSUME Faulty \/ NoFault
      PROVE  faults' \in 0 .. MaxFaults /\ happened' \subseteq Faults
  BY <1>1, FaultType
<1>2. ASSUME NEW r \in Request, NEW b \in Body, Send(r, b)
      PROVE  TypeOK'
  <2>1. [pc |-> "claim", body |-> b] \in Local
    BY DEF Local
  <2>2. request' \in [Request -> Local]
    BY <1>2, <2>1 DEF Send, TypeOK
  <2>3. QED
    BY <1>2, <2>2 DEF Send, TypeOK, bounds
<1>3. ASSUME NEW r \in Request, Claim(r)
      PROVE  TypeOK'
  <2>1. key' \in Record
    BY <1>3, KeyTypes DEF Claim, TypeOK, ClaimTypes
  <2>2. request' \in [Request -> Local] /\ acked' \subseteq Body
    <3>1. CASE Refuse(r)
      BY <3>1, RefuseType
    <3>2. CASE ~Refuse(r)
      BY <1>3, <3>2, GotoType DEF Claim, TypeOK
    <3>3. QED
      BY <3>1, <3>2
  <2>3. faults' \in 0 .. MaxFaults /\ happened' \subseteq Faults
    BY <1>1, <1>3 DEF Claim, NoFault, FaultKind
  <2>4. QED
    BY <1>3, <2>1, <2>2, <2>3 DEF Claim, TypeOK
<1>4. ASSUME NEW r \in Request, Read(r)
      PROVE  TypeOK'
  <2>1. request' \in [Request -> Local] /\ acked' \subseteq Body
    <3>1. CASE Refuse(r)
      BY <3>1, RefuseType
    <3>2. CASE Acknowledge(r)
      BY <1>4, <3>2, AcknowledgeType DEF Read
    <3>3. QED
      BY <1>4, <3>1, <3>2 DEF Read
  <2>2. faults' \in 0 .. MaxFaults /\ happened' \subseteq Faults
    BY <1>1, <1>4 DEF Read, FaultKind
  <2>3. QED
    BY <1>4, <2>1, <2>2 DEF Read, TypeOK
<1>5. ASSUME NEW r \in Request, Run(r)
      PROVE  TypeOK'
  <2>1. request' \in [Request -> Local]
    BY <1>5, GotoType DEF Run
  <2>2. effects' \in [Body -> 0 .. 2]
    BY <1>5, AffectType DEF Run, TypeOK
  <2>3. faults' \in 0 .. MaxFaults /\ happened' \subseteq Faults
    BY <1>1, <1>5 DEF Run, FaultKind
  <2>4. QED
    BY <1>5, <2>1, <2>2, <2>3 DEF Run, TypeOK
<1>6. ASSUME NEW r \in Request, Release(r)
      PROVE  TypeOK'
  <2>1. request' \in [Request -> Local] /\ acked' \subseteq Body
    BY <1>6, RefuseType DEF Release
  <2>2. faults' \in 0 .. MaxFaults /\ happened' \subseteq Faults
    BY <1>1, <1>6 DEF Release, FaultKind
  <2>3. key' \in Record
    BY <1>6, Records DEF Release, TypeOK
  <2>4. QED
    BY <1>6, <2>1, <2>2, <2>3 DEF Release, TypeOK
<1>7. ASSUME NEW r \in Request, Save(r)
      PROVE  TypeOK'
  <2>1. request' \in [Request -> Local] /\ acked' \subseteq Body
    <3>1. CASE Refuse(r)
      BY <3>1, RefuseType
    <3>2. CASE Acknowledge(r)
      BY <1>7, <3>2, AcknowledgeType DEF Save
    <3>3. QED
      BY <1>7, <3>1, <3>2 DEF Save
  <2>2. faults' \in 0 .. MaxFaults /\ happened' \subseteq Faults
    BY <1>1, <1>7 DEF Save, FaultKind
  <2>3. key' \in Record
    BY <1>7, KeyTypes DEF Save, TypeOK, ClaimTypes
  <2>4. QED
    BY <1>7, <2>1, <2>2, <2>3 DEF Save, TypeOK
<1>8. ASSUME NEW r \in Request, Crash(r)
      PROVE  TypeOK'
  BY <1>1, <1>8, RefuseType DEF Crash, TypeOK, FaultKind
<1>9. ASSUME NEW kind \in ExpiryKind, ExpireAs(kind)
      PROVE  TypeOK'
  BY <1>9, Records DEF ExpireAs, TypeOK, bounds
<1>10. CASE UNCHANGED vars
  BY <1>10 DEF vars, bounds, TypeOK
<1>11. QED
  BY <1>2, <1>3, <1>4, <1>5, <1>6, <1>7, <1>8, <1>9, <1>10
  DEF Next, Serve, ExpireOrphan, ExpireRunning, ExpireCompleted, ExpiryKind

TypeInv == TypeOK /\ HasBody

LEMMA TypeInvariant == Spec => []TypeInv
<1>1. Init => HasBody
  BY DEF Init, HasBody, Free
<1>2. QED
  BY <1>1, InitTypeOK, NextTypeOK, NextHasBody, PTL DEF Spec, TypeInv

\* Every reachable state of the admission of a batch is well typed (run_once).
THEOREM TypeCorrect == Spec => []TypeOK
BY TypeInvariant, PTL DEF TypeInv

-----------------------------------------------------------------------------
(* An acknowledgement means an effect.                                     *)

\* A result in Redis, and a result about to be stored, stand for an effect.
KeyReal == key.state = "completed" =>
             key.digest \in Body /\ effects[key.digest] > 0

SaversReal ==
  \A r \in Request : request[r].pc = "save" => effects[request[r].body] > 0

AckInv == KeyReal /\ SaversReal /\ AckedTookEffect

LEMMA EffectsGrow ==
  ASSUME TypeInv, [Next]_vars, NEW b \in Body, effects[b] > 0
  PROVE  effects'[b] > 0
<1>1. ASSUME NEW c, Affect(c)
      PROVE  effects'[b] > 0
  BY <1>1 DEF Affect, TypeInv, TypeOK
<1>2. QED
  BY <1>1 DEF Next, Serve, Send, Claim, Read, Run, Release, Save, Crash, vars,
              ExpireOrphan, ExpireRunning, ExpireCompleted, ExpireAs

\* Three views of a step: of the key, of the requests that may save, and of
\* the acknowledgements.
LEMMA KeySteps ==
  ASSUME [Next]_vars
  PROVE  \/ key' \in {key, Absent}
         \/ \E r \in Request : request[r].pc = "claim" /\ key' = Claimed(r)
         \/ \E r \in Request : request[r].pc = "save" /\ key' = Result(r)
BY DEF Next, Serve, Send, Claim, Read, Run, Release, Save, Crash, vars,
       ExpireOrphan, ExpireRunning, ExpireCompleted, ExpireAs

LEMMA SaveSteps ==
  ASSUME TypeInv, [Next]_vars, NEW r \in Request, request'[r].pc = "save"
  PROVE  \/ request'[r] = request[r]
         \/ /\ request[r].pc = "run" /\ request'[r].body = request[r].body
            /\ Affect(request[r].body)
<1>1. ASSUME NEW q \in Request, NEW pc \in {"run", "read", "release"}, Goto(q, pc)
      PROVE  request'[r] = request[r]
  BY <1>1 DEF Goto, TypeInv, TypeOK, Local
<1>2. ASSUME NEW q \in Request, request' = [request EXCEPT ![q] = Free]
      PROVE  request'[r] = request[r]
  BY <1>2 DEF Free, TypeInv, TypeOK
<1>3. ASSUME NEW q \in Request, NEW b \in Body, Send(q, b)
      PROVE  request'[r] = request[r]
  BY <1>3 DEF Send, TypeInv, TypeOK
<1>4. ASSUME NEW q \in Request, Goto(q, "save"), request[q].pc = "run",
             Affect(request[q].body)
      PROVE  \/ request'[r] = request[r]
             \/ /\ request[r].pc = "run" /\ request'[r].body = request[r].body
                /\ Affect(request[r].body)
  BY <1>4 DEF Goto, TypeInv, TypeOK, Local
<1>5. QED
  BY <1>1, <1>2, <1>3, <1>4
  DEF Next, Serve, Claim, Read, Run, Release, Save, Crash, vars, Refuse,
      Acknowledge, ExpireOrphan, ExpireRunning, ExpireCompleted, ExpireAs

LEMMA AckSteps ==
  ASSUME [Next]_vars
  PROVE  \/ acked' = acked
         \/ \E r \in Request :
              /\ acked' = acked \cup {request[r].body}
              /\ \/ request[r].pc = "read" /\ Replayable(r) /\ key' = key
                 \/ request[r].pc = "save" /\ key' = Result(r)
BY DEF Next, Serve, Send, Claim, Read, Run, Release, Save, Crash, vars, Refuse,
       Acknowledge, ExpireOrphan, ExpireRunning, ExpireCompleted, ExpireAs

LEMMA NextAck == TypeInv /\ AckInv /\ [Next]_vars => AckInv'
<1> SUFFICES ASSUME TypeInv, AckInv, [Next]_vars PROVE AckInv'
  OBVIOUS
<1>0. \A b \in Body : effects[b] > 0 => effects'[b] > 0
  BY EffectsGrow
<1>1. ASSUME NEW r \in Request, request[r].pc # "idle"
      PROVE  request[r].body \in Body
  BY <1>1 DEF TypeInv, HasBody
<1>2. KeyReal'
  <2>1. CASE key' \in {key, Absent}
    BY <1>0, <2>1 DEF AckInv, KeyReal, Absent
  <2>2. ASSUME NEW r \in Request, key' = Claimed(r)
        PROVE  KeyReal'
    BY <2>2 DEF KeyReal, Claimed
  <2>3. ASSUME NEW r \in Request, request[r].pc = "save", key' = Result(r)
        PROVE  KeyReal'
    BY <1>0, <1>1, <2>3 DEF AckInv, SaversReal, KeyReal, Result
  <2>4. QED
    BY <2>1, <2>2, <2>3, KeySteps
<1>3. SaversReal'
  <2> SUFFICES ASSUME NEW r \in Request, request'[r].pc = "save"
               PROVE  effects'[request'[r].body] > 0
    BY DEF SaversReal
  <2>1. CASE request'[r] = request[r]
    BY <1>0, <1>1, <2>1 DEF AckInv, SaversReal
  <2>2. CASE /\ request[r].pc = "run" /\ request'[r].body = request[r].body
             /\ Affect(request[r].body)
    BY <1>1, <2>2 DEF Affect, TypeInv, TypeOK
  <2>3. QED
    BY <2>1, <2>2, SaveSteps
<1>4. AckedTookEffect'
  <2>1. \A b \in acked : effects'[b] > 0
    BY <1>0 DEF AckInv, AckedTookEffect, TypeInv, TypeOK
  <2>2. ASSUME NEW r \in Request, request[r].pc = "read", Replayable(r)
        PROVE  effects'[request[r].body] > 0
    BY <1>0, <1>1, <2>2 DEF Replayable, AckInv, KeyReal
  <2>3. ASSUME NEW r \in Request, request[r].pc = "save"
        PROVE  effects'[request[r].body] > 0
    BY <1>0, <1>1, <2>3 DEF AckInv, SaversReal
  <2>4. QED
    BY <2>1, <2>2, <2>3, AckSteps DEF AckedTookEffect
<1>5. QED
  BY <1>2, <1>3, <1>4 DEF AckInv

\* What the agent is told was accepted took effect, for any number of
\* requests and faults, and whatever expires (run_once).
THEOREM AcknowledgedTookEffect == Spec => []AckedTookEffect
<1>1. Init => AckInv
  BY DEF Init, AckInv, KeyReal, SaversReal, AckedTookEffect, Absent, Free
<1>2. QED
  BY <1>1, NextAck, TypeInvariant, PTL DEF Spec, AckInv

-----------------------------------------------------------------------------
(* One owner of the claim, until a result or the claim of a running handler *)
(* expires.                                                                 *)

Owns(r) == request[r].pc \in {"run", "release", "save"}

\* The claim in Redis is that of the request that works, and a result stays.
OneOwner ==
  /\ \A q, r \in Request : Owns(q) /\ Owns(r) => q = r
  /\ \A r \in Request : Owns(r) => key = Claimed(r)
  /\ acked # {} => key.state = "completed" /\ acked = {key.digest}

OwnerInv == lapsed \subseteq {"orphan"} => OneOwner

LEMMA KeepOwner ==
  ASSUME OneOwner, key' = key, acked' = acked,
         \A r \in Request : Owns(r)' => Owns(r) /\ request'[r].body = request[r].body
  PROVE  OneOwner'
BY DEF OneOwner, Claimed

\* Once nobody owns the claim, only the acknowledgements matter.
LEMMA NoOwner ==
  ASSUME \A r \in Request : ~Owns(r)',
         acked' # {} => key'.state = "completed" /\ acked' = {key'.digest}
  PROVE  OneOwner'
BY DEF OneOwner

\* An owner's claim is in Redis, so nothing is acknowledged yet.
LEMMA OwnerAlone ==
  ASSUME OneOwner, NEW r \in Request, Owns(r)
  PROVE  /\ key = Claimed(r) /\ acked = {}
         /\ \A q \in Request : Owns(q) => q = r
BY DEF OneOwner, Claimed

\* What setting one request does to the owners.
LEMMA FreedOwners ==
  ASSUME TypeInv, NEW r \in Request, request' = [request EXCEPT ![r] = Free]
  PROVE  /\ ~Owns(r)'
         /\ \A q \in Request \ {r} : request'[q] = request[q]
         /\ \A q \in Request : Owns(q)' => Owns(q) /\ request'[q].body = request[q].body
BY DEF TypeInv, TypeOK, Free, Owns

LEMMA MovedOwners ==
  ASSUME TypeInv, NEW r \in Request, NEW pc, Goto(r, pc)
  PROVE  /\ request'[r].pc = pc /\ request'[r].body = request[r].body
         /\ \A q \in Request \ {r} : request'[q] = request[q]
BY DEF TypeInv, TypeOK, Goto, Local

LEMMA ClaimOwner ==
  ASSUME TypeInv, OneOwner, NEW r \in Request, Claim(r)
  PROVE  OneOwner'
<1>1. request[r].pc = "claim" /\ ~Owns(r)
  BY DEF Claim, Owns
<1>2. CASE Claimable /\ key' = Claimed(r) /\ Goto(r, "run") /\ acked' = acked
  <2>1. acked = {} /\ \A q \in Request : ~Owns(q)
    BY <1>2 DEF OneOwner, Claimable, Claimed
  <2>2. \A q \in Request : Owns(q)' => q = r
    BY <1>2, <2>1, MovedOwners DEF Owns
  <2>3. key' = Claimed(r)'
    BY <1>2, MovedOwners DEF Claimed
  <2>4. QED
    BY <1>2, <2>1, <2>2, <2>3 DEF OneOwner
<1>3. CASE Goto(r, "read") /\ key' = key /\ acked' = acked
  <2>1. \A q \in Request : Owns(q)' => Owns(q) /\ request'[q].body = request[q].body
    BY <1>3, MovedOwners DEF Owns
  <2>2. QED
    BY <1>3, <2>1, KeepOwner
<1>4. CASE Refuse(r) /\ key' = key
  BY <1>4, FreedOwners, KeepOwner DEF Refuse
<1>5. CASE Refuse(r) /\ Claimable /\ key' = Claimed(r)
  <2>1. acked = {} /\ \A q \in Request : ~Owns(q)
    BY <1>5 DEF OneOwner, Claimable, Claimed
  <2>2. \A q \in Request : ~Owns(q)'
    BY <1>5, <2>1, FreedOwners DEF Refuse
  <2>3. QED
    BY <1>5, <2>1, <2>2, NoOwner DEF Refuse
<1>6. QED
  BY <1>2, <1>3, <1>4, <1>5 DEF Claim

LEMMA RunOwner ==
  ASSUME TypeInv, OneOwner, NEW r \in Request, Run(r)
  PROVE  OneOwner'
<1>1. Owns(r) /\ key' = key /\ acked' = acked
  BY DEF Run, Owns
<1>2. \A q \in Request : Owns(q)' => Owns(q) /\ request'[q].body = request[q].body
  BY <1>1, MovedOwners DEF Run, Owns
<1>3. QED
  BY <1>1, <1>2, KeepOwner

LEMMA ReadOwner ==
  ASSUME TypeInv, OneOwner, NEW r \in Request, Read(r)
  PROVE  OneOwner'
<1>1. CASE Refuse(r)
  BY <1>1, FreedOwners, KeepOwner DEF Read, Refuse
<1>2. CASE Replayable(r) /\ Acknowledge(r)
  <2>1. key.state = "completed" /\ key' = key /\ acked' = {key.digest}
    BY <1>2 DEF Read, Replayable, Acknowledge, OneOwner
  <2>2. \A q \in Request : ~Owns(q)
    BY <2>1 DEF OneOwner, Claimed
  <2>3. \A q \in Request : ~Owns(q)'
    BY <1>2, <2>2, FreedOwners DEF Acknowledge
  <2>4. QED
    BY <2>1, <2>3, NoOwner
<1>3. QED
  BY <1>1, <1>2 DEF Read

LEMMA EndOwner ==
  ASSUME TypeInv, OneOwner, NEW r \in Request, Release(r) \/ Save(r)
  PROVE  OneOwner'
<1>1. Owns(r) /\ request' = [request EXCEPT ![r] = Free]
  BY DEF Release, Save, Owns, Refuse, Acknowledge
<1>2. acked = {} /\ \A q \in Request : ~Owns(q)'
  BY <1>1, OwnerAlone, FreedOwners
<1>3. acked' # {} => key'.state = "completed" /\ acked' = {key'.digest}
  BY <1>2 DEF Release, Save, Refuse, Acknowledge, Result
<1>4. QED
  BY <1>2, <1>3, NoOwner

LEMMA NextOwner == TypeInv /\ OwnerInv /\ [Next]_vars => OwnerInv'
<1> SUFFICES ASSUME TypeInv, OwnerInv, [Next]_vars, lapsed' \subseteq {"orphan"}
             PROVE  OneOwner'
  BY DEF OwnerInv
<1>1. lapsed \subseteq {"orphan"}
  BY DEF Next, Serve, Send, Claim, Read, Run, Release, Save, Crash, vars,
         ExpireOrphan, ExpireRunning, ExpireCompleted, ExpireAs
<1>2. OneOwner
  BY <1>1 DEF OwnerInv
<1>3. ASSUME NEW r \in Request, NEW b \in Body, Send(r, b)
      PROVE  OneOwner'
  <2>1. \A q \in Request : Owns(q)' => Owns(q) /\ request'[q].body = request[q].body
    BY <1>3 DEF Send, TypeInv, TypeOK, Owns
  <2>2. QED
    BY <1>2, <1>3, <2>1, KeepOwner DEF Send
<1>4. ASSUME NEW r \in Request, Crash(r)
      PROVE  OneOwner'
  BY <1>2, <1>4, FreedOwners, KeepOwner DEF Crash, Refuse
<1>5. CASE ExpireOrphan
  <2>1. \A q \in Request : ~Owns(q)'
    BY <1>5 DEF ExpireOrphan, ExpireAs, Orphaned, Working, Owns
  <2>2. acked' = {}
    BY <1>2, <1>5 DEF ExpireOrphan, ExpireAs, Orphaned, OneOwner
  <2>3. QED
    BY <2>1, <2>2, NoOwner
<1>6. CASE ExpireRunning \/ ExpireCompleted
  BY <1>6 DEF ExpireRunning, ExpireCompleted, ExpireAs
<1>7. CASE UNCHANGED vars
  BY <1>2, <1>7, KeepOwner DEF vars, Owns
<1>8. QED
  BY <1>2, <1>3, <1>4, <1>5, <1>6, <1>7, ClaimOwner, RunOwner, ReadOwner, EndOwner
  DEF Next, Serve

LEMMA OwnerInvariant == Spec => []OwnerInv
<1>1. Init => OwnerInv
  BY DEF Init, OwnerInv, OneOwner, Owns, Free
<1>2. QED
  BY <1>1, NextOwner, TypeInvariant, PTL DEF Spec

\* Of two contents sent under one batch id, one is accepted, whatever the
\* number of requests and faults (run_once).
THEOREM OneContentAccepted == Spec => []OneContent
<1>1. OwnerInv => OneContent
  BY DEF OwnerInv, OneOwner, OneContent
<1>2. QED
  BY <1>1, OwnerInvariant, PTL

-----------------------------------------------------------------------------
(* One effect, while no key expires and no handler fails after its effect.  *)

Touched == \E b \in Body : effects[b] > 0

\* Once the batch took effect the key is never free again, and nobody is
\* about to run the handler or to delete the key.
Settled ==
  Touched => /\ key.state # "none"
             /\ \A r \in Request : request[r].pc \notin {"run", "release"}

EffectInv ==
  lapsed = {} /\ "late" \notin happened =>
    Settled /\ \A b \in Body : effects[b] <= 1

LEMMA NextEffect ==
  TypeInv /\ OwnerInv /\ EffectInv /\ [Next]_vars => EffectInv'
<1> SUFFICES ASSUME TypeInv, OwnerInv, EffectInv, [Next]_vars,
                    lapsed' = {}, "late" \notin happened'
             PROVE  Settled' /\ \A b \in Body : effects'[b] <= 1
  BY DEF EffectInv
<1>1. lapsed = {} /\ "late" \notin happened
  BY DEF Next, Serve, Send, Claim, Read, Run, Release, Save, Crash, vars, Fault,
         NoFault, bounds, ExpireOrphan, ExpireRunning, ExpireCompleted, ExpireAs
<1>2. OneOwner /\ Settled /\ \A b \in Body : effects[b] <= 1
  BY <1>1 DEF OwnerInv, EffectInv
<1>3. ASSUME effects' = effects,
             Touched => key'.state # "none",
             Touched => \A r \in Request : request'[r].pc \notin {"run", "release"}
      PROVE  Settled' /\ \A b \in Body : effects'[b] <= 1
  BY <1>2, <1>3 DEF Settled, Touched
<1>4. ASSUME NEW r \in Request, NEW b \in Body, Send(r, b)
      PROVE  Settled' /\ \A c \in Body : effects'[c] <= 1
  <2>1. \A q \in Request : request'[q].pc \in {request[q].pc, "claim"}
    BY <1>4 DEF Send, TypeInv, TypeOK
  <2>2. QED
    BY <1>2, <1>3, <1>4, <2>1 DEF Send, Settled
<1>5. ASSUME NEW r \in Request, Claim(r)
      PROVE  Settled' /\ \A c \in Body : effects'[c] <= 1
  <2>1. effects' = effects /\ (key' = key \/ key'.state = "processing")
    BY <1>5 DEF Claim, Claimed
  <2>2. ASSUME Touched, NEW q \in Request
        PROVE  request'[q].pc \in {request[q].pc, "read", "idle"}
    <3>1. ~Claimable
      BY <1>2, <2>2 DEF Settled, Claimable
    <3>2. CASE Goto(r, "read")
      BY <3>2, MovedOwners
    <3>3. CASE Refuse(r)
      BY <3>3 DEF Refuse, Free, TypeInv, TypeOK
    <3>4. QED
      BY <1>5, <3>1, <3>2, <3>3 DEF Claim
  <2>3. QED
    BY <1>2, <1>3, <2>1, <2>2 DEF Settled
<1>6. ASSUME NEW r \in Request, Read(r) \/ Crash(r)
      PROVE  Settled' /\ \A c \in Body : effects'[c] <= 1
  <2>1. effects' = effects /\ key' = key
    BY <1>6 DEF Read, Crash
  <2>2. \A q \in Request : request'[q].pc \in {request[q].pc, "idle"}
    BY <1>6 DEF Read, Crash, Refuse, Acknowledge, Free, TypeInv, TypeOK
  <2>3. QED
    BY <1>2, <1>3, <2>1, <2>2 DEF Settled
<1>7. ASSUME NEW r \in Request, Release(r)
      PROVE  Settled' /\ \A c \in Body : effects'[c] <= 1
  <2>1. ~Touched /\ effects' = effects
    BY <1>2, <1>7 DEF Settled, Release
  <2>2. QED
    BY <1>3, <2>1
<1>8. ASSUME NEW r \in Request, Save(r)
      PROVE  Settled' /\ \A c \in Body : effects'[c] <= 1
  <2>1. effects' = effects /\ (key' = key \/ key'.state = "completed")
    BY <1>8 DEF Save, Result
  <2>2. \A q \in Request : request'[q].pc \in {request[q].pc, "idle"}
    BY <1>8 DEF Save, Refuse, Acknowledge, Free, TypeInv, TypeOK
  <2>3. QED
    BY <1>2, <1>3, <2>1, <2>2 DEF Settled
<1>9. ASSUME NEW r \in Request, Run(r)
      PROVE  Settled' /\ \A c \in Body : effects'[c] <= 1
  <2>1. ~Touched /\ Owns(r) /\ key' = key
    BY <1>2, <1>9 DEF Settled, Run, Owns
  <2>2. key.state # "none" /\ \A q \in Request : Owns(q) => q = r
    BY <1>2, <2>1, OwnerAlone DEF Claimed
  <2>3. CASE Goto(r, "save") /\ Affect(request[r].body)
    <3>1. \A q \in Request : request'[q].pc \notin {"run", "release"}
      BY <2>2, <2>3, MovedOwners DEF Owns
    <3>2. \A c \in Body : effects[c] = 0
      BY <2>1 DEF Touched, TypeInv, TypeOK
    <3>3. \A c \in Body : effects'[c] <= 1
      BY <2>3, <3>2 DEF Affect, TypeInv, TypeOK
    <3>4. QED
      BY <2>1, <2>2, <3>1, <3>3 DEF Settled
  <2>4. CASE UNCHANGED effects
    BY <1>3, <2>1, <2>4
  <2>5. ~Fault("late")
    BY DEF Fault
  <2>6. QED
    BY <1>9, <2>3, <2>4, <2>5 DEF Run
<1>10. CASE UNCHANGED vars
  BY <1>2, <1>3, <1>10 DEF vars, Settled
<1>11. ~ExpireOrphan /\ ~ExpireRunning /\ ~ExpireCompleted
  BY DEF ExpireOrphan, ExpireRunning, ExpireCompleted, ExpireAs
<1>12. QED
  BY <1>4, <1>5, <1>6, <1>7, <1>8, <1>9, <1>10, <1>11 DEF Next, Serve

\* While no key expires and a handler that raises has had no effect, the
\* batch takes effect at most once, however many requests carry it and
\* whatever else fails (run_once).
THEOREM EffectAtMostOnce == Spec => []EffectOnce
<1>1. Init => EffectInv
  BY DEF Init, EffectInv, Settled, Touched
<1>2. EffectInv => EffectOnce
  BY DEF EffectInv, EffectOnce
<1>3. QED
  BY <1>1, <1>2, NextEffect, OwnerInvariant, TypeInvariant, PTL DEF Spec
=============================================================================
