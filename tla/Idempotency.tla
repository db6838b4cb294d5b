---------------------------- MODULE Idempotency ----------------------------
(***************************************************************************)
(* run_once (app/core/api/idempotency.py): the admission of a batch that   *)
(* an agent may send again, for one batch id of one agent.                 *)
(*                                                                         *)
(* A request claims the Redis key of the batch id, runs its handler, and   *)
(* replaces the claim by the result.  Another request for the same id is   *)
(* told to come back, is refused if its content differs, or is given the   *)
(* stored result, which the agent takes as a durable acknowledgement.      *)
(* Neither the DEL after a failed handler nor the SETEX after a successful *)
(* one checks that the key still holds the request's own claim.            *)
(***************************************************************************)
EXTENDS Naturals

CONSTANTS
  Body,      \* contents (request digests) that may be sent under the id
  Request,   \* requests the API serves at the same time
  Faults,    \* the kinds of fault that may happen
  MaxFaults  \* bound on the number of faults

\* What may expire: orphan, the claim of a request that is gone, after
\* PROCESSING_TTL_SECONDS; running, the claim of a handler that takes longer
\* than that; completed, a result, after DEFAULT_TTL_SECONDS.
ExpiryKind == {"orphan", "running", "completed"}

\* crash: an API process dies.  redis: a command raises, applied or not.
\* handler: a handler raises without effect.  late: it raises after its effect.
FaultKind == {"crash", "redis", "handler", "late"}

ASSUME IdempotencyAssumption ==
  /\ Faults \subseteq FaultKind
  /\ MaxFaults \in Nat

VARIABLES
  key,      \* the Redis key: nothing, a claim or a result, with its digest
  request,  \* what each request is about to do, and its content
  effects,  \* history: how often each content took effect (2 for more)
  acked,    \* history: contents answered as accepted
  lapsed,   \* history: the kinds of key that expired so far
  faults,   \* faults so far, for the bound
  happened  \* history: the kinds of fault so far

bounds == <<faults, happened>>
vars   == <<key, request, effects, acked, lapsed, bounds>>

-----------------------------------------------------------------------------
NoBody == "none"

Record == [state: {"none", "processing", "completed"}, digest: Body \cup {NoBody}]
Absent == [state |-> "none", digest |-> NoBody]

Local == [pc: {"idle", "claim", "read", "run", "release", "save"},
          body: Body \cup {NoBody}]
Free == [pc |-> "idle", body |-> NoBody]

TypeOK ==
  /\ key \in Record
  /\ request \in [Request -> Local]
  /\ effects \in [Body -> 0 .. 2]
  /\ acked \subseteq Body
  /\ lapsed \subseteq ExpiryKind
  /\ faults \in 0 .. MaxFaults
  /\ happened \subseteq Faults

Init ==
  /\ key = Absent
  /\ request = [r \in Request |-> Free]
  /\ effects = [b \in Body |-> 0]
  /\ acked = {}
  /\ lapsed = {}
  /\ faults = 0 /\ happened = {}

Fault(kind) ==
  /\ kind \in Faults
  /\ faults < MaxFaults
  /\ faults' = faults + 1
  /\ happened' = happened \cup {kind}

NoFault == UNCHANGED bounds

Goto(r, pc) == request' = [request EXCEPT ![r] = [@ EXCEPT !.pc = pc]]

\* The request is answered with an error the agent retries (425, 503, ...).
Refuse(r) == request' = [request EXCEPT ![r] = Free] /\ UNCHANGED acked

\* The request is answered with a result.
Acknowledge(r) ==
  /\ acked' = acked \cup {request[r].body}
  /\ request' = [request EXCEPT ![r] = Free]

Affect(b) == effects' = [effects EXCEPT ![b] = IF @ < 2 THEN @ + 1 ELSE 2]

-----------------------------------------------------------------------------
\* The agent sends a batch under the id, for the first time or again.
Send(r, b) ==
  /\ request[r].pc = "idle"
  /\ request' = [request EXCEPT ![r] = [pc |-> "claim", body |-> b]]
  /\ UNCHANGED <<key, effects, acked, lapsed, bounds>>

\* Mutant: SET without NX, so that a claim overwrites what is there.
Always == TRUE

Claimable == key.state = "none"

\* Mutant: the claim is written in a state nobody knows.
Misspelt(r) == [state |-> "in_flight", digest |-> request[r].body]

Claimed(r) == [state |-> "processing", digest |-> request[r].body]

\* SET key processing NX EX 900.
Claim(r) ==
  /\ request[r].pc = "claim"
  /\ \/ /\ Claimable
        /\ key' = Claimed(r)
        /\ Goto(r, "run")
        /\ UNCHANGED <<acked, bounds>>
     \/ /\ ~Claimable
        /\ Goto(r, "read")
        /\ UNCHANGED <<key, acked, bounds>>
     \/ /\ Fault("redis")
        /\ \/ Claimable /\ key' = Claimed(r)
           \/ UNCHANGED key
        /\ Refuse(r)
  /\ UNCHANGED <<effects, lapsed>>

\* Mutants: a replay ignores the digest, or the state of the record.
CompletedAny(r) == key.state = "completed"
SameContent(r)  == key.digest = request[r].body

Replayable(r) == key.state = "completed" /\ key.digest = request[r].body

\* GET key: the stored result if it is complete and for the same content; a
\* key that is gone, in progress (425) or of other content (409) refuses.
Read(r) ==
  /\ request[r].pc = "read"
  /\ \/ Replayable(r) /\ Acknowledge(r) /\ NoFault
     \/ ~Replayable(r) /\ Refuse(r) /\ NoFault
     \/ Fault("redis") /\ Refuse(r)
  /\ UNCHANGED <<key, effects, lapsed>>

\* handler()
Run(r) ==
  /\ request[r].pc = "run"
  /\ \/ Affect(request[r].body) /\ Goto(r, "save") /\ NoFault
     \/ Fault("handler") /\ Goto(r, "release") /\ UNCHANGED effects
     \/ Fault("late") /\ Affect(request[r].body) /\ Goto(r, "release")
  /\ UNCHANGED <<key, acked, lapsed>>

\* DEL key, whoever's claim it is by now; an exception is swallowed.
Release(r) ==
  /\ request[r].pc = "release"
  /\ \/ key' = Absent /\ NoFault
     \/ Fault("redis") /\ UNCHANGED key
  /\ Refuse(r)
  /\ UNCHANGED <<effects, lapsed>>

Result(r) == [state |-> "completed", digest |-> request[r].body]

\* SETEX key 172800 completed: only then is the batch acknowledged.
Save(r) ==
  /\ request[r].pc = "save"
  /\ \/ key' = Result(r) /\ Acknowledge(r) /\ NoFault
     \/ /\ Fault("redis")
        /\ key' \in {key, Result(r)}
        /\ Refuse(r)
  /\ UNCHANGED <<effects, lapsed>>

Crash(r) ==
  /\ request[r].pc # "idle"
  /\ Fault("crash")
  /\ Refuse(r)
  /\ UNCHANGED <<key, effects, lapsed>>

\* Some request is between its claim and its end.
Working == \E r \in Request : request[r].pc \in {"run", "release", "save"}

\* Mutant: the claim is set without EX.
NoTTL == FALSE

Orphaned == key.state = "processing" /\ ~Working

ExpireAs(kind) ==
  /\ key' = Absent
  /\ lapsed' = lapsed \cup {kind}
  /\ UNCHANGED <<request, effects, acked, bounds>>

ExpireOrphan    == Orphaned /\ ExpireAs("orphan")
ExpireRunning   == key.state = "processing" /\ Working /\ ExpireAs("running")
ExpireCompleted == key.state = "completed" /\ ExpireAs("completed")

Serve(r) == Claim(r) \/ Read(r) \/ Run(r) \/ Release(r) \/ Save(r)

Next ==
  \/ \E r \in Request, b \in Body : Send(r, b)
  \/ \E r \in Request : Serve(r) \/ Crash(r)
  \/ ExpireOrphan \/ ExpireRunning \/ ExpireCompleted

Spec == Init /\ [][Next]_vars

\* Requests are served, orphaned claims expire, and whoever has a content to
\* deliver sends it again on its own timer until something is acknowledged
\* (compatibility.json), however busy the API is with other requests.
FairSpec ==
  /\ Spec
  /\ WF_vars(ExpireOrphan)
  /\ \A r \in Request : WF_vars(Serve(r))
  /\ \A b \in Body : SF_vars(acked = {} /\ \E r \in Request : Send(r, b))

-----------------------------------------------------------------------------
(* Properties.                                                             *)

\* What the agent is told was accepted took effect, whatever expired, failed
\* or overlapped, and also when the answer is the replay of a result another
\* request stored (run_once).  The agent deletes the batch on this answer.
AckedTookEffect == \A b \in acked : effects[b] > 0

\* Two contents are never both accepted under one batch id, unless a result
\* or the claim of a running handler expired (run_once).
OneContent ==
  lapsed \subseteq {"orphan"} => \A b, c \in acked : b = c

\* A batch takes effect once, however often and however concurrently it is
\* sent, while no claim expires and a handler that raises has had no effect
\* (run_once).
EffectOnce ==
  lapsed = {} /\ "late" \notin happened => \A b \in Body : effects[b] <= 1

\* An agent that keeps sending is answered in the end: a claim whose request
\* died blocks the batch id only until it expires (run_once).
EventuallyAcknowledged == <>(acked # {})
=============================================================================
