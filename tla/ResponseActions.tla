-------------------------- MODULE ResponseActions --------------------------
(***************************************************************************)
(* The actions an administrator orders from one agent                      *)
(* (app/features/response: service.py, agent_actions.py, repository.py):   *)
(* queued by administrators, fetched and reported by the agent, cancelled, *)
(* and marked expired by whoever comes across them.                        *)
(*                                                                         *)
(* The actions are run_shell_command actions, the type whose rate is       *)
(* limited; the others skip the count.  A transaction that reads FOR       *)
(* UPDATE is one step.  One that reads without a lock is two: what it      *)
(* read, and what it writes.  The agent may fetch and report at any time,  *)
(* any number of times, and may execute again what it is sent again.       *)
(* Payloads, audit records and realtime events are left out; a report of   *)
(* running that repeats the last one changes nothing here.                 *)
(***************************************************************************)
EXTENDS Naturals, FiniteSets

CONSTANTS
  Action,        \* ids of rows of response_actions
  Creator,       \* administrators, one request at a time each
  Viewer,        \* requests that list or show actions
  ShellRateMax   \* _SHELL_EXEC_RATE_MAX

ASSUME ResponseAssumption ==
  /\ IsFiniteSet(Action) /\ IsFiniteSet(Creator)
  /\ ShellRateMax \in Nat \ {0}

VARIABLES
  status,      \* column status, or "none" before the row exists
  result,      \* status of its row of response_action_results, or "none"
  lapsed,      \* rows whose expires_at is past
  recent,      \* rows requested within the window of the rate limit
  counting,    \* creators that found the limit respected and insert next
  view,        \* rows a viewer read as expired and is about to write
  agent,       \* what the agent is: its profile and capabilities
  received,    \* history: actions the agent was sent
  overwritten  \* history: rows a viewer wrote after they had moved on

responseVars == <<status, result, lapsed, recent, counting, view, agent, received,
                  overwritten>>

Runnable == {"pending", "delivered"}
Terminal == {"success", "failed"}
Final == Terminal \cup {"cancelled", "expired"}
AgentKind == {"capable", "limited", "barred", "revoked"}

ResponseTypeOK ==
  /\ status \in [Action -> {"none", "running"} \cup Runnable \cup Final]
  /\ result \in [Action -> {"none", "running"} \cup Terminal]
  /\ lapsed \subseteq Action
  /\ recent \subseteq Action
  /\ counting \subseteq Creator
  /\ view \in [Viewer -> SUBSET Action]
  /\ agent \in AgentKind
  /\ received \subseteq Action
  /\ overwritten \subseteq Action

ResponseInit ==
  /\ status = [a \in Action |-> "none"]
  /\ result = [a \in Action |-> "none"]
  /\ lapsed = {}
  /\ recent = {}
  /\ counting = {}
  /\ view = [v \in Viewer |-> {}]
  /\ agent = "capable"
  /\ received = {}
  /\ overwritten = {}

-----------------------------------------------------------------------------
Rows == {a \in Action : status[a] # "none"}

\* Mutant: what was delivered already is not counted.
PendingOnly == {a \in recent : status[a] = "pending"}

\* count_recent_actions: what the rate limit counts.
Queued == {a \in recent : status[a] \in Runnable}

\* create_response_action up to the count: committed rows only.
CountActions(c) ==
  /\ c \notin counting
  /\ agent = "capable"
  /\ Cardinality(Queued) < ShellRateMax
  /\ counting' = counting \cup {c}
  /\ UNCHANGED <<status, result, lapsed, recent, view, agent, received, overwritten>>

\* The rest of it: the row is committed, whatever happened since the count.
CreateAction(c, a) ==
  /\ c \in counting
  /\ status[a] = "none"
  /\ status' = [status EXCEPT ![a] = "pending"]
  /\ recent' = recent \cup {a}
  /\ counting' = counting \ {c}
  /\ UNCHANGED <<result, lapsed, view, agent, received, overwritten>>

\* _apply_expired_status on a row that is read and written in one step.
Expired(a) == status[a] \in Runnable /\ a \in lapsed

\* list_pending_actions: every runnable row is expired, failed for want of the
\* capability, or delivered and sent, again if it had been sent before.  The
\* answer may be lost on its way.
Poll ==
  LET sent == {a \in Action : status[a] \in Runnable /\ ~Expired(a)} IN
  /\ agent \in {"capable", "limited"}
  /\ status' = [a \in Action |->
       IF Expired(a) THEN "expired"
       ELSE IF a \in sent THEN IF agent = "limited" THEN "failed" ELSE "delivered"
       ELSE status[a]]
  /\ \/ received' = IF agent = "limited" THEN received ELSE received \cup sent
     \/ UNCHANGED received
  /\ UNCHANGED <<result, lapsed, recent, counting, view, agent, overwritten>>

\* Mutant: a report is refused only for an action cancelled or expired.
ExecutableLoose(a) == status[a] \notin {"cancelled", "expired", "none"}

\* What report_action_result lets a report change; the others are answered
\* with a conflict, or as duplicates.
Executable(a) == status[a] \in Runnable \cup {"running"}

\* report_action_result
Report(a, s) ==
  /\ agent # "revoked"
  /\ a \in received
  /\ Executable(a)
  /\ result' = [result EXCEPT ![a] = s]
  /\ status' = [status EXCEPT ![a] = s]
  /\ UNCHANGED <<lapsed, recent, counting, view, agent, received, overwritten>>

\* cancel_response_action: an expired action is marked so, and refused.
Cancel(a) ==
  /\ status[a] \in Runnable
  /\ status' = [status EXCEPT ![a] = IF Expired(a) THEN "expired" ELSE "cancelled"]
  /\ UNCHANGED <<result, lapsed, recent, counting, view, agent, received, overwritten>>

\* list_response_actions and get_response_action read without a lock ...
View(v) ==
  /\ view[v] = {}
  /\ \E rows \in SUBSET {a \in Action : Expired(a)} :
       rows # {} /\ view' = [view EXCEPT ![v] = rows]
  /\ UNCHANGED <<status, result, lapsed, recent, counting, agent, received,
                 overwritten>>

\* ... and write what they made of it, by primary key.
MarkExpired(v) ==
  /\ view[v] # {}
  /\ status' = [a \in Action |-> IF a \in view[v] THEN "expired" ELSE status[a]]
  /\ overwritten' = overwritten \cup
       {a \in view[v] : status[a] \notin Runnable \cup {"expired"}}
  /\ view' = [view EXCEPT ![v] = {}]
  /\ UNCHANGED <<result, lapsed, recent, counting, agent, received>>

\* Time passes: an action reaches its expires_at, or leaves the window.
Lapse(a) ==
  /\ a \in Rows \ lapsed
  /\ lapsed' = lapsed \cup {a}
  /\ UNCHANGED <<status, result, recent, counting, view, agent, received, overwritten>>

Age(a) ==
  /\ a \in recent
  /\ recent' = recent \ {a}
  /\ UNCHANGED <<status, result, lapsed, counting, view, agent, received, overwritten>>

\* The agent reports other capabilities, or is revoked.
AgentChanges ==
  /\ agent' \in AgentKind \ {agent}
  /\ UNCHANGED <<status, result, lapsed, recent, counting, view, received, overwritten>>

ResponseNext ==
  \/ \E c \in Creator : CountActions(c)
  \/ \E c \in Creator, a \in Action : CreateAction(c, a)
  \/ Poll
  \/ \E a \in Action, s \in {"running"} \cup Terminal : Report(a, s)
  \/ \E a \in Action : Cancel(a) \/ Lapse(a) \/ Age(a)
  \/ \E v \in Viewer : View(v) \/ MarkExpired(v)
  \/ AgentChanges

ResponseSpec == ResponseInit /\ [][ResponseNext]_responseVars

-----------------------------------------------------------------------------
\* What the row of an action says and what its agent reported agree.
Agrees(a) ==
  /\ result[a] # "none" => status[a] = result[a] /\ a \in received
  /\ status[a] \in {"success", "running"} => result[a] = status[a]

\* What an administrator sees of an action and what its agent reported of it
\* agree, and once the action has ended neither changes, across redeliveries,
\* repeated and late reports, cancellations, expiries and capability changes
\* (agent_actions.py:147).  The exception is a row that a viewer wrote from a
\* stale read (service.py:102): it says "expired" over what was reported, and
\* what the agent still has to report is refused.
ResultStands ==
  [][\A a \in Action \ overwritten' :
       /\ Agrees(a)'
       /\ status[a] \in Final => status'[a] = status[a] /\ result'[a] = result[a]]_responseVars

Waiting == {a \in recent : status[a] \in Runnable}

\* The shell commands that wait for an agent within the window, and those about
\* to, exceed the limit by at most one for each further administrator at work:
\* no lock is held between the count and the insertion (service.py:131), and a
\* command counts until the agent takes it up.
ShellBounded ==
  Cardinality(Waiting) + Cardinality(counting) < ShellRateMax + Cardinality(Creator)
=============================================================================
