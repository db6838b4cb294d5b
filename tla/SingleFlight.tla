---------------------------- MODULE SingleFlight ----------------------------
(***************************************************************************)
(* The computation of one cached analytics value                           *)
(* (app/core/cache/locks.py, and app/shared/analytics/swr.py, its caller): *)
(* callers in one process share a future, processes share a lock in Redis, *)
(* and a process without the lock waits for the value or for the lock to   *)
(* go.                                                                     *)
(*                                                                         *)
(* A caller is a request that found no fresh value, or the revalidation a  *)
(* stale one starts.  A step goes up to the next Redis command or await,   *)
(* so that the commands of different processes interleave.  The ttl of the *)
(* lock, the freshness of the value and the patience of a waiter end at    *)
(* any time.                                                               *)
(***************************************************************************)
EXTENDS Naturals, FiniteSets

CONSTANTS
  Caller,
  Home,        \* Home[c]: the process caller c runs in
  Unlocked,    \* the lock when nobody holds it
  FlightFaults \* bound on crashes, failures of Redis and of the computation

ASSUME FlightAssumption ==
  /\ IsFiniteSet(Caller)
  /\ DOMAIN Home = Caller
  /\ Unlocked \notin Caller
  /\ FlightFaults \in Nat

VARIABLES
  caller,    \* caller[c]: where c is
  cancelled, \* processes whose future in _inflight is cancelled
  lock,      \* the caller whose token the lock holds, or Unlocked
  fresh,     \* a fresh value is cached
  faults,    \* faults so far
  excused    \* history: callers that may compute beside another one

flightVars == <<caller, cancelled, lock, fresh, faults, excused>>

Computing == {"leading", "alone"}
Flying == Computing \cup {"asking", "releasing", "waiting", "checking", "last"}

FlightTypeOK ==
  /\ caller \in [Caller -> {"idle", "missed", "joined"} \cup Flying]
  /\ cancelled \subseteq {Home[c] : c \in Caller}
  /\ lock \in Caller \cup {Unlocked}
  /\ fresh \in BOOLEAN
  /\ faults \in 0 .. FlightFaults
  /\ excused \subseteq Caller

FlightInit ==
  /\ caller = [c \in Caller |-> "idle"]
  /\ cancelled = {}
  /\ lock = Unlocked
  /\ fresh = FALSE
  /\ faults = 0
  /\ excused = {}

-----------------------------------------------------------------------------
Move(c, pc) == caller' = [caller EXCEPT ![c] = pc] /\ UNCHANGED cancelled

Fault == faults < FlightFaults /\ faults' = faults + 1

\* The future in _inflight of the process of c belongs to another caller.
InFlight(c) == \E d \in Caller \ {c} : Home[d] = Home[c] /\ caller[d] \in Flying

Joined(c) == {d \in Caller : Home[d] = Home[c] /\ caller[d] = "joined"}

\* Mutant: the future is not settled when the computation raises.
LandOnly(c, raised) ==
  /\ caller' = [d \in Caller |-> IF d = c \/ (d \in Joined(c) /\ ~raised) THEN "idle"
                                 ELSE caller[d]]
  /\ cancelled' = cancelled \ {Home[c]}

\* _InProcessFlights.finish: the result or the exception answers them all.
Land(c, raised) ==
  /\ caller' = [d \in Caller |-> IF d = c \/ d \in Joined(c) THEN "idle" ELSE caller[d]]
  /\ cancelled' = cancelled \ {Home[c]}

\* get_or_compute: no fresh value.
Miss(c) ==
  /\ caller[c] = "idle"
  /\ ~fresh
  /\ Move(c, "missed")
  /\ excused' = excused \ {c}
  /\ UNCHANGED <<lock, fresh, faults>>

\* single_flight, beside another caller of the process: a future that was
\* cancelled raises at once.
Join(c) ==
  /\ caller[c] = "missed"
  /\ InFlight(c)
  /\ Move(c, IF Home[c] \in cancelled THEN "idle" ELSE "joined")
  /\ UNCHANGED <<lock, fresh, faults, excused>>

\* single_flight, first in its process; without Redis there is no lock.
Begin(c) ==
  /\ caller[c] = "missed"
  /\ ~InFlight(c)
  /\ \/ /\ Move(c, "asking")
        /\ UNCHANGED <<faults, excused>>
     \/ /\ Fault
        /\ Move(c, "alone")
        /\ excused' = excused \cup {c}
  /\ UNCHANGED <<lock, fresh>>

\* acquire_lock: when its command fails the lock may be set all the same.
Acquire(c) ==
  /\ caller[c] = "asking"
  /\ \/ /\ lock = Unlocked
        /\ lock' = c
        /\ Move(c, "leading")
        /\ UNCHANGED faults
     \/ /\ lock # Unlocked
        /\ Move(c, "waiting")
        /\ UNCHANGED <<lock, faults>>
     \/ /\ Fault
        /\ \/ lock = Unlocked /\ lock' = c
           \/ UNCHANGED lock
        /\ Move(c, "waiting")
  /\ UNCHANGED <<fresh, excused>>

\* The factory returns, its value stored or not.
Computed(c) ==
  /\ caller[c] \in Computing
  /\ \/ fresh' = TRUE /\ UNCHANGED faults
     \/ Fault /\ UNCHANGED fresh
  /\ IF caller[c] = "leading" THEN Move(c, "releasing") ELSE Land(c, FALSE)
  /\ UNCHANGED <<lock, excused>>

\* The factory raises, or the caller is cancelled where it awaits.  A leader
\* releases the lock on its way out; one that is cancelled while it asks for
\* the lock may leave it set.
Raised(c) ==
  /\ caller[c] \in Computing \cup {"asking", "waiting"}
  /\ Fault
  /\ IF caller[c] = "leading" THEN Move(c, "releasing") ELSE Land(c, TRUE)
  /\ \/ UNCHANGED lock
     \/ caller[c] = "asking" /\ lock = Unlocked /\ lock' = c
  /\ UNCHANGED <<fresh, excused>>

\* Mutant: whoever holds the lock loses it.
DropLock(c) == Unlocked

\* The release script deletes the lock only if it holds the token of c.
Released(c) == IF lock = c THEN Unlocked ELSE lock

\* release_lock, then _flights.finish.
Release(c) ==
  /\ caller[c] = "releasing"
  /\ \/ lock' = Released(c) /\ UNCHANGED faults
     \/ Fault /\ UNCHANGED lock
  /\ Land(c, FALSE)
  /\ UNCHANGED <<fresh, excused>>

\* _wait_for_leader: the poll of an iteration.
PollEntry(c) ==
  /\ caller[c] = "waiting"
  /\ IF fresh THEN Land(c, FALSE) ELSE Move(c, "checking")
  /\ UNCHANGED <<lock, fresh, faults, excused>>

\* The time is up, however far the iteration is.
TimeUp(c) ==
  /\ caller[c] \in {"waiting", "checking"}
  /\ Move(c, "last")
  /\ excused' = excused \cup {c}
  /\ UNCHANGED <<lock, fresh, faults>>

\* _lock_held: when the lock went without leaving a value, c has to compute.
CheckLock(c) ==
  /\ caller[c] = "checking"
  /\ \/ /\ lock # Unlocked
        /\ Move(c, "waiting")
        /\ UNCHANGED <<faults, excused>>
     \/ /\ lock = Unlocked
        /\ Move(c, "last")
        /\ excused' = IF fresh THEN excused ELSE excused \cup {c}
        /\ UNCHANGED faults
     \/ /\ Fault
        /\ Move(c, "last")
        /\ excused' = excused \cup {c}
  /\ UNCHANGED <<lock, fresh>>

\* Mutant: no poll after the loop.
ComputeAtOnce(c) ==
  /\ caller[c] = "last"
  /\ Move(c, "alone")
  /\ UNCHANGED <<lock, fresh, faults, excused>>

\* The poll after the loop.
LastPoll(c) ==
  /\ caller[c] = "last"
  /\ IF fresh THEN Land(c, FALSE) ELSE Move(c, "alone")
  /\ UNCHANGED <<lock, fresh, faults, excused>>

\* A caller that awaits the shared future is cancelled, and with it the future
\* and everyone who awaits it.  The flight goes on.
CancelWaiter(c) ==
  /\ caller[c] = "joined"
  /\ Fault
  /\ caller' = [d \in Caller |-> IF d \in Joined(c) THEN "idle" ELSE caller[d]]
  /\ cancelled' = cancelled \cup {Home[c]}
  /\ UNCHANGED <<lock, fresh, excused>>

\* The lock expires, whether or not its owner is done.
LockLapses ==
  /\ lock # Unlocked
  /\ lock' = Unlocked
  /\ excused' = excused \cup {lock}
  /\ UNCHANGED <<caller, cancelled, fresh, faults>>

\* The value is no longer fresh: whoever saw the lock go has none.
GoesStale ==
  /\ fresh
  /\ fresh' = FALSE
  /\ excused' = excused \cup {c \in Caller : caller[c] = "last"}
  /\ UNCHANGED <<caller, cancelled, lock, faults>>

\* A process ends, and its callers with it; its lock stays until it expires.
ProcessCrash(p) ==
  /\ Fault
  /\ caller' = [c \in Caller |-> IF Home[c] = p THEN "idle" ELSE caller[c]]
  /\ cancelled' = cancelled \ {p}
  /\ UNCHANGED <<lock, fresh, excused>>

Fly(c) ==
  \/ Join(c)
  \/ Begin(c)
  \/ Acquire(c)
  \/ Computed(c)
  \/ Raised(c)
  \/ Release(c)
  \/ PollEntry(c)
  \/ CheckLock(c)
  \/ LastPoll(c)

FlightNext ==
  \/ \E c \in Caller : Fly(c) \/ Miss(c) \/ TimeUp(c) \/ CancelWaiter(c)
  \/ LockLapses
  \/ GoesStale
  \/ \E p \in {Home[c] : c \in Caller} : ProcessCrash(p)

FlightSpec == FlightInit /\ [][FlightNext]_flightVars

-----------------------------------------------------------------------------
\* One value is computed once at a time, over all processes: beside one caller
\* that computes only those compute that had to, because they ran out of
\* patience, because the lock was lost under them, because it went without
\* leaving a value, or because Redis failed.  A waiter whose leader stores the
\* value and releases the lock between its poll and its look at the lock takes
\* the value (locks.py:145).
OneComputation ==
  Cardinality({c \in Caller : caller[c] \in Computing} \ excused) <= 1

\* Every caller that missed is answered, with a value or an exception: neither
\* a leader that fails, nor a lock that outlives its owner, nor a value that
\* keeps going stale leaves anyone waiting on the future or on the lock.
EveryCallerAnswered == \A c \in Caller : (caller[c] # "idle") ~> (caller[c] = "idle")
=============================================================================
