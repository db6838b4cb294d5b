------------------------------ MODULE Sessions ------------------------------
(***************************************************************************)
(* The portal's refresh sessions, one-time tokens and access tokens of one *)
(* user (app/features/auth, and the password and deactivation paths of     *)
(* app/features/account and app/features/users).                           *)
(*                                                                         *)
(* A request is one database transaction under READ COMMITTED: a read sees *)
(* what is committed when it runs, an UPDATE chooses its rows from what is *)
(* committed when it starts, locks them one by one, waits for the          *)
(* transaction that holds a row, and looks at its predicate again once it  *)
(* has the lock.  Nothing a request writes is visible before its commit.   *)
(*                                                                         *)
(* A family is named by its first session.  An expired session is one that *)
(* is not revoked and whose expires_at has passed.  Requests that are      *)
(* refused without a write leave no trace here (failed_login_count, login  *)
(* events and the audit trail are left out).                               *)
(***************************************************************************)
EXTENDS Naturals, FiniteSets

CONSTANTS
  Request,    \* requests being served
  SessionId,  \* ids of portal_refresh_sessions rows
  Otp,        \* portal_one_time_tokens rows
  MaxSweeps   \* bound on logout_all, password changes and deactivations

None == "none"          \* no session, no credential
Password == "password"  \* the credential of a login

ASSUME SessionsAssumption ==
  /\ MaxSweeps \in Nat
  /\ SessionId \cap Otp = {}
  /\ {None, Password} \cap (SessionId \cup Otp) = {}

VARIABLES
  sess,       \* portal_refresh_sessions
  otp,        \* portal_one_time_tokens
  user,       \* the portal_users row: is_active and token_version
  txn,        \* txn[r]: what request r has read, locked and will write
  access,     \* token versions of the access tokens handed out
  sweeps,     \* sweeps begun, for the bound
  origin,     \* history: the credential each session was granted for
  swept,      \* history: families a committed sweep covered
  excused,    \* history: sessions rotated while a sweep was under way
  retired,    \* history: token versions ended by a committed sweep
  crossed     \* history: two sweeps of the user overlapped

vars == <<sess, otp, user, txn, access, sweeps,
          origin, swept, excused, retired, crossed>>

-----------------------------------------------------------------------------
Version == 1 .. (MaxSweeps + 1)

Session == [state: {"none", "live", "expired", "revoked"},
            family: SessionId \cup {None}, replaced: SessionId \cup {None}]

UserSweep == {"logout_all", "password", "deactivate"}

Txn == [pc: {"idle", "presented", "authorized", "claimed", "revoking",
             "reading", "sweeping", "settling"},
        kind: {"none", "refresh", "login", "otp", "logout", "reuse"} \cup UserSweep,
        token: SessionId \cup Otp \cup {None},  \* the credential presented
        succ: SessionId \cup {None},            \* the session it will create
        tv: Version,                            \* token_version as it was read
        todo: SUBSET SessionId,                 \* rows an UPDATE has yet to lock
        locks: SUBSET SessionId,                \* rows it revoked, uncommitted
        covers: SUBSET SessionId]               \* history: families it sweeps

NoSession == [state |-> "none", family |-> None, replaced |-> None]
NoTxn == [pc |-> "idle", kind |-> "none", token |-> None, succ |-> None,
          tv |-> 1, todo |-> {}, locks |-> {}, covers |-> {}]

Exists(s)    == sess[s].state # "none"
Unrevoked(s) == sess[s].state \in {"live", "expired"}

\* A row lock is held from the UPDATE to the end of the transaction.
LockedByOther(r, s) == \E q \in Request \ {r} : s \in txn[q].locks
OtpLocked(o) == \E r \in Request : txn[r].pc = "claimed" /\ txn[r].token = o

\* get_current_user: some access token in circulation is accepted.
Authenticated == user.active /\ user.tv \in access

\* uuid4: an id no row and no open transaction has.
FreshId == {s \in SessionId : ~Exists(s) /\ \A r \in Request : txn[r].succ # s}

TypeOK ==
  /\ sess \in [SessionId -> Session]
  /\ otp \in [Otp -> {"none", "fresh", "used"}]
  /\ user \in [active: BOOLEAN, tv: Version]
  /\ txn \in [Request -> Txn]
  /\ access \subseteq Version
  /\ sweeps \in 0 .. MaxSweeps
  /\ origin \in [SessionId -> SessionId \cup Otp \cup {None, Password}]
  /\ swept \subseteq SessionId
  /\ excused \subseteq SessionId
  /\ retired \subseteq Version
  /\ crossed \in BOOLEAN

Init ==
  /\ sess = [s \in SessionId |-> NoSession]
  /\ otp = [o \in Otp |-> "none"]
  /\ user = [active |-> TRUE, tv |-> 1]
  /\ txn = [r \in Request |-> NoTxn]
  /\ access = {}
  /\ sweeps = 0
  /\ origin = [s \in SessionId |-> None]
  /\ swept = {}
  /\ excused = {}
  /\ retired = {}
  /\ crossed = FALSE

history == <<origin, swept, excused, retired, crossed>>
tables  == <<sess, otp, user, access>>

Step(r, t) == txn' = [txn EXCEPT ![r] = t]

-----------------------------------------------------------------------------
(* Logging in.                                                             *)

\* login: the user row is read, and its token_version with it.
Login(r) ==
  /\ txn[r].pc = "idle"
  /\ user.active
  /\ \E s \in FreshId :
       Step(r, [NoTxn EXCEPT !.pc = "settling", !.kind = "login",
                             !.succ = s, !.tv = user.tv])
  /\ UNCHANGED <<tables, sweeps, history>>

\* otp_create, by an administrator, for an active user.
OtpCreate(o) ==
  /\ otp[o] = "none"
  /\ user.active
  /\ otp' = [otp EXCEPT ![o] = "fresh"]
  /\ UNCHANGED <<sess, user, txn, access, sweeps, history>>

\* otp_login: the one-time token is read and found good.  Its expiry is looked
\* at only here, so an expired token is one that is not presented any more.
OtpPresent(r, o) ==
  /\ txn[r].pc = "idle"
  /\ otp[o] = "fresh"
  /\ Step(r, [NoTxn EXCEPT !.pc = "presented", !.kind = "otp", !.token = o])
  /\ UNCHANGED <<tables, sweeps, history>>

\* Mutant: the token is marked used whatever its row says by now.
OtpClaimableAlways(o) == TRUE

\* The predicate of consume_one_time_token, seen with the lock held.
OtpClaimable(o) == otp[o] = "fresh"

OtpClaim(r) ==
  LET t == txn[r] IN
  /\ t.pc = "authorized" /\ t.kind = "otp"
  /\ ~OtpLocked(t.token)
  /\ IF OtpClaimable(t.token)
     THEN \E s \in FreshId : Step(r, [t EXCEPT !.pc = "claimed", !.succ = s])
     ELSE Step(r, NoTxn)
  /\ UNCHANGED <<tables, sweeps, history>>

-----------------------------------------------------------------------------
(* Rotation.                                                               *)

\* refresh: the row of the presented token decides what the request will do.
\* A revoked row with no successor is refused and nothing changes.
Present(r, s) ==
  /\ txn[r].pc = "idle"
  /\ Exists(s)
  /\ LET t == [NoTxn EXCEPT !.kind = "refresh", !.token = s] IN
     \/ /\ sess[s].state = "live"
        /\ Step(r, [t EXCEPT !.pc = "presented"])
     \/ /\ sess[s].state = "expired"
        /\ Step(r, [t EXCEPT !.pc = "revoking"])
     \/ /\ sess[s].state = "revoked" /\ sess[s].replaced # None
        /\ Step(r, [t EXCEPT !.pc = "reading", !.kind = "reuse"])
  /\ UNCHANGED <<tables, sweeps, history>>

\* get_user_by_id: an inactive user's session is revoked, an OTP is refused.
ReadUser(r) ==
  LET t == txn[r] IN
  /\ t.pc = "presented"
  /\ \/ /\ user.active
        /\ Step(r, [t EXCEPT !.pc = "authorized", !.tv = user.tv])
     \/ /\ ~user.active /\ t.kind = "refresh"
        /\ Step(r, [t EXCEPT !.pc = "revoking"])
     \/ /\ ~user.active /\ t.kind = "otp"
        /\ Step(r, NoTxn)
  /\ UNCHANGED <<tables, sweeps, history>>

\* Mutant: UPDATE ... WHERE id = :id, without revoked_at IS NULL.
AnyRow(s) == Exists(s)

\* The predicate of every UPDATE of a session, seen with the lock held.
Revocable(s) == Unrevoked(s)

\* A sweep that covers family f chose its rows and has not committed.
SweepOpen(f) == \E q \in Request : f \in txn[q].covers

\* revoke_refresh_session with a successor: the winner names the session it
\* will create, the loser is refused and nothing changes.
Claim(r) ==
  LET t == txn[r] IN
  /\ t.pc = "authorized" /\ t.kind = "refresh"
  /\ ~LockedByOther(r, t.token)
  /\ \/ /\ Revocable(t.token)
        /\ \E s \in FreshId :
             /\ Step(r, [t EXCEPT !.pc = "claimed", !.succ = s, !.locks = {t.token}])
             /\ excused' = IF t.token \in excused \/ SweepOpen(sess[t.token].family)
                           THEN excused \cup {s} ELSE excused
     \/ /\ ~Revocable(t.token)
        /\ Step(r, NoTxn)
        /\ UNCHANGED excused
  /\ UNCHANGED <<tables, sweeps, origin, swept, retired, crossed>>

\* revoke_refresh_session without a successor: expired, unauthorized, logout.
RevokeOne(r) ==
  LET t == txn[r] IN
  /\ t.pc = "revoking"
  /\ ~LockedByOther(r, t.token)
  /\ Step(r, IF Revocable(t.token)
             THEN [t EXCEPT !.pc = "settling", !.locks = {t.token}] ELSE NoTxn)
  /\ UNCHANGED <<tables, sweeps, history>>

\* logout: the row of the cookie's token is looked up.
Logout(r, s) ==
  /\ txn[r].pc = "idle"
  /\ Authenticated
  /\ Exists(s)
  /\ Step(r, [NoTxn EXCEPT !.pc = "revoking", !.kind = "logout", !.token = s])
  /\ UNCHANGED <<tables, sweeps, history>>

-----------------------------------------------------------------------------
(* Sweeps: one UPDATE that revokes many sessions.                          *)

\* Mutant: reuse revokes only the direct successor of the replayed token.
SuccessorOnly(r, kind) ==
  {s \in SessionId :
     /\ Unrevoked(s)
     /\ kind = "reuse" => s = sess[txn[r].token].replaced}

\* revoke_refresh_family, revoke_active_refresh_sessions_by_user.
Scope(r, kind) ==
  {s \in SessionId :
     /\ Unrevoked(s)
     /\ kind = "reuse" => sess[s].family = sess[txn[r].token].family}

\* The families an UPDATE with that scope sees.
Covered(r, kind) ==
  IF kind = "reuse" THEN {sess[txn[r].token].family}
                    ELSE {sess[s].family : s \in {x \in SessionId : Exists(x)}}

\* Rotations that hold their row when a sweep chooses its own.
RotatingIn(S) ==
  {txn[q].succ : q \in {p \in Request : /\ txn[p].pc = "claimed"
                                        /\ txn[p].kind = "refresh"
                                        /\ txn[p].token \in S}}

\* change_password, update_user and delete_user read the user row first.  An
\* administrator may set the password of any user; only the deactivation of an
\* active user writes is_active.
BeginSweep(r, kind) ==
  /\ txn[r].pc = "idle"
  /\ kind \in {"password", "deactivate"}
  /\ kind = "deactivate" => user.active
  /\ sweeps < MaxSweeps
  /\ sweeps' = sweeps + 1
  /\ Step(r, [NoTxn EXCEPT !.pc = "reading", !.kind = kind, !.tv = user.tv])
  /\ UNCHANGED <<tables, history>>

\* The UPDATE starts: its rows are those it sees now.
Sweep(r) ==
  LET t == txn[r] IN
  /\ t.pc = "reading"
  /\ Step(r, [t EXCEPT !.pc = "sweeping", !.todo = Scope(r, t.kind),
                    !.covers = Covered(r, t.kind)])
  /\ excused' = excused \cup RotatingIn(Scope(r, t.kind))
  /\ UNCHANGED <<tables, sweeps, origin, swept, retired, crossed>>

\* logout_all updates the sessions first.
LogoutAll(r) ==
  /\ txn[r].pc = "idle"
  /\ Authenticated
  /\ sweeps < MaxSweeps
  /\ sweeps' = sweeps + 1
  /\ Step(r, [NoTxn EXCEPT !.pc = "sweeping", !.kind = "logout_all",
                           !.todo = Scope(r, "logout_all"),
                           !.covers = Covered(r, "logout_all")])
  /\ excused' = excused \cup RotatingIn(Scope(r, "logout_all"))
  /\ UNCHANGED <<tables, origin, swept, retired, crossed>>

\* One row of the UPDATE: locked, and revoked if its predicate still holds.
SweepRow(r, s) ==
  LET t == txn[r] IN
  /\ t.pc = "sweeping"
  /\ s \in t.todo
  /\ ~LockedByOther(r, s)
  /\ Step(r, [t EXCEPT !.todo = @ \ {s},
                       !.locks = IF Revocable(s) THEN @ \cup {s} ELSE @])
  /\ UNCHANGED <<tables, sweeps, history>>

\* The UPDATE is done; logout_all reads the user row only now.
SweepEnds(r) ==
  LET t == txn[r] IN
  /\ t.pc = "sweeping"
  /\ t.todo = {}
  /\ Step(r, [t EXCEPT !.pc = "settling",
                       !.tv = IF t.kind = "logout_all" THEN user.tv ELSE @])
  /\ UNCHANGED <<tables, sweeps, history>>

-----------------------------------------------------------------------------
(* Ending a transaction.                                                   *)

\* Mutants: a sweep leaves token_version as it is, or counts twice.
SameVersion(r) == txn[r].tv
TwoVersions(r) == txn[r].tv + 2

\* token_version is written from the value read, not incremented in the row.
NextVersion(r) == txn[r].tv + 1

\* A rotation stays in its family, a login begins one.
FamilyOf(r) == IF txn[r].kind = "refresh" THEN sess[txn[r].token].family
                                          ELSE txn[r].succ

\* Another sweep read token_version and has yet to write it.
SweepCrosses(r) ==
  \E q \in Request \ {r} : txn[q].kind \in UserSweep

\* A rotation or a login commits: its session exists and its cookie and
\* access token are handed out.
CommitGrant(r) ==
  LET t == txn[r] IN
  /\ \/ t.pc = "claimed"
     \/ t.pc = "settling" /\ t.kind = "login"
  /\ sess' = [s \in SessionId |->
       CASE s = t.succ -> [state |-> "live", family |-> FamilyOf(r), replaced |-> None]
         [] s \in t.locks -> [sess[s] EXCEPT !.state = "revoked", !.replaced = t.succ]
         [] OTHER -> sess[s]]
  /\ otp' = IF t.kind = "otp" THEN [otp EXCEPT ![t.token] = "used"] ELSE otp
  /\ access' = access \cup {t.tv}
  /\ origin' = [origin EXCEPT ![t.succ] = IF t.kind = "login" THEN Password ELSE t.token]
  /\ Step(r, NoTxn)
  /\ UNCHANGED <<user, sweeps, swept, excused, retired, crossed>>

\* A revocation or a sweep commits.
CommitRevocation(r) ==
  LET t == txn[r] IN
  /\ t.pc = "settling" /\ t.kind # "login"
  /\ sess' = [s \in SessionId |->
       IF s \in t.locks THEN [sess[s] EXCEPT !.state = "revoked", !.replaced = None]
                        ELSE sess[s]]
  /\ IF t.kind \in UserSweep
     THEN /\ user' = [active |-> user.active /\ t.kind # "deactivate",
                      tv |-> NextVersion(r)]
          /\ retired' = retired \cup {user.tv}
          /\ crossed' = (crossed \/ SweepCrosses(r))
     ELSE UNCHANGED <<user, retired, crossed>>
  /\ swept' = swept \cup t.covers
  /\ Step(r, NoTxn)
  /\ UNCHANGED <<otp, access, sweeps, origin, excused>>

\* An error, a lost connection or a deadlock ends the transaction; logout and
\* logout_all answer as if they had succeeded (_commit_quietly).
Rollback(r) ==
  /\ txn[r].pc # "idle"
  /\ Step(r, NoTxn)
  /\ UNCHANGED <<tables, sweeps, history>>

\* update_user with is_active: only that column is written.
Reactivate ==
  /\ ~user.active
  /\ user' = [user EXCEPT !.active = TRUE]
  /\ UNCHANGED <<sess, otp, txn, access, sweeps, history>>

\* expires_at passes.
Expire(s) ==
  /\ sess[s].state = "live"
  /\ sess' = [sess EXCEPT ![s].state = "expired"]
  /\ UNCHANGED <<otp, user, txn, access, sweeps, history>>

Next ==
  \/ \E r \in Request :
       \/ Login(r) \/ OtpClaim(r) \/ ReadUser(r) \/ Claim(r) \/ RevokeOne(r)
       \/ Sweep(r) \/ LogoutAll(r) \/ SweepEnds(r)
       \/ CommitGrant(r) \/ CommitRevocation(r) \/ Rollback(r)
       \/ \E o \in Otp : OtpPresent(r, o)
       \/ \E s \in SessionId : Present(r, s) \/ Logout(r, s) \/ SweepRow(r, s)
       \/ \E kind \in UserSweep : BeginSweep(r, kind)
  \/ \E o \in Otp : OtpCreate(o)
  \/ \E s \in SessionId : Expire(s)
  \/ Reactivate

Spec == Init /\ [][Next]_vars

-----------------------------------------------------------------------------
(* Properties.                                                             *)

\* A family never has two sessions that can still be used: of any number of
\* refreshes that present one token, one creates a successor (refresh,
\* revoke_refresh_session).
OneLivePerFamily ==
  \A s1, s2 \in SessionId :
    Unrevoked(s1) /\ Unrevoked(s2) /\ sess[s1].family = sess[s2].family => s1 = s2

\* A credential is spent once: no two sessions were granted for one refresh
\* token or one one-time token (refresh, otp_login).
SpentOnce ==
  \A s1, s2 \in SessionId :
    origin[s1] = origin[s2] /\ origin[s1] \notin {None, Password} => s1 = s2

\* A session of a swept family is still usable only if it descends from a
\* rotation that ran while the sweep did: the sweep could not see its row
\* (refresh, logout_all, change_password, delete_user).
SurvivorsOverlap ==
  \A s \in SessionId : Unrevoked(s) /\ sess[s].family \in swept => s \in excused

\* Unless two sweeps of the user overlapped and one wrote a token_version
\* computed from a value the other had replaced, an access token that a sweep
\* ended is never accepted again (logout_all, change_password, get_current_user).
RetiredStaysRetired == ~crossed => user.tv \notin retired

\* A revocation is final and keeps its successor: whatever waits for the row
\* and comes second changes nothing, so a replay of a rotated token is still
\* recognised as one (revoke_refresh_session, revoke_refresh_family).
RevocationIsFinal ==
  [][\A s \in SessionId : sess[s].state = "revoked" => sess'[s] = sess[s]]_vars
=============================================================================
