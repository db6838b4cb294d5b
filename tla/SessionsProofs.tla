--------------------------- MODULE SessionsProofs ---------------------------
(***************************************************************************)
(* Proofs about Sessions, for any number of concurrent requests, sessions, *)
(* one-time tokens and sweeps.                                             *)
(*                                                                         *)
(* Core collects what open transactions may assume of one another: rows    *)
(* they lock, ids they take, versions they have read.  Sweeps, proved      *)
(* on top of it, is about the families a sweep covers, and the rotations   *)
(* that run beside it.  The last section bounds token versions: a request  *)
(* that is sweeping has taken its place in the budget of sweeps.           *)
(***************************************************************************)
EXTENDS Sessions, FiniteSetTheorems, TLAPS

-----------------------------------------------------------------------------
(* Types, as far as the properties need them: the bound on token versions  *)
(* that TypeOK states comes from MaxSweeps, and is proved at the end.       *)

Pc == {"idle", "presented", "authorized", "claimed", "revoking",
       "reading", "sweeping", "settling"}
Kind == {"none", "refresh", "login", "otp", "logout", "reuse"} \cup UserSweep

Open == [pc: Pc, kind: Kind, token: SessionId \cup Otp \cup {None},
         succ: SessionId \cup {None}, tv: Nat, todo: SUBSET SessionId,
         locks: SUBSET SessionId, covers: SUBSET (SessionId \cup {None})]

Typed ==
  /\ sess \in [SessionId -> Session]
  /\ otp \in [Otp -> {"none", "fresh", "used"}]
  /\ user \in [active: BOOLEAN, tv: Nat]
  /\ txn \in [Request -> Open]
  /\ origin \in [SessionId -> SessionId \cup Otp \cup {None, Password}]
  /\ retired \subseteq Nat

LEMMA SetPc ==
  ASSUME NEW t \in Open, NEW pc \in Pc
  PROVE  [t EXCEPT !.pc = pc] \in Open
BY ZenonT(30) DEF Open

LEMMA SetTv ==
  ASSUME NEW t \in Open, NEW pc \in Pc, NEW tv \in Nat
  PROVE  [t EXCEPT !.pc = pc, !.tv = tv] \in Open
BY ZenonT(30) DEF Open

LEMMA SetSucc ==
  ASSUME NEW t \in Open, NEW pc \in Pc, NEW s \in SessionId
  PROVE  [t EXCEPT !.pc = pc, !.succ = s] \in Open
BY ZenonT(30) DEF Open

LEMMA SetClaim ==
  ASSUME NEW t \in Open, NEW pc \in Pc, NEW s \in SessionId,
         NEW locks \in SUBSET SessionId
  PROVE  [t EXCEPT !.pc = pc, !.succ = s, !.locks = locks] \in Open
BY ZenonT(30) DEF Open

LEMMA SetLocks ==
  ASSUME NEW t \in Open, NEW pc \in Pc, NEW locks \in SUBSET SessionId
  PROVE  [t EXCEPT !.pc = pc, !.locks = locks] \in Open
BY ZenonT(30) DEF Open

LEMMA SetRow ==
  ASSUME NEW t \in Open, NEW todo \in SUBSET SessionId,
         NEW locks \in SUBSET SessionId
  PROVE  [t EXCEPT !.todo = todo, !.locks = locks] \in Open
BY ZenonT(30) DEF Open

LEMMA SetSweep ==
  ASSUME NEW t \in Open, NEW pc \in Pc, NEW todo \in SUBSET SessionId,
         NEW covers \in SUBSET (SessionId \cup {None})
  PROVE  [t EXCEPT !.pc = pc, !.todo = todo, !.covers = covers] \in Open
BY ZenonT(30) DEF Open

LEMMA NewTxn ==
  /\ NoTxn \in Open
  /\ \A pc \in Pc, kind \in Kind, token \in SessionId \cup Otp :
       [NoTxn EXCEPT !.pc = pc, !.kind = kind, !.token = token] \in Open
  /\ \A pc \in Pc, kind \in Kind, s \in SessionId, tv \in Nat :
       [NoTxn EXCEPT !.pc = pc, !.kind = kind, !.succ = s, !.tv = tv] \in Open
  /\ \A pc \in Pc, kind \in Kind, tv \in Nat :
       [NoTxn EXCEPT !.pc = pc, !.kind = kind, !.tv = tv] \in Open
  /\ \A pc \in Pc, kind \in Kind, todo \in SUBSET SessionId,
       covers \in SUBSET (SessionId \cup {None}) :
       [NoTxn EXCEPT !.pc = pc, !.kind = kind, !.todo = todo,
                     !.covers = covers] \in Open
BY DEF NoTxn, Open, Pc, Kind

\* What the program counter says of a transaction.
Shape(t) ==
  /\ t.pc = "claimed" => t.kind \in {"refresh", "otp"} /\ t.succ \in SessionId
  /\ t.pc = "settling" /\ t.kind = "login" => t.succ \in SessionId
  /\ t.succ # None => t.pc = "claimed" \/ t.kind = "login"
  /\ t.kind = "refresh" => t.token \in SessionId
  /\ t.kind = "otp" => t.token \in Otp
  /\ t.pc = "sweeping" => t.kind \in UserSweep \cup {"reuse"}
  /\ t.pc = "revoking" => t.kind \in {"refresh", "logout"} /\ t.token \in SessionId
  /\ t.kind = "refresh" /\ t.pc = "claimed" => t.locks = {t.token}
  /\ t.kind \in {"login", "otp"} => t.locks = {}
  /\ t.locks # {} => t.pc \in {"claimed", "sweeping", "settling"}
  /\ t.covers # {} => t.pc \in {"sweeping", "settling"} /\ t.kind # "login"
  /\ t.todo # {} => t.pc = "sweeping"
  /\ t.pc = "reading" =>
       t.kind \in UserSweep \/ (t.kind = "reuse" /\ t.token \in SessionId)

Shaped == \A r \in Request : Shape(txn[r])

OthersKeep(r) == \A q \in Request \ {r} : txn'[q] = txn[q]

LEMMA StepEffect ==
  ASSUME Typed, NEW r \in Request, NEW t, Step(r, t)
  PROVE  txn'[r] = t /\ OthersKeep(r) /\ (t \in Open => txn' \in [Request -> Open])
BY DEF Typed, Step, OthersKeep

LEMMA NoTxnShape == Shape(NoTxn)
BY DEF Shape, NoTxn, UserSweep

\* A sweep of the user that has read token_version.
HasVersion(t) ==
  t.kind \in UserSweep /\ (t.kind = "logout_all" => t.pc = "settling")

\* A rotation of a one-time token that will commit.
Spends(t, o) == t.pc = "claimed" /\ t.kind = "otp" /\ t.token = o

\* A step that changes one transaction and no row: it locks rows that are
\* free and unrevoked, takes a fresh id, claims a token that is fresh and
\* free, and has the token_version it read.
Local(r) ==
  /\ UNCHANGED <<sess, otp, user, origin, access, retired, crossed>>
  /\ OthersKeep(r)
  /\ txn' \in [Request -> Open]
  /\ Shape(txn'[r])
  /\ \A s \in txn'[r].locks :
       s \in txn[r].locks \/ (Unrevoked(s) /\ ~LockedByOther(r, s))
  /\ txn'[r].succ \in {None, txn[r].succ} \cup FreshId
  /\ \A o \in Otp : Spends(txn'[r], o) => otp[o] = "fresh" /\ ~OtpLocked(o)
  /\ HasVersion(txn'[r]) =>
       \/ txn'[r].tv = user.tv
       \/ HasVersion(txn[r]) /\ txn'[r].tv = txn[r].tv

LEMMA MoveLocal ==
  ASSUME Typed, NEW r \in Request, NEW n \in Open, Step(r, n), Shape(n),
         \A s \in n.locks :
           s \in txn[r].locks \/ (Unrevoked(s) /\ ~LockedByOther(r, s)),
         n.succ \in {None, txn[r].succ} \cup FreshId,
         \A o \in Otp : Spends(n, o) => otp[o] = "fresh" /\ ~OtpLocked(o),
         HasVersion(n) => n.tv = user.tv \/ (HasVersion(txn[r]) /\ n.tv = txn[r].tv),
         UNCHANGED <<sess, otp, user, origin, access, retired, crossed>>
  PROVE  Local(r)
<1>1. txn'[r] = n /\ OthersKeep(r) /\ txn' \in [Request -> Open]
  BY StepEffect
<1>2. QED
  BY <1>1 DEF Local

LEMMA LoginLocal ==
  ASSUME Typed, NEW r \in Request, Login(r)
  PROVE  Local(r)
<1> PICK s \in FreshId :
       Step(r, [NoTxn EXCEPT !.pc = "settling", !.kind = "login",
                             !.succ = s, !.tv = user.tv])
  BY DEF Login
<1> DEFINE n == [NoTxn EXCEPT !.pc = "settling", !.kind = "login",
                              !.succ = s, !.tv = user.tv]
<1>1. s \in SessionId
  BY DEF FreshId
<1>2. n \in Open
  BY <1>1, NewTxn DEF Typed, Pc, Kind
<1>3. n.pc = "settling" /\ n.kind = "login" /\ n.succ = s /\ n.locks = {}
      /\ n.covers = {} /\ n.todo = {}
  BY DEF NoTxn
<1>4. Step(r, n) /\ UNCHANGED <<sess, otp, user, origin, access, retired, crossed>>
  BY DEF Login, tables, history
<1> HIDE DEF n
<1>5. Shape(n) /\ ~HasVersion(n) /\ \A o \in Otp : ~Spends(n, o)
  BY <1>1, <1>3 DEF Shape, HasVersion, Spends, UserSweep
<1>6. QED
  BY <1>2, <1>3, <1>4, <1>5, MoveLocal

LEMMA OtpPresentLocal ==
  ASSUME Typed, NEW r \in Request, NEW o \in Otp, OtpPresent(r, o)
  PROVE  Local(r)
<1> DEFINE n == [NoTxn EXCEPT !.pc = "presented", !.kind = "otp", !.token = o]
<1>1. n \in Open
  BY NewTxn DEF Pc, Kind
<1>2. /\ n.pc = "presented" /\ n.kind = "otp" /\ n.token = o /\ n.succ = None
      /\ n.locks = {} /\ n.covers = {} /\ n.todo = {}
  BY DEF NoTxn
<1>3. Step(r, n) /\ UNCHANGED <<sess, otp, user, origin, access, retired, crossed>>
  BY DEF OtpPresent, tables, history
<1> HIDE DEF n
<1>4. Shape(n) /\ ~HasVersion(n) /\ \A p \in Otp : ~Spends(n, p)
  BY <1>2 DEF Shape, HasVersion, Spends, UserSweep
<1>5. QED
  BY <1>1, <1>2, <1>3, <1>4, MoveLocal

\* A transaction that ends leaves nothing behind.
LEMMA EndLocal ==
  ASSUME Typed, NEW r \in Request, Step(r, NoTxn),
         UNCHANGED <<sess, otp, user, origin, access, retired, crossed>>
  PROVE  Local(r)
<1>1. NoTxn.locks = {} /\ NoTxn.succ = None
  BY DEF NoTxn
<1>2. ~HasVersion(NoTxn) /\ \A o \in Otp : ~Spends(NoTxn, o)
  BY DEF NoTxn, HasVersion, Spends, UserSweep
<1>3. QED
  BY <1>1, <1>2, NewTxn, NoTxnShape, MoveLocal

\* Only the program counter moves, or the token version is read.
LEMMA PcLocal ==
  ASSUME Typed, Shaped, NEW r \in Request, NEW n \in Open, Step(r, n),
         txn[r].pc = "presented", n.pc \in {"authorized", "revoking"},
         n.pc = "revoking" => n.kind = "refresh",
         n.kind = txn[r].kind, n.token = txn[r].token, n.succ = txn[r].succ,
         n.locks = txn[r].locks, n.covers = txn[r].covers, n.todo = txn[r].todo,
         n.tv \in {txn[r].tv, user.tv},
         UNCHANGED <<sess, otp, user, origin, access, retired, crossed>>
  PROVE  Local(r)
<1>1. Shape(n)
  BY DEF Shape, Shaped
<1>2. HasVersion(n) => n.tv = user.tv \/ (HasVersion(txn[r]) /\ n.tv = txn[r].tv)
  BY DEF HasVersion
<1>3. \A o \in Otp : ~Spends(n, o)
  BY DEF Spends
<1>4. QED
  BY <1>1, <1>2, <1>3, MoveLocal

LEMMA ReadUserLocal ==
  ASSUME Typed, Shaped, NEW r \in Request, ReadUser(r)
  PROVE  Local(r)
<1> DEFINE t == txn[r]
<1>1. t \in Open /\ user.tv \in Nat
  BY DEF Typed
<1>2. /\ t.pc = "presented"
      /\ UNCHANGED <<sess, otp, user, origin, access, retired, crossed>>
  BY DEF ReadUser, tables, history
<1>3. CASE Step(r, [t EXCEPT !.pc = "authorized", !.tv = user.tv])
  <2> DEFINE n == [t EXCEPT !.pc = "authorized", !.tv = user.tv]
  <2>1. n \in Open
    BY <1>1, SetTv DEF Pc
  <2>2. n.pc = "authorized" /\ n.kind = t.kind /\ n.token = t.token
        /\ n.succ = t.succ /\ n.locks = t.locks /\ n.covers = t.covers
        /\ n.todo = t.todo /\ n.tv = user.tv
    BY <1>1 DEF Open
  <2>3. Step(r, n)
    BY <1>3
  <2> HIDE DEF n
  <2>4. QED
    BY <1>2, <2>1, <2>2, <2>3, PcLocal
<1>4. CASE t.kind = "refresh" /\ Step(r, [t EXCEPT !.pc = "revoking"])
  <2> DEFINE n == [t EXCEPT !.pc = "revoking"]
  <2>1. n \in Open
    BY <1>1, SetPc DEF Pc
  <2>2. n.pc = "revoking" /\ n.kind = t.kind /\ n.token = t.token
        /\ n.succ = t.succ /\ n.locks = t.locks /\ n.covers = t.covers
        /\ n.todo = t.todo /\ n.tv = t.tv
    BY <1>1 DEF Open
  <2>3. Step(r, n)
    BY <1>4
  <2> HIDE DEF n
  <2>4. QED
    BY <1>2, <1>4, <2>1, <2>2, <2>3, PcLocal
<1>5. CASE Step(r, NoTxn)
  BY <1>2, <1>5, EndLocal
<1>6. QED
  BY <1>3, <1>4, <1>5 DEF ReadUser

LEMMA PresentLocal ==
  ASSUME Typed, NEW r \in Request, NEW s \in SessionId,
         Present(r, s) \/ Logout(r, s)
  PROVE  Local(r)
<1>1. PICK pc \in {"presented", "revoking", "reading"},
            kind \in {"refresh", "reuse", "logout"} :
         /\ pc = "revoking" => kind \in {"refresh", "logout"}
         /\ pc = "reading" => kind = "reuse"
         /\ Step(r, [NoTxn EXCEPT !.pc = pc, !.kind = kind, !.token = s])
  BY DEF Present, Logout, NoTxn
<1> DEFINE n == [NoTxn EXCEPT !.pc = pc, !.kind = kind, !.token = s]
<1>2. n \in Open
  BY NewTxn DEF Pc, Kind
<1>3. /\ n.pc = pc /\ n.kind = kind /\ n.token = s /\ n.succ = None
      /\ n.locks = {} /\ n.covers = {} /\ n.todo = {}
  BY DEF NoTxn
<1>4. Step(r, n) /\ UNCHANGED <<sess, otp, user, origin, access, retired, crossed>>
  BY <1>1 DEF Present, Logout, tables, history
<1> HIDE DEF n
<1>5. Shape(n) /\ ~HasVersion(n) /\ \A o \in Otp : ~Spends(n, o)
  BY <1>1, <1>3 DEF Shape, HasVersion, Spends, UserSweep
<1>6. QED
  BY <1>2, <1>3, <1>4, <1>5, MoveLocal

LEMMA OtpClaimLocal ==
  ASSUME Typed, Shaped, NEW r \in Request, OtpClaim(r)
  PROVE  Local(r)
<1> DEFINE t == txn[r]
<1>1. /\ t \in Open /\ t.pc = "authorized" /\ t.kind = "otp" /\ ~OtpLocked(t.token)
      /\ UNCHANGED <<sess, otp, user, origin, access, retired, crossed>>
  BY DEF OtpClaim, Typed, tables, history
<1>2. CASE Step(r, NoTxn)
  BY <1>1, <1>2, EndLocal
<1>3. CASE otp[t.token] = "fresh" /\ \E s \in FreshId :
             Step(r, [t EXCEPT !.pc = "claimed", !.succ = s])
  <2>1. PICK s \in FreshId : Step(r, [t EXCEPT !.pc = "claimed", !.succ = s])
    BY <1>3
  <2>2. s \in SessionId
    BY DEF FreshId
  <2> DEFINE n == [t EXCEPT !.pc = "claimed", !.succ = s]
  <2>3. n \in Open
    BY <1>1, <2>2, SetSucc DEF Pc
  <2>4. n.pc = "claimed" /\ n.kind = "otp" /\ n.token = t.token /\ n.succ = s
        /\ n.locks = t.locks /\ n.covers = t.covers /\ n.todo = t.todo
    BY <1>1 DEF Open
  <2>5. Step(r, n)
    BY <2>1
  <2> HIDE DEF n
  <2>6. Shape(n) /\ ~HasVersion(n)
    BY <1>1, <2>2, <2>4 DEF Shape, Shaped, HasVersion, UserSweep
  <2>7. \A o \in Otp : Spends(n, o) => otp[o] = "fresh" /\ ~OtpLocked(o)
    BY <1>1, <1>3, <2>4 DEF Spends
  <2>8. QED
    BY <1>1, <2>3, <2>4, <2>5, <2>6, <2>7, MoveLocal
<1>4. QED
  BY <1>2, <1>3 DEF OtpClaim, OtpClaimable

LEMMA ClaimLocal ==
  ASSUME Typed, Shaped, NEW r \in Request, Claim(r)
  PROVE  Local(r)
<1> DEFINE t == txn[r]
<1>1. /\ t \in Open /\ t.pc = "authorized" /\ t.kind = "refresh"
      /\ ~LockedByOther(r, t.token)
      /\ UNCHANGED <<sess, otp, user, origin, access, retired, crossed>>
  BY DEF Claim, Typed, tables
<1>2. CASE Step(r, NoTxn)
  BY <1>1, <1>2, EndLocal
<1>3. CASE Revocable(t.token) /\ \E s \in FreshId :
             Step(r, [t EXCEPT !.pc = "claimed", !.succ = s, !.locks = {t.token}])
  <2>1. PICK s \in FreshId :
           Step(r, [t EXCEPT !.pc = "claimed", !.succ = s, !.locks = {t.token}])
    BY <1>3
  <2>2. s \in SessionId /\ t.token \in SessionId
    BY <1>1 DEF FreshId, Shaped, Shape
  <2> DEFINE n == [t EXCEPT !.pc = "claimed", !.succ = s, !.locks = {t.token}]
  <2>3. n \in Open
    BY <1>1, <2>2, SetClaim DEF Pc
  <2>4. n.pc = "claimed" /\ n.kind = "refresh" /\ n.token = t.token /\ n.succ = s
        /\ n.locks = {t.token} /\ n.covers = t.covers /\ n.todo = t.todo
    BY <1>1 DEF Open
  <2>5. Step(r, n)
    BY <2>1
  <2> HIDE DEF n
  <2>6. Shape(n) /\ ~HasVersion(n) /\ \A o \in Otp : ~Spends(n, o)
    BY <1>1, <2>2, <2>4 DEF Shape, Shaped, HasVersion, UserSweep, Spends
  <2>7. \A x \in n.locks : Unrevoked(x) /\ ~LockedByOther(r, x)
    BY <1>1, <1>3, <2>4 DEF Revocable
  <2>8. QED
    BY <1>1, <2>3, <2>4, <2>5, <2>6, <2>7, MoveLocal
<1>4. QED
  BY <1>2, <1>3 DEF Claim

LEMMA RevokeOneLocal ==
  ASSUME Typed, Shaped, NEW r \in Request, RevokeOne(r), txn[r].token \in SessionId
  PROVE  Local(r)
<1> DEFINE t == txn[r]
<1>1. /\ t \in Open /\ t.pc = "revoking" /\ ~LockedByOther(r, t.token)
      /\ UNCHANGED <<sess, otp, user, origin, access, retired, crossed>>
  BY DEF RevokeOne, Typed, tables, history
<1>2. CASE Step(r, NoTxn)
  BY <1>1, <1>2, EndLocal
<1>3. CASE Revocable(t.token)
           /\ Step(r, [t EXCEPT !.pc = "settling", !.locks = {t.token}])
  <2> DEFINE n == [t EXCEPT !.pc = "settling", !.locks = {t.token}]
  <2>1. n \in Open
    BY <1>1, SetLocks DEF Pc
  <2>2. n.pc = "settling" /\ n.kind = t.kind /\ n.token = t.token
        /\ n.succ = t.succ /\ n.locks = {t.token} /\ n.covers = t.covers
        /\ n.todo = t.todo
    BY <1>1 DEF Open
  <2>3. Step(r, n)
    BY <1>3
  <2> HIDE DEF n
  <2>4. t.kind \in {"refresh", "logout"}
    BY <1>1 DEF Shaped, Shape
  <2>5. Shape(n) /\ ~HasVersion(n) /\ \A o \in Otp : ~Spends(n, o)
    BY <1>1, <2>2, <2>4 DEF Shape, Shaped, HasVersion, UserSweep, Spends
  <2>6. \A x \in n.locks : Unrevoked(x) /\ ~LockedByOther(r, x)
    BY <1>1, <1>3, <2>2 DEF Revocable
  <2>7. QED
    BY <1>1, <2>1, <2>2, <2>3, <2>5, <2>6, MoveLocal
<1>4. QED
  BY <1>2, <1>3 DEF RevokeOne

LEMMA BeginSweepLocal ==
  ASSUME Typed, NEW r \in Request, NEW kind \in UserSweep, BeginSweep(r, kind)
  PROVE  Local(r)
<1> DEFINE n == [NoTxn EXCEPT !.pc = "reading", !.kind = kind, !.tv = user.tv]
<1>1. n \in Open
  BY NewTxn DEF Pc, Kind, Typed
<1>2. n.pc = "reading" /\ n.kind = kind /\ n.succ = None /\ n.tv = user.tv
      /\ n.locks = {} /\ n.covers = {} /\ n.todo = {}
  BY DEF NoTxn
<1>3. Step(r, n) /\ UNCHANGED <<sess, otp, user, origin, access, retired, crossed>>
  BY DEF BeginSweep, tables, history
<1> HIDE DEF n
<1>4. Shape(n) /\ \A o \in Otp : ~Spends(n, o)
  BY <1>2 DEF Shape, Spends, UserSweep
<1>5. QED
  BY <1>1, <1>2, <1>3, <1>4, MoveLocal

\* What a sweep will revoke, and the families it covers.
LEMMA SweepSets ==
  ASSUME NEW r \in Request, NEW kind, Typed,
         kind = "reuse" => txn[r].token \in SessionId
  PROVE  /\ Scope(r, kind) \in SUBSET SessionId
         /\ Covered(r, kind) \in SUBSET (SessionId \cup {None})
<1>1. \A s \in SessionId : sess[s].family \in SessionId \cup {None}
  BY DEF Typed, Session
<1>2. QED
  BY <1>1 DEF Scope, Covered

LEMMA SweepLocal ==
  ASSUME Typed, Shaped, NEW r \in Request, Sweep(r),
         NEW todo \in SUBSET SessionId, NEW covers \in SUBSET (SessionId \cup {None}),
         todo = Scope(r, txn[r].kind), covers = Covered(r, txn[r].kind)
  PROVE  Local(r)
<1> DEFINE t == txn[r]
           n == [t EXCEPT !.pc = "sweeping", !.todo = todo, !.covers = covers]
<1>1. /\ t \in Open /\ t.pc = "reading"
      /\ UNCHANGED <<sess, otp, user, origin, access, retired, crossed>>
  BY DEF Sweep, Typed, tables
<1>2. n \in Open
  BY <1>1, SetSweep DEF Pc
<1>3. n.pc = "sweeping" /\ n.kind = t.kind /\ n.token = t.token /\ n.tv = t.tv
      /\ n.succ = t.succ /\ n.locks = t.locks /\ n.covers = covers /\ n.todo = todo
  BY <1>1 DEF Open
<1>4. Step(r, n)
  BY DEF Sweep
<1> HIDE DEF n
<1>5. Shape(n) /\ \A o \in Otp : ~Spends(n, o)
  BY <1>1, <1>3 DEF Shape, Shaped, Spends, UserSweep
<1>6. HasVersion(n) => HasVersion(t) /\ n.tv = t.tv
  BY <1>1, <1>3 DEF HasVersion
<1>7. QED
  BY <1>1, <1>2, <1>3, <1>4, <1>5, <1>6, MoveLocal

LEMMA LogoutAllLocal ==
  ASSUME Typed, NEW r \in Request, LogoutAll(r),
         NEW todo \in SUBSET SessionId, NEW covers \in SUBSET (SessionId \cup {None}),
         todo = Scope(r, "logout_all"), covers = Covered(r, "logout_all")
  PROVE  Local(r)
<1> DEFINE n == [NoTxn EXCEPT !.pc = "sweeping", !.kind = "logout_all",
                              !.todo = todo, !.covers = covers]
<1>1. n \in Open
  BY NewTxn DEF Pc, Kind, UserSweep
<1>2. n.pc = "sweeping" /\ n.kind = "logout_all" /\ n.succ = None
      /\ n.locks = {} /\ n.covers = covers /\ n.todo = todo
  BY DEF NoTxn
<1>3. Step(r, n) /\ UNCHANGED <<sess, otp, user, origin, access, retired, crossed>>
  BY DEF LogoutAll, tables
<1> HIDE DEF n
<1>4. Shape(n) /\ ~HasVersion(n) /\ \A o \in Otp : ~Spends(n, o)
  BY <1>2 DEF Shape, Spends, HasVersion, UserSweep
<1>5. QED
  BY <1>1, <1>2, <1>3, <1>4, MoveLocal

LEMMA SweepRowLocal ==
  ASSUME Typed, Shaped, NEW r \in Request, NEW s \in SessionId, SweepRow(r, s)
  PROVE  Local(r)
<1> DEFINE t == txn[r]
           locks == IF Revocable(s) THEN t.locks \cup {s} ELSE t.locks
           n == [t EXCEPT !.todo = t.todo \ {s}, !.locks = locks]
<1>1. /\ t \in Open /\ t.pc = "sweeping" /\ s \in t.todo /\ ~LockedByOther(r, s)
      /\ UNCHANGED <<sess, otp, user, origin, access, retired, crossed>>
  BY DEF SweepRow, Typed, tables, history
<1>2. t.todo \in SUBSET SessionId /\ t.locks \in SUBSET SessionId
  BY <1>1 DEF Open
<1>3. n \in Open
  BY <1>1, <1>2, SetRow
<1>4. n.pc = t.pc /\ n.kind = t.kind /\ n.token = t.token /\ n.tv = t.tv
      /\ n.succ = t.succ /\ n.locks = locks /\ n.covers = t.covers
      /\ n.todo = t.todo \ {s}
  BY <1>1 DEF Open
<1>5. Step(r, n)
  BY DEF SweepRow
<1> HIDE DEF n
<1>6. t.kind \notin {"login", "otp"}
  BY <1>1 DEF Shaped, Shape, UserSweep
<1>7. Shape(n) /\ \A o \in Otp : ~Spends(n, o)
  BY <1>1, <1>4, <1>6 DEF Shape, Shaped, Spends
<1>8. \A x \in n.locks : x \in t.locks \/ (Unrevoked(x) /\ ~LockedByOther(r, x))
  BY <1>1, <1>4 DEF Revocable
<1>9. HasVersion(n) => HasVersion(t) /\ n.tv = t.tv
  BY <1>1, <1>4 DEF HasVersion
<1>10. QED
  BY <1>1, <1>3, <1>4, <1>5, <1>7, <1>8, <1>9, MoveLocal

LEMMA SweepEndsLocal ==
  ASSUME Typed, Shaped, NEW r \in Request, SweepEnds(r)
  PROVE  Local(r)
<1> DEFINE t == txn[r]
           tv == IF t.kind = "logout_all" THEN user.tv ELSE t.tv
           n == [t EXCEPT !.pc = "settling", !.tv = tv]
<1>1. /\ t \in Open /\ t.pc = "sweeping" /\ t.todo = {} /\ user.tv \in Nat
      /\ UNCHANGED <<sess, otp, user, origin, access, retired, crossed>>
  BY DEF SweepEnds, Typed, tables, history
<1>2. tv \in Nat
  BY <1>1 DEF Open
<1>3. n \in Open
  BY <1>1, <1>2, SetTv DEF Pc
<1>4. n.pc = "settling" /\ n.kind = t.kind /\ n.token = t.token /\ n.tv = tv
      /\ n.succ = t.succ /\ n.locks = t.locks /\ n.covers = t.covers
      /\ n.todo = t.todo
  BY <1>1 DEF Open
<1>5. Step(r, n)
  BY DEF SweepEnds
<1> HIDE DEF n
<1>6. t.kind \notin {"login", "otp"}
  BY <1>1 DEF Shaped, Shape, UserSweep
<1>7. Shape(n) /\ \A o \in Otp : ~Spends(n, o)
  BY <1>1, <1>4, <1>6 DEF Shape, Shaped, Spends
<1>8. HasVersion(n) => n.tv = user.tv \/ (HasVersion(t) /\ n.tv = t.tv)
  BY <1>4 DEF HasVersion
<1>9. QED
  BY <1>1, <1>3, <1>4, <1>5, <1>7, <1>8, MoveLocal

-----------------------------------------------------------------------------
(* What the transactions may assume of one another.                        *)

\* Rows locked by open transactions are unrevoked, and no row is locked twice.
LocksApart ==
  /\ \A r \in Request, s \in SessionId : s \in txn[r].locks => Unrevoked(s)
  /\ \A r, q \in Request, s \in SessionId :
       s \in txn[r].locks /\ s \in txn[q].locks => r = q

\* The ids open transactions will use are free and different.
IdsApart ==
  /\ \A r \in Request : txn[r].succ # None => ~Exists(txn[r].succ)
  /\ \A r, q \in Request : txn[r].succ # None /\ txn[r].succ = txn[q].succ => r = q

\* A session that exists has a family, named by a session that exists.
FamiliesExist ==
  \A s \in SessionId :
    Exists(s) => sess[s].family \in SessionId /\ Exists(sess[s].family)

\* A one-time token that will be spent is fresh, and one transaction spends it.
SpendsApart ==
  /\ \A r \in Request, o \in Otp : Spends(txn[r], o) => otp[o] = "fresh"
  /\ \A r, q \in Request, o \in Otp : Spends(txn[r], o) /\ Spends(txn[q], o) => r = q

\* What a session was granted for is spent.
OriginSpent ==
  /\ \A s \in SessionId : ~Exists(s) => origin[s] = None
  /\ \A s \in SessionId :
       origin[s] \in SessionId => sess[origin[s]].state = "revoked"
  /\ \A s \in SessionId : origin[s] \in Otp => otp[origin[s]] = "used"

\* Unless sweeps crossed, the versions ended are past, and every sweep that has
\* read token_version has read the current one.
Versions ==
  ~crossed =>
    /\ \A v \in retired : v < user.tv
    /\ \A r \in Request : HasVersion(txn[r]) => txn[r].tv = user.tv

Core ==
  /\ Typed /\ Shaped
  /\ LocksApart /\ IdsApart /\ FamiliesExist /\ OneLivePerFamily
  /\ SpendsApart /\ OriginSpent /\ SpentOnce
  /\ Versions

LEMMA InitCore ==
  ASSUME SessionsAssumption, Init
  PROVE  Core
<1>1. Typed
  BY NewTxn DEF Init, Typed, NoSession, Session
<1>2. Shaped
  BY NoTxnShape DEF Init, Shaped
<1>3. \A s \in SessionId : ~Exists(s) /\ ~Unrevoked(s) /\ origin[s] = None
  BY DEF Init, Exists, Unrevoked, NoSession
<1>4. \A r \in Request : /\ txn[r].locks = {} /\ txn[r].succ = None
                         /\ ~HasVersion(txn[r])
                         /\ \A o \in Otp : ~Spends(txn[r], o)
  BY DEF Init, NoTxn, HasVersion, Spends, UserSweep
<1>5. OriginSpent /\ SpentOnce
  BY <1>3 DEF OriginSpent, SpentOnce, SessionsAssumption
<1>6. Versions
  BY <1>4 DEF Init, Versions
<1>7. QED
  BY <1>1, <1>2, <1>3, <1>4, <1>5, <1>6
     DEF Core, LocksApart, IdsApart, FamiliesExist, OneLivePerFamily, SpendsApart

LEMMA LocalTyped ==
  ASSUME Core, NEW r \in Request, Local(r)
  PROVE  Typed' /\ Shaped'
<1>1. \A q \in Request : Shape(txn'[q])
  BY DEF Core, Local, OthersKeep, Shaped
<1>2. QED
  BY <1>1 DEF Core, Typed, Local, Shaped

LEMMA LocalLocks ==
  ASSUME Core, NEW r \in Request, Local(r)
  PROVE  LocksApart'
<1>1. \A q \in Request \ {r} : txn'[q] = txn[q]
  BY DEF Local, OthersKeep
<1>2. \A s \in txn'[r].locks :
        s \in txn[r].locks \/ (Unrevoked(s) /\ ~LockedByOther(r, s))
  BY DEF Local
<1>3. \A s \in SessionId : Unrevoked(s)' <=> Unrevoked(s)
  BY DEF Local, Unrevoked
<1>4. \A q \in Request \ {r}, s \in SessionId :
        ~(s \in txn'[r].locks /\ s \in txn[q].locks)
  BY <1>2 DEF Core, LocksApart, LockedByOther
<1>5. \A q \in Request, s \in SessionId : s \in txn'[q].locks => Unrevoked(s)
  BY <1>1, <1>2 DEF Core, LocksApart
<1>6. \A q, p \in Request, s \in SessionId :
        s \in txn'[q].locks /\ s \in txn'[p].locks => q = p
  BY <1>1, <1>4 DEF Core, LocksApart
<1>7. QED
  BY <1>3, <1>5, <1>6 DEF LocksApart

LEMMA LocalIds ==
  ASSUME Core, NEW r \in Request, Local(r)
  PROVE  IdsApart'
<1>1. \A q \in Request \ {r} : txn'[q] = txn[q]
  BY DEF Local, OthersKeep
<1>2. txn'[r].succ \in {None, txn[r].succ} \cup FreshId
  BY DEF Local
<1>3. \A s : Exists(s)' <=> Exists(s)
  BY DEF Local, Exists
<1>4. txn'[r].succ # None => ~Exists(txn'[r].succ)
  BY <1>2 DEF Core, IdsApart, FreshId
<1>5. \A q \in Request \ {r} :
        txn'[r].succ # None => txn'[r].succ # txn[q].succ
  BY <1>2 DEF Core, IdsApart, FreshId
<1>6. \A q \in Request : txn'[q].succ # None => ~Exists(txn'[q].succ)
  BY <1>1, <1>4 DEF Core, IdsApart
<1>7. \A q, p \in Request : txn'[q].succ # None /\ txn'[q].succ = txn'[p].succ => q = p
  BY <1>1, <1>5 DEF Core, IdsApart
<1>8. QED
  BY <1>3, <1>6, <1>7 DEF IdsApart

LEMMA LocalCore ==
  ASSUME Core, NEW r \in Request, Local(r)
  PROVE  Core'
<1>1. \A q \in Request \ {r} : txn'[q] = txn[q]
  BY DEF Local, OthersKeep
<1>2. UNCHANGED <<sess, otp, user, origin, access, retired, crossed>>
  BY DEF Local
<1>3. FamiliesExist' /\ OneLivePerFamily' /\ OriginSpent' /\ SpentOnce'
  BY <1>2 DEF Core, FamiliesExist, OneLivePerFamily, OriginSpent, SpentOnce,
              Exists, Unrevoked
<1>4. SpendsApart'
  <2>1. \A o \in Otp : Spends(txn'[r], o) => otp[o] = "fresh" /\ ~OtpLocked(o)
    BY DEF Local
  <2>2. \A q \in Request, o \in Otp : Spends(txn[q], o) => OtpLocked(o)
    BY DEF Spends, OtpLocked
  <2>3. \A q \in Request, o \in Otp : Spends(txn'[q], o) => otp[o] = "fresh"
    BY <1>1, <2>1 DEF Core, SpendsApart
  <2>4. \A q, p \in Request, o \in Otp :
          Spends(txn'[q], o) /\ Spends(txn'[p], o) => q = p
    BY <1>1, <2>1, <2>2 DEF Core, SpendsApart
  <2>5. \A o : otp'[o] = otp[o]
    BY <1>2
  <2>6. QED
    BY <2>3, <2>4, <2>5 DEF SpendsApart, Spends
<1>5. Versions'
  <2>1. SUFFICES ASSUME ~crossed
                 PROVE  /\ \A v \in retired : v < user.tv
                        /\ \A q \in Request : HasVersion(txn'[q]) => txn'[q].tv = user.tv
    BY <1>2 DEF Versions, HasVersion
  <2>2. HasVersion(txn'[r]) =>
          txn'[r].tv = user.tv \/ (HasVersion(txn[r]) /\ txn'[r].tv = txn[r].tv)
    BY DEF Local
  <2>3. QED
    BY <1>1, <2>1, <2>2 DEF Core, Versions
<1>6. QED
  BY <1>3, <1>4, <1>5, LocalTyped, LocalLocks, LocalIds DEF Core

-----------------------------------------------------------------------------
(* The steps that write rows.                                              *)

LEMMA GrantRows ==
  ASSUME Core, NEW r \in Request, CommitGrant(r)
  PROVE  /\ txn[r].succ \in SessionId /\ ~Exists(txn[r].succ)
         /\ txn[r].succ \notin txn[r].locks
         /\ sess'[txn[r].succ] =
              [state |-> "live", family |-> FamilyOf(r), replaced |-> None]
         /\ \A s \in txn[r].locks :
              sess'[s] = [sess[s] EXCEPT !.state = "revoked",
                                         !.replaced = txn[r].succ]
         /\ \A s \in SessionId :
              s # txn[r].succ /\ s \notin txn[r].locks => sess'[s] = sess[s]
         /\ sess' = [s \in SessionId |-> sess'[s]]
<1> DEFINE t == txn[r]
<1>1. t \in Open /\ Shape(t)
  BY DEF Core, Typed, Shaped
<1>2. t.locks \in SUBSET SessionId
  BY <1>1 DEF Open
<1>3. t.succ \in SessionId
  BY <1>1 DEF CommitGrant, Shape
<1>4. t.succ # None
  BY <1>3, SessionsAssumption DEF SessionsAssumption
<1>5. ~Exists(t.succ)
  BY <1>4 DEF Core, IdsApart
<1>6. \A s \in t.locks : Unrevoked(s)
  BY <1>2 DEF Core, LocksApart
<1>7. t.succ \notin t.locks
  BY <1>5, <1>6 DEF Exists, Unrevoked
<1> DEFINE new == [state |-> "live", family |-> FamilyOf(r), replaced |-> None]
           old(s) == [sess[s] EXCEPT !.state = "revoked", !.replaced = t.succ]
<1>8. sess' = [s \in SessionId |->
        CASE s = t.succ -> new [] s \in t.locks -> old(s) [] OTHER -> sess[s]]
  BY DEF CommitGrant
<1> HIDE DEF t, new, old
<1>9. sess'[t.succ] = new
  <2>1. \A s \in SessionId : s = t.succ => sess'[s] = new
    BY <1>7, <1>8
  <2>2. QED
    BY <1>3, <2>1
<1>10. \A s \in t.locks : sess'[s] = old(s)
  BY <1>2, <1>7, <1>8
<1>11. \A s \in SessionId : s # t.succ /\ s \notin t.locks => sess'[s] = sess[s]
  BY <1>8
<1>12. sess' = [s \in SessionId |-> sess'[s]]
  BY <1>8
<1>13. QED
  BY <1>3, <1>5, <1>7, <1>9, <1>10, <1>11, <1>12 DEF t, new, old

\* The family of the session that is granted: that of the token it replaces,
\* or its own.
LEMMA GrantFamily ==
  ASSUME Core, NEW r \in Request, CommitGrant(r)
  PROVE  \/ /\ txn[r].kind = "refresh" /\ txn[r].token \in SessionId
            /\ txn[r].locks = {txn[r].token} /\ Unrevoked(txn[r].token)
            /\ FamilyOf(r) = sess[txn[r].token].family
         \/ /\ txn[r].kind \in {"otp", "login"} /\ txn[r].locks = {}
            /\ FamilyOf(r) = txn[r].succ
<1>1. Shape(txn[r]) /\ txn[r] \in Open
  BY DEF Core, Shaped, Typed
<1>2. CASE txn[r].kind = "refresh"
  <2>1. txn[r].pc = "claimed"
    BY <1>2 DEF CommitGrant
  <2>2. txn[r].token \in SessionId /\ txn[r].locks = {txn[r].token}
    BY <1>1, <1>2, <2>1 DEF Shape
  <2>3. Unrevoked(txn[r].token)
    BY <2>2 DEF Core, LocksApart
  <2>4. QED
    BY <1>2, <2>2, <2>3 DEF FamilyOf
<1>3. CASE txn[r].kind # "refresh"
  <2>1. txn[r].kind \in {"otp", "login"}
    BY <1>1, <1>3 DEF CommitGrant, Shape
  <2>2. QED
    BY <1>1, <1>3, <2>1 DEF Shape, FamilyOf
<1>4. QED
  BY <1>2, <1>3

\* A transaction is over, and its rows were written.
LEMMA EndTxn ==
  ASSUME Core, NEW r \in Request, Step(r, NoTxn)
  PROVE  /\ txn'[r] = NoTxn /\ txn' \in [Request -> Open]
         /\ \A q \in Request \ {r} : txn'[q] = txn[q]
         /\ Shaped'
         /\ \A q \in Request, o \in Otp :
              Spends(txn'[q], o) => q # r /\ Spends(txn[q], o)
         /\ \A q \in Request : HasVersion(txn'[q]) => q # r /\ HasVersion(txn[q])
         /\ \A q \in Request, s \in SessionId :
              s \in txn'[q].locks => q # r /\ s \in txn[q].locks
         /\ \A q \in Request :
              txn'[q].succ # None => q # r /\ txn'[q].succ = txn[q].succ
<1>1. txn'[r] = NoTxn /\ txn' \in [Request -> Open]
      /\ \A q \in Request \ {r} : txn'[q] = txn[q]
  BY NewTxn, StepEffect DEF Core, OthersKeep
<1>2. Shaped'
  BY <1>1, NoTxnShape DEF Core, Shaped
<1>3. NoTxn.locks = {} /\ NoTxn.succ = None /\ NoTxn.pc = "idle" /\ NoTxn.kind = "none"
  BY DEF NoTxn
<1>4. ~HasVersion(NoTxn) /\ \A o \in Otp : ~Spends(NoTxn, o)
  BY <1>3 DEF HasVersion, Spends, UserSweep
<1>5. \A q \in Request, o \in Otp : Spends(txn'[q], o) => q # r /\ Spends(txn[q], o)
  BY <1>1, <1>4
<1>6. \A q \in Request : HasVersion(txn'[q]) => q # r /\ HasVersion(txn[q])
  BY <1>1, <1>4
<1>7. \A q \in Request, s \in SessionId :
        s \in txn'[q].locks => q # r /\ s \in txn[q].locks
  BY <1>1, <1>3
<1>8. \A q \in Request : txn'[q].succ # None => q # r /\ txn'[q].succ = txn[q].succ
  BY <1>1, <1>3
<1>9. QED
  BY <1>1, <1>2, <1>5, <1>6, <1>7, <1>8

LEMMA GrantTyped ==
  ASSUME SessionsAssumption, Core, NEW r \in Request, CommitGrant(r)
  PROVE  Typed'
<1> DEFINE t == txn[r]
<1>1. t \in Open /\ Shape(t) /\ t.succ \in SessionId
  BY GrantRows DEF Core, Typed, Shaped
<1>2. FamilyOf(r) \in SessionId
  BY <1>1, GrantFamily DEF Core, FamiliesExist, Exists, Unrevoked
<1>3. sess' \in [SessionId -> Session]
  <2>1. \A s \in SessionId : sess'[s] \in Session
    <3> TAKE s \in SessionId
    <3>1. sess[s] \in Session
      BY DEF Core, Typed
    <3>2. [state |-> "live", family |-> FamilyOf(r), replaced |-> None] \in Session
      BY <1>2 DEF Session
    <3>3. [sess[s] EXCEPT !.state = "revoked", !.replaced = t.succ] \in Session
      BY <1>1, <3>1 DEF Session
    <3>4. QED
      BY <3>1, <3>2, <3>3, GrantRows
  <2>2. sess' = [s \in SessionId |-> sess'[s]]
    BY GrantRows
  <2>3. QED
    BY <2>1, <2>2
<1>4. otp' \in [Otp -> {"none", "fresh", "used"}]
  BY DEF CommitGrant, Core, Typed
<1>5. origin' \in [SessionId -> SessionId \cup Otp \cup {None, Password}]
  <2>1. t.token \in SessionId \cup Otp \cup {None}
    BY <1>1 DEF Open
  <2>2. QED
    BY <2>1 DEF CommitGrant, Core, Typed
<1>6. txn' \in [Request -> Open] /\ UNCHANGED <<user, retired>>
  BY EndTxn DEF CommitGrant
<1>7. QED
  BY <1>3, <1>4, <1>5, <1>6 DEF Core, Typed

LEMMA GrantStates ==
  ASSUME SessionsAssumption, Core, NEW r \in Request, CommitGrant(r)
  PROVE  /\ \A s \in SessionId : Unrevoked(s)' =>
              s = txn[r].succ \/ (s \notin txn[r].locks /\ Unrevoked(s))
         /\ \A s \in SessionId : Exists(s)' <=> s = txn[r].succ \/ Exists(s)
         /\ \A s \in SessionId :
              s # txn[r].succ => sess'[s].family = sess[s].family
         /\ \A s \in SessionId :
              sess[s].state = "revoked" \/ s \in txn[r].locks
                => sess'[s].state = "revoked"
         /\ \A s \in SessionId :
              Unrevoked(s) /\ s \notin txn[r].locks => Unrevoked(s)'
<1> DEFINE t == txn[r]
<1>1. \A s \in SessionId : sess[s] \in Session
  BY DEF Core, Typed
<1>2. \A s \in t.locks : /\ sess'[s].state = "revoked"
                         /\ sess'[s].family = sess[s].family
                         /\ s \in SessionId /\ Unrevoked(s)
  <2> TAKE s \in t.locks
  <2>1. s \in SessionId
    BY DEF Core, Typed, Open
  <2>2. Unrevoked(s)
    BY <2>1 DEF Core, LocksApart
  <2>3. sess'[s] = [sess[s] EXCEPT !.state = "revoked", !.replaced = t.succ]
    BY GrantRows
  <2>4. QED
    BY <1>1, <2>1, <2>2, <2>3 DEF Session
<1>3. sess'[t.succ].state = "live"
  <2>1. sess'[t.succ] =
          [state |-> "live", family |-> FamilyOf(r), replaced |-> None]
    BY GrantRows
  <2>2. QED
    BY <2>1
<1>4. \A s \in SessionId : s # t.succ /\ s \notin t.locks => sess'[s] = sess[s]
  BY GrantRows
<1>5. ~Exists(t.succ) /\ t.succ \notin t.locks
  BY GrantRows
<1> HIDE DEF t
<1>6. QED
  BY <1>2, <1>3, <1>4, <1>5 DEF t, Unrevoked, Exists

LEMMA GrantApart ==
  ASSUME SessionsAssumption, Core, NEW r \in Request, CommitGrant(r)
  PROVE  LocksApart' /\ IdsApart' /\ FamiliesExist'
<1> DEFINE t == txn[r]
<1>1. Step(r, NoTxn)
  BY DEF CommitGrant
<1>2. LocksApart'
  <2>1. \A q \in Request, s \in SessionId : s \in txn'[q].locks => Unrevoked(s)'
    <3> SUFFICES ASSUME NEW q \in Request, NEW s \in SessionId, s \in txn'[q].locks
                 PROVE  Unrevoked(s)'
      OBVIOUS
    <3>1. q # r /\ s \in txn[q].locks
      BY <1>1, EndTxn
    <3>2. Unrevoked(s) /\ s \notin t.locks
      BY <3>1 DEF Core, LocksApart
    <3>3. QED
      BY <3>2, GrantStates
  <2>2. \A q, p \in Request, s \in SessionId :
          s \in txn'[q].locks /\ s \in txn'[p].locks => q = p
    BY <1>1, EndTxn DEF Core, LocksApart
  <2>3. QED
    BY <2>1, <2>2 DEF LocksApart
<1>3. IdsApart'
  <2>1. \A q \in Request : txn'[q].succ # None => ~Exists(txn[q].succ)'
    <3> SUFFICES ASSUME NEW q \in Request, txn'[q].succ # None
                 PROVE  ~Exists(txn[q].succ)'
      OBVIOUS
    <3>1. q # r /\ txn'[q].succ = txn[q].succ
      BY <1>1, EndTxn
    <3>2. txn[q].succ \in SessionId /\ ~Exists(txn[q].succ)
      BY <3>1 DEF Core, Typed, Open, IdsApart
    <3>3. txn[q].succ # t.succ
      BY <3>1 DEF Core, IdsApart
    <3>4. sess'[txn[q].succ] = sess[txn[q].succ]
      BY <3>2, <3>3, GrantRows DEF Core, LocksApart, Exists, Unrevoked
    <3>5. QED
      BY <3>1, <3>2, <3>4 DEF Exists
  <2>2. \A q, p \in Request :
          txn'[q].succ # None /\ txn'[q].succ = txn'[p].succ => q = p
    BY <1>1, EndTxn DEF Core, IdsApart
  <2>3. QED
    BY <2>1, <2>2 DEF IdsApart
<1>4. FamiliesExist'
  <2>1. \A s \in SessionId : Exists(s)' <=> s = t.succ \/ Exists(s)
    BY GrantStates
  <2>2. t.succ \in SessionId
    BY GrantRows
  <2>3. sess'[t.succ].family = FamilyOf(r)
    <3>1. sess'[t.succ] =
            [state |-> "live", family |-> FamilyOf(r), replaced |-> None]
      BY GrantRows
    <3>2. QED
      BY <3>1
  <2>4. FamilyOf(r) = t.succ
          \/ \E x \in SessionId : Exists(x) /\ FamilyOf(r) = sess[x].family
    BY GrantFamily DEF Unrevoked, Exists
  <2>5. \A s \in SessionId : Exists(s) => sess[s].family \in SessionId /\ Exists(sess[s].family)
    BY DEF Core, FamiliesExist
  <2>6. \A s \in SessionId : s # t.succ => sess'[s].family = sess[s].family
    BY GrantStates
  <2>7. \A s \in SessionId : Exists(s)' =>
          \E f \in SessionId : sess'[s].family = f /\ Exists(f)'
    BY <2>1, <2>2, <2>3, <2>4, <2>5, <2>6
  <2>8. QED
    BY <2>7 DEF FamiliesExist, Exists
<1>5. QED
  BY <1>2, <1>3, <1>4

LEMMA GrantOneLive ==
  ASSUME SessionsAssumption, Core, NEW r \in Request, CommitGrant(r)
  PROVE  OneLivePerFamily'
<1> DEFINE t == txn[r]
<1>1. sess'[t.succ].family = FamilyOf(r)
  <2>1. sess'[t.succ] = [state |-> "live", family |-> FamilyOf(r), replaced |-> None]
    BY GrantRows
  <2>2. QED
    BY <2>1
<1>2. \A s \in SessionId :
        Unrevoked(s)' => s = t.succ \/ (s \notin t.locks /\ Unrevoked(s))
  BY GrantStates
<1>3. \A s \in SessionId : s # t.succ => sess'[s].family = sess[s].family
  BY GrantStates
<1>4. \A s1, s2 \in SessionId :
        Unrevoked(s1) /\ Unrevoked(s2) /\ sess[s1].family = sess[s2].family => s1 = s2
  BY DEF Core, OneLivePerFamily
\* Nothing else of the new session's family is unrevoked after the step.
<1>5. \A s \in SessionId :
        Unrevoked(s) /\ s \notin t.locks => sess[s].family # FamilyOf(r)
  <2> SUFFICES ASSUME NEW s \in SessionId, Unrevoked(s), s \notin t.locks
               PROVE  sess[s].family # FamilyOf(r)
    OBVIOUS
  <2>1. Exists(sess[s].family)
    BY DEF Core, FamiliesExist, Unrevoked, Exists
  <2>2. ~Exists(t.succ)
    BY GrantRows
  <2>3. QED
    BY <1>4, <2>1, <2>2, GrantFamily
<1>6. \A s1, s2 \in SessionId :
        Unrevoked(s1)' /\ Unrevoked(s2)' /\ sess'[s1].family = sess'[s2].family => s1 = s2
  BY <1>1, <1>2, <1>3, <1>4, <1>5
<1>7. QED
  BY <1>6 DEF OneLivePerFamily

LEMMA GrantSpent ==
  ASSUME SessionsAssumption, Core, NEW r \in Request, CommitGrant(r)
  PROVE  SpendsApart' /\ OriginSpent' /\ SpentOnce'
<1> DEFINE t == txn[r]
           new == IF t.kind = "login" THEN Password ELSE t.token
<1>1. t \in Open /\ Shape(t) /\ Step(r, NoTxn)
  BY DEF CommitGrant, Core, Typed, Shaped
<1>2. t.succ \in SessionId /\ ~Exists(t.succ)
  BY GrantRows
<1>3. origin \in [SessionId -> SessionId \cup Otp \cup {None, Password}]
      /\ otp \in [Otp -> {"none", "fresh", "used"}]
  BY DEF Core, Typed
<1>4. origin'[t.succ] = new /\ \A s \in SessionId : s # t.succ => origin'[s] = origin[s]
  BY <1>2, <1>3 DEF CommitGrant
<1>5. t.kind = "otp" => t.token \in Otp /\ Spends(t, t.token)
  BY <1>1 DEF CommitGrant, Shape, Spends
<1>6. \A o \in Otp : otp'[o] = IF t.kind = "otp" /\ o = t.token THEN "used" ELSE otp[o]
  BY <1>3, <1>5 DEF CommitGrant
<1>7. SpendsApart'
  <2>1. \A q \in Request, o \in Otp : Spends(txn'[q], o) => otp'[o] = "fresh"
    <3> SUFFICES ASSUME NEW q \in Request, NEW o \in Otp, Spends(txn'[q], o)
                 PROVE  otp'[o] = "fresh"
      OBVIOUS
    <3>1. q # r /\ Spends(txn[q], o)
      BY <1>1, EndTxn
    <3>2. otp[o] = "fresh" /\ ~Spends(t, o)
      BY <3>1 DEF Core, SpendsApart
    <3>3. QED
      BY <1>5, <1>6, <3>2
  <2>2. \A q, p \in Request, o \in Otp :
          Spends(txn'[q], o) /\ Spends(txn'[p], o) => q = p
    BY <1>1, EndTxn DEF Core, SpendsApart
  <2>3. QED
    BY <2>1, <2>2 DEF SpendsApart, Spends
\* The credential of the new session was not spent, and is now.
<1>8. new = Password \/ new \in SessionId \/ new \in Otp
  BY <1>1, <1>5, GrantFamily
<1>9. /\ new \in SessionId => sess[new].state # "revoked" /\ sess'[new].state = "revoked"
      /\ new \in Otp => otp[new] # "used" /\ otp'[new] = "used"
  <2>1. CASE t.kind = "refresh"
    <3>1. new = t.token /\ t.token \in SessionId /\ Unrevoked(t.token) /\ t.locks = {t.token}
      BY <2>1, GrantFamily
    <3>2. sess'[t.token].state = "revoked"
      BY <3>1, GrantStates
    <3>3. new \notin Otp
      BY <3>1 DEF SessionsAssumption
    <3>4. QED
      BY <3>1, <3>2, <3>3 DEF Unrevoked
  <2>2. CASE t.kind = "otp"
    <3>1. new = t.token /\ new \in Otp /\ new \notin SessionId
      BY <1>5, <2>2 DEF SessionsAssumption
    <3>2. otp[new] = "fresh"
      BY <1>5, <2>2, <3>1 DEF Core, SpendsApart
    <3>3. QED
      BY <1>6, <2>2, <3>1, <3>2
  <2>3. CASE t.kind = "login"
    BY <2>3 DEF SessionsAssumption
  <2>4. QED
    BY <2>1, <2>2, <2>3, GrantFamily
<1> HIDE DEF new
<1>10. /\ \A s \in SessionId : ~Exists(s) => origin[s] = None
       /\ \A s \in SessionId : origin[s] \in SessionId => sess[origin[s]].state = "revoked"
       /\ \A s \in SessionId : origin[s] \in Otp => otp[origin[s]] = "used"
  BY DEF Core, OriginSpent
<1>11. OriginSpent'
  <2>1. \A s \in SessionId : ~(Exists(s)') => origin'[s] = None
    BY <1>4, <1>10, GrantStates
  <2>2. \A s \in SessionId :
          origin'[s] \in SessionId => sess'[origin'[s]].state = "revoked"
    BY <1>4, <1>9, <1>10, GrantStates
  <2>3. \A s \in SessionId : origin'[s] \in Otp => otp'[origin'[s]] = "used"
    BY <1>4, <1>6, <1>9, <1>10
  <2>4. QED
    BY <2>1, <2>2, <2>3 DEF OriginSpent, Exists
<1>12. SpentOnce'
  <2>1. \A s \in SessionId : origin[s] = new => new = Password
    BY <1>8, <1>9, <1>10
  <2>2. \A s1, s2 \in SessionId :
          origin[s1] = origin[s2] /\ origin[s1] \notin {None, Password} => s1 = s2
    BY DEF Core, SpentOnce
  <2>3. \A s1, s2 \in SessionId :
          origin'[s1] = origin'[s2] /\ origin'[s1] \notin {None, Password} => s1 = s2
    BY <1>4, <2>1, <2>2
  <2>4. QED
    BY <2>3 DEF SpentOnce
<1>13. QED
  BY <1>7, <1>11, <1>12

LEMMA GrantCore ==
  ASSUME SessionsAssumption, Core, NEW r \in Request, CommitGrant(r)
  PROVE  Core'
<1>1. Step(r, NoTxn) /\ UNCHANGED <<user, retired, crossed>>
  BY DEF CommitGrant
<1>2. Shaped'
  BY <1>1, EndTxn
<1>3. Versions'
  <2>1. \A q \in Request : HasVersion(txn'[q]) => HasVersion(txn[q]) /\ txn'[q] = txn[q]
    BY <1>1, EndTxn
  <2>2. QED
    BY <1>1, <2>1 DEF Core, Versions, HasVersion
<1>4. QED
  BY <1>2, <1>3, GrantTyped, GrantApart, GrantOneLive, GrantSpent DEF Core

-----------------------------------------------------------------------------

\* Revocations only: rows that were locked are revoked, nothing else changes.
LEMMA RevocationRows ==
  ASSUME Core, NEW r \in Request, CommitRevocation(r)
  PROVE  /\ sess' \in [SessionId -> Session]
         /\ \A s \in SessionId : /\ sess'[s].family = sess[s].family
                                 /\ Exists(s)' <=> Exists(s)
                                 /\ Unrevoked(s)' <=> Unrevoked(s) /\ s \notin txn[r].locks
                                 /\ sess[s].state = "revoked" => sess'[s] = sess[s]
<1> DEFINE t == txn[r]
           old(s) == [sess[s] EXCEPT !.state = "revoked", !.replaced = None]
<1>1. sess' = [s \in SessionId |-> IF s \in t.locks THEN old(s) ELSE sess[s]]
  BY DEF CommitRevocation
<1>2. \A s \in SessionId : sess[s] \in Session /\ (s \in t.locks => Unrevoked(s))
  BY DEF Core, Typed, LocksApart
<1>3. \A s \in SessionId : /\ old(s) \in Session /\ old(s).state = "revoked"
                           /\ old(s).family = sess[s].family
  BY <1>2 DEF Session
<1> HIDE DEF t, old
<1>4. sess' \in [SessionId -> Session]
  BY <1>1, <1>2, <1>3
<1>5. \A s \in SessionId : sess'[s] = IF s \in t.locks THEN old(s) ELSE sess[s]
  BY <1>1
<1>6. \A s \in SessionId : /\ sess'[s].family = sess[s].family
                           /\ Exists(s)' <=> Exists(s)
                           /\ Unrevoked(s)' <=> Unrevoked(s) /\ s \notin t.locks
                           /\ sess[s].state = "revoked" => sess'[s] = sess[s]
  BY <1>2, <1>3, <1>5 DEF Exists, Unrevoked
<1>7. QED
  BY <1>4, <1>6 DEF t

LEMMA RevocationCore ==
  ASSUME SessionsAssumption, Core, NEW r \in Request, CommitRevocation(r)
  PROVE  Core'
<1> DEFINE t == txn[r]
<1>1. Step(r, NoTxn) /\ UNCHANGED <<otp, access, origin>>
  BY DEF CommitRevocation
<1>2. t \in Open /\ Shape(t) /\ t.pc = "settling"
  BY DEF CommitRevocation, Core, Typed, Shaped
<1>3. Shaped'
  BY <1>1, EndTxn
<1>4. Typed'
  <2>1. user' \in [active: BOOLEAN, tv: Nat]
    <3>1. user.active \in BOOLEAN /\ t.tv \in Nat /\ user \in [active: BOOLEAN, tv: Nat]
      BY <1>2 DEF Core, Typed, Open
    <3>2. CASE t.kind \in UserSweep
      <4>1. user' = [active |-> user.active /\ t.kind # "deactivate", tv |-> t.tv + 1]
        BY <3>2 DEF CommitRevocation, NextVersion
      <4>2. (user.active /\ t.kind # "deactivate") \in BOOLEAN
        OBVIOUS
      <4>3. t.tv + 1 \in Nat
        BY <3>1
      <4>4. QED
        BY <4>1, <4>2, <4>3
    <3>3. CASE t.kind \notin UserSweep
      BY <3>1, <3>3 DEF CommitRevocation
    <3>4. QED
      BY <3>2, <3>3
  <2>2. retired' \subseteq Nat
    BY DEF CommitRevocation, Core, Typed
  <2>3. QED
    BY <1>1, <2>1, <2>2, EndTxn, RevocationRows DEF Core, Typed
<1>5. LocksApart'
  <2>1. \A q \in Request, s \in SessionId : s \in txn'[q].locks => Unrevoked(s)'
    BY <1>1, EndTxn, RevocationRows DEF Core, LocksApart
  <2>2. \A q, p \in Request, s \in SessionId :
          s \in txn'[q].locks /\ s \in txn'[p].locks => q = p
    BY <1>1, EndTxn DEF Core, LocksApart
  <2>3. QED
    BY <2>1, <2>2 DEF LocksApart
<1>6. IdsApart'
  <2>1. \A q \in Request : txn'[q].succ # None =>
          txn[q].succ \in SessionId /\ txn'[q].succ = txn[q].succ /\ ~Exists(txn[q].succ)
    BY <1>1, EndTxn DEF Core, IdsApart, Typed, Open
  <2>2. \A s \in SessionId : ~Exists(s) => sess'[s].state = "none"
    BY RevocationRows DEF Exists
  <2>3. \A q, p \in Request :
          txn'[q].succ # None /\ txn'[q].succ = txn'[p].succ => q = p
    BY <1>1, EndTxn DEF Core, IdsApart
  <2>4. QED
    BY <2>1, <2>2, <2>3 DEF IdsApart, Exists
<1>7. FamiliesExist'
  <2>1. \A s \in SessionId : Exists(s)' =>
          \E f \in SessionId : sess'[s].family = f /\ Exists(f)'
    BY RevocationRows DEF Core, FamiliesExist
  <2>2. QED
    BY <2>1 DEF FamiliesExist, Exists
<1>8. OneLivePerFamily'
  <2>1. \A s1, s2 \in SessionId :
          Unrevoked(s1)' /\ Unrevoked(s2)' /\ sess'[s1].family = sess'[s2].family => s1 = s2
    BY RevocationRows DEF Core, OneLivePerFamily
  <2>2. QED
    BY <2>1 DEF OneLivePerFamily
<1>9. SpendsApart'
  <2>1. \A q \in Request, o \in Otp : Spends(txn'[q], o) => otp[o] = "fresh"
    BY <1>1, EndTxn DEF Core, SpendsApart
  <2>2. \A q, p \in Request, o \in Otp :
          Spends(txn'[q], o) /\ Spends(txn'[p], o) => q = p
    BY <1>1, EndTxn DEF Core, SpendsApart
  <2>3. QED
    BY <1>1, <2>1, <2>2 DEF SpendsApart, Spends
<1>10. OriginSpent'
  <2>1. \A s \in SessionId : ~(Exists(s)') => origin[s] = None
    BY RevocationRows DEF Core, OriginSpent
  <2>2. \A s \in SessionId : origin[s] \in SessionId => sess'[origin[s]].state = "revoked"
    BY RevocationRows DEF Core, OriginSpent
  <2>3. \A s \in SessionId : origin[s] \in Otp => otp[origin[s]] = "used"
    BY DEF Core, OriginSpent
  <2>4. QED
    BY <1>1, <2>1, <2>2, <2>3 DEF OriginSpent, Exists
<1>11. SpentOnce'
  BY <1>1 DEF Core, SpentOnce
\* A sweep of the user that crossed no other leaves none that has read the
\* version it ends.
<1>12. Versions'
  <2>1. CASE t.kind \notin UserSweep
    <3>1. UNCHANGED <<user, retired, crossed>>
      BY <2>1 DEF CommitRevocation
    <3>2. \A q \in Request : HasVersion(txn'[q]) => HasVersion(txn[q]) /\ txn'[q] = txn[q]
      BY <1>1, EndTxn
    <3>3. QED
      BY <3>1, <3>2 DEF Core, Versions, HasVersion
  <2>2. CASE t.kind \in UserSweep
    <3>1. SUFFICES ASSUME ~crossed'
                   PROVE  /\ \A v \in retired' : v < user'.tv
                          /\ \A q \in Request : ~HasVersion(txn'[q])
      BY DEF Versions, HasVersion
    <3>2. ~crossed /\ ~SweepCrosses(r)
      BY <2>2, <3>1 DEF CommitRevocation
    <3>3. HasVersion(t)
      BY <1>2, <2>2 DEF HasVersion
    <3>4. t.tv = user.tv /\ user.tv \in Nat /\ \A v \in retired : v < user.tv
      BY <3>2, <3>3 DEF Core, Versions, Typed
    <3>5. user'.tv = user.tv + 1 /\ retired' = retired \cup {user.tv}
      <4>1. user' = [active |-> user.active /\ t.kind # "deactivate", tv |-> t.tv + 1]
            /\ retired' = retired \cup {user.tv}
        BY <2>2 DEF CommitRevocation, NextVersion
      <4>2. QED
        BY <3>4, <4>1
    <3>6. \A q \in Request : ~HasVersion(txn'[q])
      BY <1>1, <3>2, EndTxn DEF SweepCrosses, HasVersion
    <3>7. retired \subseteq Nat
      BY DEF Core, Typed
    <3>8. QED
      BY <3>4, <3>5, <3>6, <3>7
  <2>3. QED
    BY <2>1, <2>2
<1>13. QED
  BY <1>3, <1>4, <1>5, <1>6, <1>7, <1>8, <1>9, <1>10, <1>11, <1>12 DEF Core

LEMMA ExpireRows ==
  ASSUME Core, NEW x \in SessionId, Expire(x)
  PROVE  /\ sess' \in [SessionId -> Session]
         /\ \A s \in SessionId : /\ sess'[s].family = sess[s].family
                                 /\ Exists(s)' <=> Exists(s)
                                 /\ Unrevoked(s)' <=> Unrevoked(s)
                                 /\ sess[s].state = "revoked" => sess'[s] = sess[s]
<1> DEFINE old == [sess[x] EXCEPT !.state = "expired"]
<1>1. sess' = [sess EXCEPT ![x] = old] /\ sess[x].state = "live"
  BY DEF Expire
<1>2. \A s \in SessionId : sess[s] \in Session
  BY DEF Core, Typed
<1>3. old \in Session /\ old.state = "expired" /\ old.family = sess[x].family
  BY <1>2 DEF Session
<1> HIDE DEF old
<1>4. sess' \in [SessionId -> Session]
  BY <1>1, <1>3 DEF Core, Typed
<1>5. \A s \in SessionId : sess'[s] = IF s = x THEN old ELSE sess[s]
  BY <1>1 DEF Core, Typed
<1>6. \A s \in SessionId : /\ sess'[s].family = sess[s].family
                           /\ Exists(s)' <=> Exists(s)
                           /\ Unrevoked(s)' <=> Unrevoked(s)
                           /\ sess[s].state = "revoked" => sess'[s] = sess[s]
  BY <1>1, <1>3, <1>5 DEF Exists, Unrevoked
<1>7. QED
  BY <1>4, <1>6

LEMMA ExpireCore ==
  ASSUME SessionsAssumption, Core, NEW x \in SessionId, Expire(x)
  PROVE  Core'
<1>1. UNCHANGED <<otp, user, txn, access, origin, retired, crossed>>
  BY DEF Expire, history
<1>2. Typed' /\ Shaped' /\ SpendsApart' /\ SpentOnce' /\ Versions'
  BY <1>1, ExpireRows DEF Core, Typed, Shaped, SpendsApart, SpentOnce, Versions
<1>3. LocksApart'
  BY <1>1, ExpireRows DEF Core, LocksApart
<1>4. IdsApart'
  <2>1. \A q \in Request : txn[q].succ # None =>
          txn[q].succ \in SessionId /\ ~Exists(txn[q].succ)
    BY DEF Core, IdsApart, Typed, Open
  <2>2. \A s \in SessionId : ~Exists(s) => sess'[s].state = "none"
    BY ExpireRows DEF Exists
  <2>3. QED
    BY <1>1, <2>1, <2>2 DEF Core, IdsApart, Exists
<1>5. FamiliesExist'
  <2>1. \A s \in SessionId : Exists(s)' =>
          \E f \in SessionId : sess'[s].family = f /\ Exists(f)'
    BY ExpireRows DEF Core, FamiliesExist
  <2>2. QED
    BY <2>1 DEF FamiliesExist, Exists
<1>6. OneLivePerFamily'
  <2>1. \A s1, s2 \in SessionId :
          Unrevoked(s1)' /\ Unrevoked(s2)' /\ sess'[s1].family = sess'[s2].family => s1 = s2
    BY ExpireRows DEF Core, OneLivePerFamily
  <2>2. QED
    BY <2>1 DEF OneLivePerFamily
<1>7. OriginSpent'
  <2>1. \A s \in SessionId : ~(Exists(s)') => origin[s] = None
    BY ExpireRows DEF Core, OriginSpent
  <2>2. \A s \in SessionId : origin[s] \in SessionId => sess'[origin[s]].state = "revoked"
    BY ExpireRows DEF Core, OriginSpent
  <2>3. QED
    BY <1>1, <2>1, <2>2 DEF Core, OriginSpent, Exists
<1>8. QED
  BY <1>2, <1>3, <1>4, <1>5, <1>6, <1>7 DEF Core

LEMMA OtpCreateCore ==
  ASSUME SessionsAssumption, Core, NEW o \in Otp, OtpCreate(o)
  PROVE  Core'
<1>1. UNCHANGED <<sess, user, txn, origin, retired, crossed>>
  BY DEF OtpCreate, history
<1>2. otp[o] = "none" /\ otp' = [otp EXCEPT ![o] = "fresh"]
      /\ otp \in [Otp -> {"none", "fresh", "used"}]
  BY DEF OtpCreate, Core, Typed
<1>3. Typed'
  BY <1>1, <1>2 DEF Core, Typed
<1>4. SpendsApart'
  <2>1. \A p \in Otp : otp[p] = "fresh" => otp'[p] = "fresh"
    BY <1>2
  <2>2. QED
    BY <1>1, <2>1 DEF Core, SpendsApart, Spends
<1>5. OriginSpent'
  <2>1. \A p \in Otp : otp[p] = "used" => otp'[p] = "used"
    BY <1>2
  <2>2. QED
    BY <1>1, <2>1 DEF Core, OriginSpent, Exists
<1>6. QED
  BY <1>1, <1>3, <1>4, <1>5
     DEF Core, Shaped, LocksApart, IdsApart, FamiliesExist, OneLivePerFamily,
         SpentOnce, Versions, Exists, Unrevoked

LEMMA ReactivateCore ==
  ASSUME SessionsAssumption, Core, Reactivate
  PROVE  Core'
<1>1. UNCHANGED <<sess, otp, txn, origin, retired, crossed>>
  BY DEF Reactivate, history
<1>2. user' \in [active: BOOLEAN, tv: Nat] /\ user'.tv = user.tv
  BY DEF Reactivate, Core, Typed
<1>3. QED
  BY <1>1, <1>2
     DEF Core, Typed, Shaped, LocksApart, IdsApart, FamiliesExist, OneLivePerFamily,
         SpendsApart, OriginSpent, SpentOnce, Versions, Exists, Unrevoked, Spends

-----------------------------------------------------------------------------

\* Every step is a local step of one request, or writes rows.
LEMMA StepCases ==
  ASSUME Core, Next
  PROVE  \/ \E r \in Request : Local(r) \/ CommitGrant(r) \/ CommitRevocation(r)
         \/ \E o \in Otp : OtpCreate(o)
         \/ \E s \in SessionId : Expire(s)
         \/ Reactivate
<1>1. Typed /\ Shaped
  BY DEF Core
<1>2. ASSUME NEW r \in Request, Login(r) \/ OtpClaim(r) \/ ReadUser(r) \/ Claim(r)
                                \/ RevokeOne(r) \/ SweepEnds(r)
      PROVE  Local(r)
  <2>1. RevokeOne(r) => txn[r].token \in SessionId
    BY <1>1 DEF RevokeOne, Shaped, Shape
  <2>2. QED
    BY <1>1, <1>2, <2>1, LoginLocal, OtpClaimLocal, ReadUserLocal, ClaimLocal,
       RevokeOneLocal, SweepEndsLocal
<1>3. ASSUME NEW r \in Request, Sweep(r) \/ LogoutAll(r)
      PROVE  Local(r)
  <2>1. CASE LogoutAll(r)
    <3>1. /\ Scope(r, "logout_all") \in SUBSET SessionId
          /\ Covered(r, "logout_all") \in SUBSET (SessionId \cup {None})
      BY <1>1, SweepSets
    <3>2. QED
      BY <1>1, <2>1, <3>1, LogoutAllLocal
  <2>2. CASE Sweep(r)
    <3>1. txn[r].kind = "reuse" => txn[r].token \in SessionId
      BY <1>1, <2>2 DEF Sweep, Shaped, Shape, UserSweep
    <3>2. /\ Scope(r, txn[r].kind) \in SUBSET SessionId
          /\ Covered(r, txn[r].kind) \in SUBSET (SessionId \cup {None})
      BY <1>1, <3>1, SweepSets
    <3>3. QED
      BY <1>1, <2>2, <3>2, SweepLocal
  <2>3. QED
    BY <1>3, <2>1, <2>2
<1>4. ASSUME NEW r \in Request, Rollback(r)
      PROVE  Local(r)
  <2>1. Step(r, NoTxn) /\ UNCHANGED <<sess, otp, user, origin, access, retired, crossed>>
    BY <1>4 DEF Rollback, tables, history
  <2>2. QED
    BY <1>1, <2>1, EndLocal
<1>5. ASSUME NEW r \in Request, \E o \in Otp : OtpPresent(r, o)
      PROVE  Local(r)
  BY <1>1, <1>5, OtpPresentLocal
<1>6. ASSUME NEW r \in Request,
             \E s \in SessionId : Present(r, s) \/ Logout(r, s) \/ SweepRow(r, s)
      PROVE  Local(r)
  BY <1>1, <1>6, PresentLocal, SweepRowLocal
<1>7. ASSUME NEW r \in Request, \E kind \in UserSweep : BeginSweep(r, kind)
      PROVE  Local(r)
  BY <1>1, <1>7, BeginSweepLocal
<1>8. QED
  BY <1>2, <1>3, <1>4, <1>5, <1>6, <1>7 DEF Next

LEMMA NextCore ==
  ASSUME SessionsAssumption, Core, [Next]_vars
  PROVE  Core'
<1>1. CASE Next
  BY <1>1, StepCases, LocalCore, GrantCore, RevocationCore, OtpCreateCore,
     ExpireCore, ReactivateCore
<1>2. CASE UNCHANGED vars
  BY <1>2 DEF vars, Core, Typed, Shaped, LocksApart, IdsApart, FamiliesExist,
     OneLivePerFamily, SpendsApart, OriginSpent, SpentOnce, Versions, Exists,
     Unrevoked, Spends
<1>3. QED
  BY <1>1, <1>2

LEMMA CoreInvariant == Spec => []Core
<1>1. Init => Core
  BY InitCore, SessionsAssumption
<1>2. Core /\ [Next]_vars => Core'
  BY NextCore, SessionsAssumption
<1>3. QED
  BY <1>1, <1>2, PTL DEF Spec

\* Of any number of refreshes that present one token, one creates a successor:
\* revoke_refresh_session claims the row under its lock, and the row is still
\* locked when the successor is committed.
THEOREM OneUsableSession == Spec => []OneLivePerFamily
<1>1. Core => OneLivePerFamily
  BY DEF Core
<1>2. QED
  BY <1>1, CoreInvariant, PTL

\* A refresh token or a one-time token grants at most one session, whatever
\* was read before the row was locked (refresh, otp_login).
THEOREM CredentialSpentOnce == Spec => []SpentOnce
<1>1. Core => SpentOnce
  BY DEF Core
<1>2. QED
  BY <1>1, CoreInvariant, PTL

\* Sweeps that do not cross leave token_version past every version they ended
\* (logout_all, change_password, update_user, delete_user).
THEOREM RetiredForGood == Spec => []RetiredStaysRetired
<1>1. Core => RetiredStaysRetired
  BY DEF Core, Versions, RetiredStaysRetired, Typed
<1>2. QED
  BY <1>1, CoreInvariant, PTL

\* A revoked session keeps its revocation and its successor: a transaction
\* writes only rows it has locked unrevoked, and the row it creates.
THEOREM RevokedForGood == Spec => RevocationIsFinal
<1>1. ASSUME Core, [Next]_vars
      PROVE  \A s \in SessionId : sess[s].state = "revoked" => sess'[s] = sess[s]
  <2>1. ASSUME NEW r \in Request, CommitGrant(r)
        PROVE  \A s \in SessionId : sess[s].state = "revoked" => sess'[s] = sess[s]
    <3>1. ~Exists(txn[r].succ)
          /\ \A s \in SessionId :
               s # txn[r].succ /\ s \notin txn[r].locks => sess'[s] = sess[s]
      BY <1>1, <2>1, GrantRows
    <3>2. \A s \in SessionId : s \in txn[r].locks => Unrevoked(s)
      BY <1>1 DEF Core, LocksApart
    <3>3. QED
      BY <3>1, <3>2 DEF Exists, Unrevoked
  <2>2. ASSUME NEW r \in Request, CommitRevocation(r)
        PROVE  \A s \in SessionId : sess[s].state = "revoked" => sess'[s] = sess[s]
    BY <1>1, <2>2, RevocationRows
  <2>3. ASSUME NEW x \in SessionId, Expire(x)
        PROVE  \A s \in SessionId : sess[s].state = "revoked" => sess'[s] = sess[s]
    BY <1>1, <2>3, ExpireRows
  <2>4. CASE UNCHANGED sess
    BY <2>4
  <2>5. QED
    BY <1>1, <2>1, <2>2, <2>3, <2>4, StepCases
       DEF Local, OtpCreate, Reactivate, vars
<1>2. QED
  BY <1>1, CoreInvariant, PTL DEF Spec, RevocationIsFinal

-----------------------------------------------------------------------------
(* Sweeps against rotations.  SurvivorsOverlap speaks of sweeps that have  *)
(* committed; to survive the commits of others it has to be said of a      *)
(* sweep that is under way, and of a rotation that is.                     *)

\* Family f was swept, or is being swept.
Met(f) == f \in swept \/ SweepOpen(f)

\* A sweep covers families that exist, and a replayed token is a row.
Known(s) == s \in SessionId /\ Exists(s)

SweepsExist ==
  /\ \A r \in Request : txn[r].kind = "reuse" => Known(txn[r].token)
  /\ \A f \in SessionId : Met(f) => Exists(f)

\* A sweep under way has yet to lock, or has revoked, every usable session of
\* the families it covers but the excused ones.
Reached ==
  \A q \in Request, s \in SessionId :
    Unrevoked(s) /\ sess[s].family \in txn[q].covers
      => s \in txn[q].todo \cup txn[q].locks \cup excused

\* A rotation that holds a row of a family that is or was swept is excused.
Excuses ==
  \A p \in Request :
    txn[p].pc = "claimed" /\ txn[p].kind = "refresh" /\ Met(sess[txn[p].token].family)
      => txn[p].succ \in excused

Sweeps == SweepsExist /\ Reached /\ Excuses /\ SurvivorsOverlap

LEMMA InitSweeps ==
  ASSUME Init
  PROVE  Sweeps
<1>1. \A r \in Request : /\ txn[r].kind = "none" /\ txn[r].pc = "idle"
                         /\ txn[r].covers = {}
  BY DEF Init, NoTxn
<1>2. swept = {}
  BY DEF Init
<1>3. QED
  BY <1>1, <1>2
     DEF Sweeps, SweepsExist, Reached, Excuses, SurvivorsOverlap, Met, SweepOpen

\* What an open rotation holds.
LEMMA Holds ==
  ASSUME Core, NEW p \in Request, txn[p].pc = "claimed", txn[p].kind = "refresh"
  PROVE  txn[p].token \in SessionId /\ Unrevoked(txn[p].token)
<1>1. txn[p].token \in SessionId /\ txn[p].locks = {txn[p].token}
  BY DEF Core, Shaped, Shape
<1>2. QED
  BY <1>1 DEF Core, LocksApart

\* A step that begins no sweep and no rotation of a session, and loses no row.
Quiet(r) ==
  /\ UNCHANGED <<sess, swept, excused>>
  /\ OthersKeep(r)
  /\ \/ txn'[r].covers = {}
     \/ /\ txn'[r].covers = txn[r].covers
        /\ \A s \in txn[r].todo \cup txn[r].locks :
             Unrevoked(s) => s \in txn'[r].todo \cup txn'[r].locks
  /\ txn'[r].pc = "claimed" => txn'[r].kind # "refresh"
  /\ txn'[r].kind = "reuse" => Known(txn'[r].token)

LEMMA QuietSweeps ==
  ASSUME Sweeps, NEW r \in Request, Quiet(r)
  PROVE  Sweeps'
<1>1. \A q \in Request \ {r} : txn'[q] = txn[q]
  BY DEF Quiet, OthersKeep
<1>2. UNCHANGED <<sess, swept, excused>>
  BY DEF Quiet
<1>3. \A q \in Request : \A f : f \in txn'[q].covers => f \in txn[q].covers
  BY <1>1 DEF Quiet
<1>4. \A f : Met(f)' => Met(f)
  BY <1>2, <1>3 DEF Met, SweepOpen
<1>5. SweepsExist'
  <2>1. \A q \in Request : txn'[q].kind = "reuse" => Known(txn'[q].token)
    BY <1>1 DEF Quiet, Sweeps, SweepsExist
  <2>2. QED
    BY <1>2, <1>4, <2>1 DEF Sweeps, SweepsExist, Known, Exists
<1>6. Reached'
  <2>1. ASSUME NEW q \in Request, NEW s \in SessionId,
               Unrevoked(s), sess[s].family \in txn'[q].covers
        PROVE  s \in txn'[q].todo \cup txn'[q].locks \cup excused
    <3>1. s \in txn[q].todo \cup txn[q].locks \cup excused
      BY <1>3, <2>1 DEF Sweeps, Reached
    <3>2. CASE q = r
      <4>1. txn'[r].covers # {}
        BY <2>1, <3>2
      <4>2. \A x \in txn[r].todo \cup txn[r].locks :
              Unrevoked(x) => x \in txn'[r].todo \cup txn'[r].locks
        BY <4>1 DEF Quiet
      <4>3. QED
        BY <2>1, <3>1, <3>2, <4>2
    <3>3. QED
      BY <1>1, <3>1, <3>2
  <2>2. QED
    BY <1>2, <2>1 DEF Reached, Unrevoked
<1>7. Excuses'
  <2>1. ASSUME NEW p \in Request, txn'[p].pc = "claimed", txn'[p].kind = "refresh",
               Met(sess[txn'[p].token].family)
        PROVE  txn'[p].succ \in excused
    <3>1. txn'[p] = txn[p]
      BY <1>1, <2>1 DEF Quiet
    <3>2. QED
      BY <2>1, <3>1 DEF Sweeps, Excuses
  <2>2. \A p : sess'[txn'[p].token].family = sess[txn'[p].token].family
    BY <1>2
  <2>3. ASSUME NEW p \in Request, txn'[p].pc = "claimed", txn'[p].kind = "refresh",
               Met(sess[txn[p].token].family)'
        PROVE  txn'[p].succ \in excused
    <3>1. Met(sess[txn'[p].token].family)
      BY <1>2, <1>3, <2>2, <2>3 DEF Met, SweepOpen
    <3>2. QED
      BY <2>1, <2>3, <3>1
  <2>4. QED
    BY <1>2, <2>3 DEF Excuses
<1>8. SurvivorsOverlap'
  BY <1>2 DEF Sweeps, SurvivorsOverlap, Unrevoked
<1>9. QED
  BY <1>5, <1>6, <1>7, <1>8 DEF Sweeps

\* A transaction that takes no row yet.
LEMMA FreshQuiet ==
  ASSUME Typed, NEW r \in Request, NEW n, Step(r, n), n.covers = {}, n.pc # "claimed",
         n.kind = "reuse" => Known(n.token), UNCHANGED <<sess, swept, excused>>
  PROVE  Quiet(r)
<1>1. txn'[r] = n /\ OthersKeep(r)
  BY StepEffect
<1>2. QED
  BY <1>1 DEF Quiet

\* The requests that begin and neither rotate a session nor sweep.
LEMMA BeginQuiet ==
  ASSUME Typed, NEW r \in Request,
         \/ Login(r)
         \/ \E o \in Otp : OtpPresent(r, o)
         \/ \E s \in SessionId : Present(r, s) \/ Logout(r, s)
         \/ \E kind \in UserSweep : BeginSweep(r, kind)
  PROVE  Quiet(r)
<1>1. UNCHANGED <<sess, swept, excused>>
  BY DEF Login, OtpPresent, Present, Logout, BeginSweep, tables, history
<1>2. CASE Login(r)
  <2>1. PICK s : Step(r, [NoTxn EXCEPT !.pc = "settling", !.kind = "login",
                                       !.succ = s, !.tv = user.tv])
    BY <1>2 DEF Login
  <2> DEFINE n == [NoTxn EXCEPT !.pc = "settling", !.kind = "login",
                                !.succ = s, !.tv = user.tv]
  <2>2. n.covers = {} /\ n.pc = "settling" /\ n.kind = "login"
    BY DEF NoTxn
  <2>3. Step(r, n)
    BY <2>1
  <2> HIDE DEF n
  <2>4. QED
    BY <1>1, <2>2, <2>3, FreshQuiet
<1>3. CASE \E o \in Otp : OtpPresent(r, o)
  <2>1. PICK o : Step(r, [NoTxn EXCEPT !.pc = "presented", !.kind = "otp", !.token = o])
    BY <1>3 DEF OtpPresent
  <2> DEFINE n == [NoTxn EXCEPT !.pc = "presented", !.kind = "otp", !.token = o]
  <2>2. n.covers = {} /\ n.pc = "presented" /\ n.kind = "otp"
    BY DEF NoTxn
  <2>3. Step(r, n)
    BY <2>1
  <2> HIDE DEF n
  <2>4. QED
    BY <1>1, <2>2, <2>3, FreshQuiet
<1>4. CASE \E s \in SessionId : Present(r, s) \/ Logout(r, s)
  <2>1. PICK s \in SessionId : Present(r, s) \/ Logout(r, s)
    BY <1>4
  <2>2. Known(s)
    BY <2>1 DEF Known, Present, Logout
  <2>3. PICK pc \in {"presented", "revoking", "reading"},
             kind \in {"refresh", "reuse", "logout"} :
          Step(r, [NoTxn EXCEPT !.pc = pc, !.kind = kind, !.token = s])
    BY <2>1 DEF Present, Logout, NoTxn
  <2> DEFINE n == [NoTxn EXCEPT !.pc = pc, !.kind = kind, !.token = s]
  <2>4. n.covers = {} /\ n.pc = pc /\ n.token = s
    BY DEF NoTxn
  <2>5. Step(r, n)
    BY <2>3
  <2> HIDE DEF n
  <2>6. QED
    BY <1>1, <2>2, <2>4, <2>5, FreshQuiet
<1>5. CASE \E kind \in UserSweep : BeginSweep(r, kind)
  <2>1. PICK kind \in UserSweep :
          Step(r, [NoTxn EXCEPT !.pc = "reading", !.kind = kind, !.tv = user.tv])
    BY <1>5 DEF BeginSweep
  <2> DEFINE n == [NoTxn EXCEPT !.pc = "reading", !.kind = kind, !.tv = user.tv]
  <2>2. n.covers = {} /\ n.pc = "reading" /\ n.kind # "reuse"
    BY DEF NoTxn, UserSweep
  <2>3. Step(r, n)
    BY <2>1
  <2> HIDE DEF n
  <2>4. QED
    BY <1>1, <2>2, <2>3, FreshQuiet
<1>6. QED
  BY <1>2, <1>3, <1>4, <1>5

LEMMA EndQuiet ==
  ASSUME Typed, NEW r \in Request, Step(r, NoTxn), UNCHANGED <<sess, swept, excused>>
  PROVE  Quiet(r)
<1>1. txn'[r] = NoTxn /\ OthersKeep(r)
  BY StepEffect
<1>2. NoTxn.covers = {} /\ NoTxn.pc = "idle" /\ NoTxn.kind = "none"
  BY DEF NoTxn
<1>3. QED
  BY <1>1, <1>2 DEF Quiet

\* A transaction that keeps its credential and its rows.
LEMMA KeepQuiet ==
  ASSUME Core, Sweeps, NEW r \in Request, NEW n, Step(r, n),
         UNCHANGED <<sess, swept, excused>>,
         n.kind = txn[r].kind, n.token = txn[r].token, n.covers = txn[r].covers,
         \A s \in txn[r].todo \cup txn[r].locks :
           Unrevoked(s) => s \in n.todo \cup n.locks,
         n.pc = "claimed" => n.kind # "refresh"
  PROVE  Quiet(r)
<1>1. txn'[r] = n /\ OthersKeep(r)
  BY StepEffect DEF Core
<1>2. txn[r].kind = "reuse" => Known(txn[r].token)
  BY DEF Sweeps, SweepsExist
<1>3. QED
  BY <1>1, <1>2 DEF Quiet

LEMMA MoveQuiet ==
  ASSUME Core, Sweeps, NEW r \in Request,
         OtpClaim(r) \/ ReadUser(r) \/ RevokeOne(r) \/ SweepEnds(r)
  PROVE  Quiet(r)
<1> DEFINE t == txn[r]
<1>1. t \in Open /\ UNCHANGED <<sess, swept, excused>>
  BY DEF Core, Typed, OtpClaim, ReadUser, RevokeOne, SweepEnds, tables, history
<1>2. CASE Step(r, NoTxn)
  BY <1>1, <1>2, EndQuiet DEF Core
<1>3. CASE OtpClaim(r) /\ ~Step(r, NoTxn)
  <2>1. PICK s : Step(r, [t EXCEPT !.pc = "claimed", !.succ = s]) /\ t.kind = "otp"
    BY <1>3 DEF OtpClaim
  <2> DEFINE n == [t EXCEPT !.pc = "claimed", !.succ = s]
  <2>2. n.kind = t.kind /\ n.token = t.token /\ n.covers = t.covers
        /\ n.todo = t.todo /\ n.locks = t.locks
    BY <1>1 DEF Open
  <2>3. Step(r, n)
    BY <2>1
  <2> HIDE DEF n
  <2>4. QED
    BY <1>1, <2>1, <2>2, <2>3, KeepQuiet
<1>4. CASE ReadUser(r) /\ ~Step(r, NoTxn)
  <2>1. PICK pc \in {"authorized", "revoking"}, tv \in {user.tv, t.tv} :
          Step(r, [t EXCEPT !.pc = pc, !.tv = tv])
    <3>1. CASE Step(r, [t EXCEPT !.pc = "authorized", !.tv = user.tv])
      BY <3>1
    <3>2. CASE Step(r, [t EXCEPT !.pc = "revoking"])
      <4>1. [t EXCEPT !.pc = "revoking"] = [t EXCEPT !.pc = "revoking", !.tv = t.tv]
        BY <1>1 DEF Open
      <4>2. QED
        BY <3>2, <4>1
    <3>3. QED
      BY <1>4, <3>1, <3>2 DEF ReadUser
  <2> DEFINE n == [t EXCEPT !.pc = pc, !.tv = tv]
  <2>2. n.kind = t.kind /\ n.token = t.token /\ n.covers = t.covers
        /\ n.todo = t.todo /\ n.locks = t.locks /\ n.pc = pc
    BY <1>1 DEF Open
  <2>3. Step(r, n)
    BY <2>1
  <2> HIDE DEF n
  <2>4. QED
    BY <1>1, <2>2, <2>3, KeepQuiet
<1>5. CASE RevokeOne(r) /\ ~Step(r, NoTxn)
  <2>1. Step(r, [t EXCEPT !.pc = "settling", !.locks = {t.token}]) /\ t.pc = "revoking"
    BY <1>5 DEF RevokeOne
  <2> DEFINE n == [t EXCEPT !.pc = "settling", !.locks = {t.token}]
  <2>2. n.kind = t.kind /\ n.token = t.token /\ n.covers = t.covers /\ n.pc = "settling"
    BY <1>1 DEF Open
  <2>3. Step(r, n)
    BY <2>1
  <2> HIDE DEF n
  <2>4. t.todo = {} /\ t.locks = {}
    BY <2>1 DEF Core, Shaped, Shape
  <2>5. QED
    BY <1>1, <2>2, <2>3, <2>4, KeepQuiet
<1>6. CASE SweepEnds(r)
  <2>1. PICK tv : Step(r, [t EXCEPT !.pc = "settling", !.tv = tv])
    BY <1>6 DEF SweepEnds
  <2> DEFINE n == [t EXCEPT !.pc = "settling", !.tv = tv]
  <2>2. n.kind = t.kind /\ n.token = t.token /\ n.covers = t.covers
        /\ n.todo = t.todo /\ n.locks = t.locks /\ n.pc = "settling"
    BY <1>1 DEF Open
  <2>3. Step(r, n)
    BY <2>1
  <2> HIDE DEF n
  <2>4. QED
    BY <1>1, <2>2, <2>3, KeepQuiet
<1>7. QED
  BY <1>2, <1>3, <1>4, <1>5, <1>6

\* A row of the UPDATE is revoked by it, or was revoked before.
LEMMA RowQuiet ==
  ASSUME Core, Sweeps, NEW r \in Request, NEW s \in SessionId, SweepRow(r, s)
  PROVE  Quiet(r)
<1> DEFINE t == txn[r]
           locks == IF Revocable(s) THEN t.locks \cup {s} ELSE t.locks
           n == [t EXCEPT !.todo = t.todo \ {s}, !.locks = locks]
<1>1. t \in Open /\ t.pc = "sweeping" /\ UNCHANGED <<sess, swept, excused>>
  BY DEF Core, Typed, SweepRow, tables, history
<1>2. n.kind = t.kind /\ n.token = t.token /\ n.covers = t.covers
      /\ n.todo = t.todo \ {s} /\ n.locks = locks /\ n.pc = t.pc
  BY <1>1 DEF Open
<1>3. Step(r, n)
  BY DEF SweepRow
<1> HIDE DEF n
<1>4. \A x \in t.todo \cup t.locks : Unrevoked(x) => x \in n.todo \cup n.locks
  BY <1>2 DEF Revocable
<1>5. QED
  BY <1>1, <1>2, <1>3, <1>4, KeepQuiet

\* A rotation that wins its row is excused if its family is or was swept: the
\* row it holds is usable, and SurvivorsOverlap says why it is.
LEMMA ClaimSweeps ==
  ASSUME Core, Sweeps, NEW r \in Request, Claim(r), Revocable(txn[r].token)
  PROVE  Sweeps'
<1> DEFINE t == txn[r]
<1>1. PICK s \in FreshId :
        /\ Step(r, [t EXCEPT !.pc = "claimed", !.succ = s, !.locks = {t.token}])
        /\ excused' = IF t.token \in excused \/ SweepOpen(sess[t.token].family)
                      THEN excused \cup {s} ELSE excused
  BY DEF Claim
<1>2. t \in Open /\ t.pc = "authorized" /\ t.kind = "refresh"
      /\ UNCHANGED <<sess, swept>>
  BY DEF Claim, Core, Typed, tables
<1>3. t.covers = {} /\ t.token \in SessionId /\ Unrevoked(t.token)
  BY <1>2 DEF Core, Shaped, Shape, Revocable
<1> DEFINE n == [t EXCEPT !.pc = "claimed", !.succ = s, !.locks = {t.token}]
<1>4. n.kind = "refresh" /\ n.token = t.token /\ n.covers = {} /\ n.succ = s
  BY <1>2, <1>3 DEF Open
<1>5. Step(r, n)
  BY <1>1
<1> HIDE DEF n
<1>6. txn'[r] = n /\ \A q \in Request \ {r} : txn'[q] = txn[q]
  BY <1>5, StepEffect DEF Core, OthersKeep
<1>7. \A q \in Request : txn'[q].covers = txn[q].covers
  BY <1>3, <1>4, <1>6
<1>8. \A f : f \in swept' \/ (\E q \in Request : f \in txn'[q].covers) => Met(f)
  BY <1>2, <1>7 DEF Met, SweepOpen
<1>9. \A x \in excused : x \in excused'
  BY <1>1
<1>10. Met(sess[t.token].family) => s \in excused'
  <2>1. sess[t.token].family \in swept => t.token \in excused
    BY <1>3 DEF Sweeps, SurvivorsOverlap
  <2>2. QED
    BY <1>1, <2>1 DEF Met
<1>11. SweepsExist'
  <2>1. \A q \in Request : txn'[q].kind = "reuse" => Known(txn'[q].token)
    BY <1>4, <1>6 DEF Sweeps, SweepsExist
  <2>2. QED
    BY <1>2, <1>8, <2>1 DEF Sweeps, SweepsExist, Known, Exists, Met, SweepOpen
<1>12. Reached'
  <2>1. ASSUME NEW q \in Request, NEW x \in SessionId,
               Unrevoked(x), sess[x].family \in txn'[q].covers
        PROVE  x \in txn'[q].todo \cup txn'[q].locks \cup excused'
    <3>1. q # r
      BY <1>4, <1>6, <2>1
    <3>2. QED
      BY <1>6, <1>9, <2>1, <3>1 DEF Sweeps, Reached
  <2>2. QED
    BY <1>2, <2>1 DEF Reached, Unrevoked
<1>13. Excuses'
  <2>1. ASSUME NEW p \in Request, txn'[p].pc = "claimed", txn'[p].kind = "refresh",
               Met(sess[txn[p].token].family)'
        PROVE  txn'[p].succ \in excused'
    <3>1. Met(sess[txn[p].token].family)
      <4>1. txn'[p].token = txn[p].token
        BY <1>4, <1>6
      <4>2. sess'[txn'[p].token].family = sess[txn[p].token].family
        BY <1>2, <4>1
      <4>3. QED
        BY <1>8, <2>1, <4>2 DEF Met, SweepOpen
    <3>2. CASE p = r
      BY <1>4, <1>6, <1>10, <3>1, <3>2
    <3>3. CASE p # r
      BY <1>6, <1>9, <2>1, <3>1, <3>3 DEF Sweeps, Excuses
    <3>4. QED
      BY <3>2, <3>3
  <2>2. QED
    BY <2>1 DEF Excuses
<1>14. SurvivorsOverlap'
  BY <1>2, <1>9 DEF Sweeps, SurvivorsOverlap, Unrevoked
<1>15. QED
  BY <1>11, <1>12, <1>13, <1>14 DEF Sweeps

\* An UPDATE chooses every usable row of the families it covers, and excuses
\* the rotations that hold one of them.
LEMMA UpdateSweeps ==
  ASSUME Core, Sweeps, NEW r \in Request, NEW kind, NEW n, Step(r, n),
         n.pc = "sweeping", n.kind = kind,
         n.todo = Scope(r, kind), n.covers = Covered(r, kind),
         kind = "reuse" => Known(txn[r].token) /\ n.token = txn[r].token,
         excused' = excused \cup RotatingIn(Scope(r, kind)),
         UNCHANGED <<sess, swept>>
  PROVE  Sweeps'
<1>1. txn'[r] = n /\ \A q \in Request \ {r} : txn'[q] = txn[q]
  BY StepEffect DEF Core, OthersKeep
<1>2. \A s \in SessionId :
        Unrevoked(s) /\ sess[s].family \in Covered(r, kind) => s \in Scope(r, kind)
  BY DEF Covered, Scope
<1>3. \A f \in Covered(r, kind) : Exists(f)
  <2>1. \A s \in SessionId : Exists(s) => Exists(sess[s].family)
    BY DEF Core, FamiliesExist
  <2>2. QED
    BY <2>1 DEF Covered, Known
<1>4. \A x \in excused : x \in excused'
  OBVIOUS
<1>5. \A f : f \in swept' \/ (\E q \in Request : f \in txn'[q].covers)
               => Met(f) \/ f \in Covered(r, kind)
  BY <1>1 DEF Met, SweepOpen
<1>6. SweepsExist'
  <2>1. \A q \in Request : txn'[q].kind = "reuse" => Known(txn'[q].token)
    BY <1>1 DEF Sweeps, SweepsExist
  <2>2. QED
    BY <1>3, <1>5, <2>1 DEF Sweeps, SweepsExist, Known, Exists, Met, SweepOpen
<1>7. Reached'
  <2>1. ASSUME NEW q \in Request, NEW s \in SessionId,
               Unrevoked(s), sess[s].family \in txn'[q].covers
        PROVE  s \in txn'[q].todo \cup txn'[q].locks \cup excused'
    <3>1. CASE q = r
      BY <1>1, <1>2, <2>1, <3>1
    <3>2. CASE q # r
      BY <1>1, <1>4, <2>1, <3>2 DEF Sweeps, Reached
    <3>3. QED
      BY <3>1, <3>2
  <2>2. QED
    BY <2>1 DEF Reached, Unrevoked
<1>8. Excuses'
  <2>1. ASSUME NEW p \in Request, txn'[p].pc = "claimed", txn'[p].kind = "refresh",
               Met(sess[txn[p].token].family)'
        PROVE  txn'[p].succ \in excused'
    <3>1. p # r /\ txn'[p] = txn[p]
      BY <1>1, <2>1
    <3>2. txn[p].token \in SessionId /\ Unrevoked(txn[p].token)
      BY <2>1, <3>1, Holds
    <3>3. sess'[txn'[p].token].family = sess[txn[p].token].family
      BY <3>1
    <3>4. Met(sess[txn[p].token].family) \/ sess[txn[p].token].family \in Covered(r, kind)
      BY <1>5, <2>1, <3>3 DEF Met, SweepOpen
    <3>5. CASE Met(sess[txn[p].token].family)
      BY <1>4, <2>1, <3>1, <3>5 DEF Sweeps, Excuses
    <3>6. CASE sess[txn[p].token].family \in Covered(r, kind)
      <4>1. txn[p].token \in Scope(r, kind)
        BY <1>2, <3>2, <3>6
      <4>2. txn[p].succ \in RotatingIn(Scope(r, kind))
        BY <2>1, <3>1, <4>1 DEF RotatingIn
      <4>3. QED
        BY <3>1, <4>2
    <3>7. QED
      BY <3>4, <3>5, <3>6
  <2>2. QED
    BY <2>1 DEF Excuses
<1>9. SurvivorsOverlap'
  BY <1>4 DEF Sweeps, SurvivorsOverlap, Unrevoked
<1>10. QED
  BY <1>6, <1>7, <1>8, <1>9 DEF Sweeps

LEMMA SweepSweeps ==
  ASSUME Core, Sweeps, NEW r \in Request, Sweep(r)
  PROVE  Sweeps'
<1> DEFINE t == txn[r]
           n == [t EXCEPT !.pc = "sweeping", !.todo = Scope(r, t.kind),
                          !.covers = Covered(r, t.kind)]
<1>1. t \in Open /\ t.pc = "reading" /\ UNCHANGED <<sess, swept>>
  BY DEF Core, Typed, Sweep, tables
<1>2. n.pc = "sweeping" /\ n.kind = t.kind /\ n.token = t.token
      /\ n.todo = Scope(r, t.kind) /\ n.covers = Covered(r, t.kind)
  BY <1>1 DEF Open
<1>3. Step(r, n) /\ excused' = excused \cup RotatingIn(Scope(r, t.kind))
  BY DEF Sweep
<1>4. t.kind = "reuse" => Known(t.token)
  BY DEF Sweeps, SweepsExist
<1> HIDE DEF n
<1>5. QED
  BY <1>1, <1>2, <1>3, <1>4, UpdateSweeps

LEMMA LogoutAllSweeps ==
  ASSUME Core, Sweeps, NEW r \in Request, LogoutAll(r)
  PROVE  Sweeps'
<1> DEFINE n == [NoTxn EXCEPT !.pc = "sweeping", !.kind = "logout_all",
                              !.todo = Scope(r, "logout_all"),
                              !.covers = Covered(r, "logout_all")]
<1>1. n.pc = "sweeping" /\ n.kind = "logout_all" /\ n.todo = Scope(r, "logout_all")
      /\ n.covers = Covered(r, "logout_all")
  BY DEF NoTxn
<1>2. Step(r, n) /\ excused' = excused \cup RotatingIn(Scope(r, "logout_all"))
      /\ UNCHANGED <<sess, swept>>
  BY DEF LogoutAll, tables
<1> HIDE DEF n
<1>3. QED
  BY <1>1, <1>2, UpdateSweeps

\* The successor of a rotation is in the family of its token, which excused it
\* if that was swept; a login's family is new, and no sweep covers it.
LEMMA GrantSweeps ==
  ASSUME SessionsAssumption, Core, Sweeps, NEW r \in Request, CommitGrant(r)
  PROVE  Sweeps'
<1> DEFINE t == txn[r]
<1>1. Step(r, NoTxn) /\ UNCHANGED <<swept, excused>>
  BY DEF CommitGrant
<1>2. txn'[r] = NoTxn /\ \A q \in Request \ {r} : txn'[q] = txn[q]
  BY <1>1, EndTxn
<1>3. NoTxn.covers = {} /\ NoTxn.pc = "idle" /\ NoTxn.kind = "none"
  BY DEF NoTxn
<1>4. t.succ \in SessionId /\ ~Exists(t.succ)
  BY GrantRows
<1>5. sess'[t.succ].family = FamilyOf(r)
  <2>1. sess'[t.succ] = [state |-> "live", family |-> FamilyOf(r), replaced |-> None]
    BY GrantRows
  <2>2. QED
    BY <2>1
<1>6. \A s \in SessionId : s # t.succ => sess'[s].family = sess[s].family
  BY GrantStates
<1>7. \A s \in SessionId : s # t.succ /\ Unrevoked(s)' => Unrevoked(s)
  BY GrantStates
<1>8. \A s \in SessionId : Exists(s) => Exists(s)'
  BY GrantStates
<1>9. \A f : f \in swept' \/ (\E q \in Request : f \in txn'[q].covers) => Met(f)
  <2>1. \A q \in Request : \A f : f \in txn'[q].covers => f \in txn[q].covers
    BY <1>2, <1>3
  <2>2. QED
    BY <1>1, <2>1 DEF Met, SweepOpen
<1>10. Met(FamilyOf(r)) => t.succ \in excused
  <2>1. CASE t.kind = "refresh"
    <3>1. t.pc = "claimed" /\ FamilyOf(r) = sess[t.token].family
      BY <2>1 DEF CommitGrant, FamilyOf
    <3>2. QED
      BY <2>1, <3>1 DEF Sweeps, Excuses
  <2>2. CASE t.kind # "refresh"
    BY <1>4, <2>2 DEF Sweeps, SweepsExist, FamilyOf
  <2>3. QED
    BY <2>1, <2>2
<1>11. SweepsExist'
  <2>1. ASSUME NEW q \in Request, txn'[q].kind = "reuse"
        PROVE  Known(txn[q].token)' /\ txn'[q].token = txn[q].token
    <3>1. q # r /\ txn'[q] = txn[q]
      BY <1>2, <1>3, <2>1
    <3>2. Known(txn[q].token)
      BY <2>1, <3>1 DEF Sweeps, SweepsExist
    <3>3. QED
      BY <1>8, <3>1, <3>2 DEF Known, Exists
  <2>2. \A f \in SessionId : f \in swept' \/ (\E q \in Request : f \in txn'[q].covers)
          => Exists(f)'
    BY <1>8, <1>9 DEF Sweeps, SweepsExist
  <2>3. QED
    BY <2>1, <2>2 DEF SweepsExist, Known, Exists, Met, SweepOpen
<1>12. Reached'
  <2>1. ASSUME NEW q \in Request, NEW s \in SessionId,
               Unrevoked(s)', sess'[s].family \in txn'[q].covers
        PROVE  s \in txn'[q].todo \cup txn'[q].locks \cup excused
    <3>1. q # r /\ txn'[q] = txn[q]
      BY <1>2, <1>3, <2>1
    <3>2. CASE s = t.succ
      <4>1. Met(FamilyOf(r))
        BY <1>5, <2>1, <3>1, <3>2 DEF Met, SweepOpen
      <4>2. QED
        BY <1>10, <3>2, <4>1
    <3>3. CASE s # t.succ
      <4>1. Unrevoked(s) /\ sess[s].family \in txn[q].covers
        BY <1>6, <1>7, <2>1, <3>1, <3>3
      <4>2. QED
        BY <3>1, <4>1 DEF Sweeps, Reached
    <3>4. QED
      BY <3>2, <3>3
  <2>2. QED
    BY <1>1, <2>1 DEF Reached, Unrevoked
<1>13. Excuses'
  <2>1. ASSUME NEW p \in Request, txn'[p].pc = "claimed", txn'[p].kind = "refresh",
               Met(sess[txn[p].token].family)'
        PROVE  txn'[p].succ \in excused
    <3>1. p # r /\ txn'[p] = txn[p]
      BY <1>2, <1>3, <2>1
    <3>2. txn[p].token \in SessionId /\ Unrevoked(txn[p].token)
      BY <2>1, <3>1, Holds
    <3>3. txn[p].token # t.succ
      BY <1>4, <3>2 DEF Exists, Unrevoked
    <3>4. sess'[txn'[p].token].family = sess[txn[p].token].family
      BY <1>6, <3>1, <3>2, <3>3
    <3>5. Met(sess[txn[p].token].family)
      BY <1>9, <2>1, <3>4 DEF Met, SweepOpen
    <3>6. QED
      BY <2>1, <3>1, <3>5 DEF Sweeps, Excuses
  <2>2. QED
    BY <1>1, <2>1 DEF Excuses
<1>14. SurvivorsOverlap'
  <2>1. ASSUME NEW s \in SessionId, Unrevoked(s)', sess'[s].family \in swept
        PROVE  s \in excused
    <3>1. CASE s = t.succ
      BY <1>5, <1>10, <2>1, <3>1 DEF Met
    <3>2. CASE s # t.succ
      BY <1>6, <1>7, <2>1, <3>2 DEF Sweeps, SurvivorsOverlap
    <3>3. QED
      BY <3>1, <3>2
  <2>2. QED
    BY <1>1, <2>1 DEF SurvivorsOverlap, Unrevoked
<1>15. QED
  BY <1>11, <1>12, <1>13, <1>14 DEF Sweeps

\* A step that writes rows without adding one, and ends the covering of the
\* families it adds to swept once no row of theirs is left.
LEMMA RowsSweeps ==
  ASSUME Core, Sweeps,
         \A q \in Request : txn'[q] \in {txn[q], NoTxn},
         \A s \in SessionId : /\ sess'[s].family = sess[s].family
                              /\ Exists(s) => Exists(s)'
                              /\ Unrevoked(s)' => Unrevoked(s),
         excused' = excused,
         \A f \in swept' : Met(f),
         \A s \in SessionId : Unrevoked(s)' /\ sess[s].family \in swept' => s \in excused
  PROVE  Sweeps'
<1>1. NoTxn.covers = {} /\ NoTxn.pc = "idle" /\ NoTxn.kind = "none"
  BY DEF NoTxn
<1>2. \A f : f \in swept' \/ (\E q \in Request : f \in txn'[q].covers) => Met(f)
  <2>1. \A q \in Request : \A f : f \in txn'[q].covers => f \in txn[q].covers
    BY <1>1
  <2>2. QED
    BY <2>1 DEF Met, SweepOpen
<1>3. SweepsExist'
  <2>1. ASSUME NEW q \in Request, txn'[q].kind = "reuse"
        PROVE  Known(txn[q].token)' /\ txn'[q].token = txn[q].token
    <3>1. txn'[q] = txn[q]
      BY <1>1, <2>1
    <3>2. Known(txn[q].token)
      BY <2>1, <3>1 DEF Sweeps, SweepsExist
    <3>3. QED
      BY <3>1, <3>2 DEF Known, Exists
  <2>2. \A f \in SessionId : f \in swept' \/ (\E q \in Request : f \in txn'[q].covers)
          => Exists(f)'
    BY <1>2 DEF Sweeps, SweepsExist
  <2>3. QED
    BY <2>1, <2>2 DEF SweepsExist, Known, Exists, Met, SweepOpen
<1>4. Reached'
  <2>1. ASSUME NEW q \in Request, NEW s \in SessionId,
               Unrevoked(s)', sess'[s].family \in txn'[q].covers
        PROVE  s \in txn'[q].todo \cup txn'[q].locks \cup excused
    <3>1. txn'[q] = txn[q]
      BY <1>1, <2>1
    <3>2. QED
      BY <2>1, <3>1 DEF Sweeps, Reached
  <2>2. QED
    BY <2>1 DEF Reached, Unrevoked
<1>5. Excuses'
  <2>1. ASSUME NEW p \in Request, txn'[p].pc = "claimed", txn'[p].kind = "refresh",
               Met(sess[txn[p].token].family)'
        PROVE  txn'[p].succ \in excused
    <3>1. txn'[p] = txn[p]
      BY <1>1, <2>1
    <3>2. txn[p].token \in SessionId
      BY <2>1, <3>1, Holds
    <3>3. sess'[txn'[p].token].family = sess[txn[p].token].family
      BY <3>1, <3>2
    <3>4. Met(sess[txn[p].token].family)
      BY <1>2, <2>1, <3>3 DEF Met, SweepOpen
    <3>5. QED
      BY <2>1, <3>1, <3>4 DEF Sweeps, Excuses
  <2>2. QED
    BY <2>1 DEF Excuses
<1>6. SurvivorsOverlap'
  <2>1. \A s \in SessionId : Unrevoked(s)' /\ sess'[s].family \in swept' => s \in excused
    OBVIOUS
  <2>2. QED
    BY <2>1 DEF SurvivorsOverlap, Unrevoked
<1>7. QED
  BY <1>3, <1>4, <1>5, <1>6 DEF Sweeps

\* When a sweep commits, the usable sessions it has not revoked are excused.
LEMMA RevocationSweeps ==
  ASSUME Core, Sweeps, NEW r \in Request, CommitRevocation(r)
  PROVE  Sweeps'
<1> DEFINE t == txn[r]
<1>1. Step(r, NoTxn) /\ excused' = excused /\ swept' = swept \cup t.covers
      /\ t.pc = "settling"
  BY DEF CommitRevocation
<1>2. \A q \in Request : txn'[q] \in {txn[q], NoTxn}
  BY <1>1, EndTxn
<1>3. \A f \in swept' : Met(f)
  BY <1>1 DEF Met, SweepOpen
<1>4. t.todo = {}
  BY <1>1 DEF Core, Shaped, Shape
<1>5. ASSUME NEW s \in SessionId, Unrevoked(s)', sess[s].family \in swept'
      PROVE  s \in excused
  <2>1. Unrevoked(s) /\ s \notin t.locks
    BY <1>5, RevocationRows
  <2>2. CASE sess[s].family \in swept
    BY <2>1, <2>2 DEF Sweeps, SurvivorsOverlap
  <2>3. CASE sess[s].family \in t.covers
    BY <1>4, <2>1, <2>3 DEF Sweeps, Reached
  <2>4. QED
    BY <1>1, <1>5, <2>2, <2>3
<1>6. \A s \in SessionId : /\ sess'[s].family = sess[s].family
                           /\ Exists(s) => Exists(s)'
                           /\ Unrevoked(s)' => Unrevoked(s)
  BY RevocationRows
<1>7. QED
  BY <1>1, <1>2, <1>3, <1>5, <1>6, RowsSweeps

LEMMA ExpireSweeps ==
  ASSUME Core, Sweeps, NEW x \in SessionId, Expire(x)
  PROVE  Sweeps'
<1>1. UNCHANGED <<txn, swept, excused>>
  BY DEF Expire, history
<1>2. \A q \in Request : txn'[q] \in {txn[q], NoTxn}
  BY <1>1
<1>3. \A f \in swept' : Met(f)
  BY <1>1 DEF Met
<1>4. \A s \in SessionId : /\ sess'[s].family = sess[s].family
                           /\ Exists(s) => Exists(s)'
                           /\ Unrevoked(s)' => Unrevoked(s)
  BY ExpireRows
<1>5. \A s \in SessionId : Unrevoked(s)' /\ sess[s].family \in swept' => s \in excused
  BY <1>1, <1>4 DEF Sweeps, SurvivorsOverlap
<1>6. QED
  BY <1>1, <1>2, <1>3, <1>4, <1>5, RowsSweeps

LEMMA StillSweeps ==
  ASSUME Sweeps, UNCHANGED <<sess, txn, swept, excused>>
  PROVE  Sweeps'
BY DEF Sweeps, SweepsExist, Reached, Excuses, SurvivorsOverlap, Known, Exists,
       Unrevoked, Met, SweepOpen

LEMMA RequestSweeps ==
  ASSUME SessionsAssumption, Core, Sweeps, NEW r \in Request,
         \/ Login(r) \/ OtpClaim(r) \/ ReadUser(r) \/ Claim(r) \/ RevokeOne(r)
         \/ Sweep(r) \/ LogoutAll(r) \/ SweepEnds(r)
         \/ CommitGrant(r) \/ CommitRevocation(r) \/ Rollback(r)
         \/ \E o \in Otp : OtpPresent(r, o)
         \/ \E s \in SessionId : Present(r, s) \/ Logout(r, s) \/ SweepRow(r, s)
         \/ \E kind \in UserSweep : BeginSweep(r, kind)
  PROVE  Sweeps'
<1>1. Typed
  BY DEF Core
<1>2. CASE \/ Login(r) \/ \E o \in Otp : OtpPresent(r, o)
           \/ \E s \in SessionId : Present(r, s) \/ Logout(r, s)
           \/ \E kind \in UserSweep : BeginSweep(r, kind)
  BY <1>1, <1>2, BeginQuiet, QuietSweeps
<1>3. CASE OtpClaim(r) \/ ReadUser(r) \/ RevokeOne(r) \/ SweepEnds(r)
  BY <1>3, MoveQuiet, QuietSweeps
<1>4. CASE \E s \in SessionId : SweepRow(r, s)
  BY <1>4, RowQuiet, QuietSweeps
<1>5. CASE Claim(r)
  <2>1. CASE Revocable(txn[r].token)
    BY <1>5, <2>1, ClaimSweeps
  <2>2. CASE ~Revocable(txn[r].token)
    <3>1. Step(r, NoTxn) /\ UNCHANGED <<sess, swept, excused>>
      BY <1>5, <2>2 DEF Claim, tables
    <3>2. QED
      BY <1>1, <3>1, EndQuiet, QuietSweeps
  <2>3. QED
    BY <2>1, <2>2
<1>6. CASE Sweep(r) \/ LogoutAll(r)
  BY <1>6, SweepSweeps, LogoutAllSweeps
<1>7. CASE CommitGrant(r) \/ CommitRevocation(r)
  BY <1>7, GrantSweeps, RevocationSweeps
<1>8. CASE Rollback(r)
  <2>1. Step(r, NoTxn) /\ UNCHANGED <<sess, swept, excused>>
    BY <1>8 DEF Rollback, tables, history
  <2>2. QED
    BY <1>1, <2>1, EndQuiet, QuietSweeps
<1>9. QED
  BY <1>2, <1>3, <1>4, <1>5, <1>6, <1>7, <1>8

LEMMA NextSweeps ==
  ASSUME SessionsAssumption, Core, Sweeps, [Next]_vars
  PROVE  Sweeps'
<1>1. CASE \E o \in Otp : OtpCreate(o)
  BY <1>1, StillSweeps DEF OtpCreate, history
<1>2. CASE Reactivate
  BY <1>2, StillSweeps DEF Reactivate, history
<1>3. CASE UNCHANGED vars
  BY <1>3, StillSweeps DEF vars
<1>4. CASE \E x \in SessionId : Expire(x)
  BY <1>4, ExpireSweeps
<1>5. QED
  BY <1>1, <1>2, <1>3, <1>4, RequestSweeps DEF Next

\* What logout_all, a password change, a deactivation or a detected reuse
\* swept stays swept, whatever rotates at the same time: the only sessions of
\* those families still usable descend from a rotation that held its row while
\* the UPDATE chose or waited for its own.  SurvivorsOverlap is not inductive:
\* Reached and Excuses say it of sweeps and rotations that have yet to commit.
THEOREM SweptStaysSwept == Spec => []SurvivorsOverlap
<1>1. Init => Core /\ Sweeps
  BY InitCore, InitSweeps, SessionsAssumption
<1>2. Core /\ Sweeps /\ [Next]_vars => Core' /\ Sweeps'
  BY NextCore, NextSweeps, SessionsAssumption
<1>3. Core /\ Sweeps => SurvivorsOverlap
  BY DEF Sweeps
<1>4. QED
  BY <1>1, <1>2, <1>3, PTL DEF Spec

-----------------------------------------------------------------------------
(* Types, with the bound on token versions: a sweep raises the version     *)
(* once, from a value it read after it began.  So the versions of the user *)
(* and of the open sweeps leave room for all the sweeps that have yet to   *)
(* commit.                                                                 *)

Sweepers == {r \in Request : txn[r].kind \in UserSweep}

SoFar == 1 .. (sweeps + 1)

Paced ==
  /\ sweeps \in 0 .. MaxSweeps
  /\ IsFiniteSet(Sweepers)
  /\ user.tv \in SoFar /\ access \subseteq SoFar /\ retired \subseteq SoFar
  /\ \A r \in Request : txn[r].tv \in SoFar
  /\ user.tv + Cardinality(Sweepers) =< sweeps + 1
  /\ \A r \in Sweepers : txn[r].tv + Cardinality(Sweepers) =< sweeps + 1

Named ==
  /\ \A r \in Request : txn[r].covers \subseteq SessionId
  /\ swept \subseteq SessionId /\ excused \subseteq SessionId
  /\ crossed \in BOOLEAN

LEMMA InitBounds == Init => Paced /\ Named
<1> SUFFICES ASSUME Init PROVE Paced /\ Named
  OBVIOUS
<1>1. \A r \in Request : txn[r] = NoTxn
  BY DEF Init
<1>2. \A r \in Request : txn[r].kind = "none" /\ txn[r].tv = 1 /\ txn[r].covers = {}
  BY <1>1 DEF NoTxn
<1>3. Sweepers = {}
  BY <1>2 DEF Sweepers, UserSweep
<1>4. IsFiniteSet(Sweepers) /\ Cardinality(Sweepers) = 0
  BY <1>3, FS_EmptySet
<1>5. Named
  BY <1>2 DEF Init, Named
<1>6. /\ sweeps = 0 /\ user.tv = 1 /\ access = {} /\ retired = {}
      /\ MaxSweeps \in Nat
  BY SessionsAssumption DEF SessionsAssumption, Init
<1>7. Paced
  BY <1>2, <1>3, <1>4, <1>6 DEF Paced, SoFar
<1>8. QED
  BY <1>5, <1>7

\* A turn of request r that is no sweep's first or last.
Keeps(r) ==
  /\ OthersKeep(r)
  /\ UNCHANGED <<user, sweeps, retired>>
  /\ txn'[r].tv \in {1, user.tv, txn[r].tv}
  /\ txn'[r].kind \in UserSweep => txn[r].kind \in UserSweep
  /\ access' \subseteq access \cup {txn[r].tv}

LEMMA KeepsPace ==
  ASSUME Paced, NEW r \in Request, Keeps(r)
  PROVE  Paced'
<1> DEFINE k == Cardinality(Sweepers)
           m == Cardinality(Sweepers')
<1>1. Sweepers' \subseteq Sweepers
  BY DEF Keeps, OthersKeep, Sweepers
<1>2. IsFiniteSet(Sweepers') /\ m =< k /\ m \in Nat /\ k \in Nat
  BY <1>1, FS_Subset, FS_CardinalityType DEF Paced
<1>3. sweeps \in Nat /\ user.tv \in Nat /\ user.tv >= 1
  BY SessionsAssumption DEF SessionsAssumption, Paced, SoFar
<1>4. \A q \in Request : txn'[q].tv \in SoFar
  BY <1>3 DEF Keeps, OthersKeep, Paced, SoFar
<1>5. user.tv + m =< sweeps + 1
  BY <1>2, <1>3 DEF Paced
<1>6. ASSUME NEW q \in Sweepers' PROVE txn'[q].tv + m =< sweeps + 1
  <2>1. q \in Sweepers /\ q \in Request
    BY <1>1 DEF Sweepers
  <2>2. txn[q].tv \in Nat /\ txn[q].tv + k =< sweeps + 1
    BY <1>3, <2>1 DEF Paced, SoFar
  <2>3. txn'[q].tv \in {1, user.tv, txn[q].tv}
    BY <2>1 DEF Keeps, OthersKeep
  <2>4. QED
    BY <1>2, <1>3, <1>5, <2>2, <2>3
<1>7. access' \subseteq SoFar /\ retired' \subseteq SoFar
  BY DEF Keeps, Paced
<1>8. SoFar' = SoFar /\ UNCHANGED <<user, sweeps>>
  BY DEF Keeps, SoFar
<1> HIDE DEF k, m
<1>9. QED
  BY <1>2, <1>4, <1>5, <1>6, <1>7, <1>8 DEF Paced, k, m

\* A sweep begins: it has room because it is counted from now on.
LEMMA BeginsPace ==
  ASSUME Paced, NEW r \in Request, OthersKeep(r), sweeps < MaxSweeps, sweeps' = sweeps + 1,
         txn'[r].tv \in {1, user.tv}, UNCHANGED <<user, access, retired>>
  PROVE  Paced'
<1> DEFINE k == Cardinality(Sweepers)
           m == Cardinality(Sweepers')
<1>1. Sweepers' \subseteq Sweepers \cup {r}
  BY DEF OthersKeep, Sweepers
<1>2. /\ IsFiniteSet(Sweepers \cup {r}) /\ k \in Nat
      /\ Cardinality(Sweepers \cup {r}) =< k + 1
  <2>1. IsFiniteSet(Sweepers)
    BY DEF Paced
  <2>2. /\ IsFiniteSet(Sweepers \cup {r})
        /\ Cardinality(Sweepers \cup {r}) = IF r \in Sweepers THEN k ELSE k + 1
    BY <2>1, FS_AddElement
  <2>3. k \in Nat
    BY <2>1, FS_CardinalityType
  <2>4. QED
    BY <2>2, <2>3
<1>3. IsFiniteSet(Sweepers') /\ m =< k + 1 /\ m \in Nat
  BY <1>1, <1>2, FS_Subset, FS_CardinalityType
<1>4. sweeps \in Nat /\ user.tv \in Nat /\ user.tv >= 1
  BY SessionsAssumption DEF SessionsAssumption, Paced, SoFar
<1>5. SoFar \subseteq SoFar'
  BY <1>4 DEF SoFar
<1>6. \A q \in Request : txn'[q].tv \in SoFar'
  BY <1>4, <1>5 DEF OthersKeep, Paced, SoFar
<1>7. user'.tv + m =< sweeps' + 1
  BY <1>3, <1>4, <1>2 DEF Paced
<1>8. ASSUME NEW q \in Sweepers' PROVE txn'[q].tv + m =< sweeps' + 1
  <2>1. CASE q = r
    BY <1>3, <1>4, <1>7, <2>1
  <2>2. CASE q # r
    <3>1. q \in Sweepers /\ q \in Request /\ txn'[q] = txn[q]
      BY <1>1, <2>2 DEF OthersKeep, Sweepers
    <3>2. txn[q].tv \in Nat /\ txn[q].tv + k =< sweeps + 1
      BY <1>4, <3>1 DEF Paced, SoFar
    <3>3. QED
      BY <1>2, <1>3, <1>4, <3>1, <3>2
  <2>3. QED
    BY <2>1, <2>2
<1>9. sweeps' \in 0 .. MaxSweeps
  BY <1>4, SessionsAssumption DEF SessionsAssumption
<1>10. user'.tv \in SoFar' /\ access' \subseteq SoFar' /\ retired' \subseteq SoFar'
  BY <1>5 DEF Paced
<1> HIDE DEF k, m
<1>11. QED
  BY <1>3, <1>6, <1>7, <1>8, <1>9, <1>10 DEF Paced, k, m

\* A sweep commits: the version it writes takes the room it had.
LEMMA CommitsPace ==
  ASSUME Typed, Paced, NEW r \in Request, CommitRevocation(r)
  PROVE  Paced'
<1>1. txn'[r] = NoTxn /\ OthersKeep(r)
  BY StepEffect DEF CommitRevocation
<1>2. txn'[r].tv = 1 /\ txn'[r].kind = "none"
  BY <1>1 DEF NoTxn
<1>3. CASE txn[r].kind \notin UserSweep
  <2>1. Keeps(r)
    BY <1>1, <1>2, <1>3 DEF CommitRevocation, Keeps, UserSweep
  <2>2. QED
    BY <2>1, KeepsPace
<1>4. CASE txn[r].kind \in UserSweep
  <2> DEFINE k == Cardinality(Sweepers)
  <2>1. /\ user'.tv = txn[r].tv + 1
        /\ retired' = retired \cup {user.tv}
        /\ UNCHANGED <<access, sweeps>>
    <3>1. /\ user' = [active |-> user.active /\ txn[r].kind # "deactivate",
                      tv |-> NextVersion(r)]
          /\ retired' = retired \cup {user.tv}
      BY <1>4 DEF CommitRevocation
    <3>2. UNCHANGED <<access, sweeps>>
      BY DEF CommitRevocation
    <3>3. QED
      BY <3>1, <3>2 DEF NextVersion
  <2>2. r \in Sweepers
    BY <1>4 DEF Sweepers
  <2>3. Sweepers' = Sweepers \ {r}
    BY <1>1, <1>2 DEF OthersKeep, Sweepers, UserSweep
  <2>4. k \in Nat /\ IsFiniteSet(Sweepers') /\ Cardinality(Sweepers') = k - 1
    BY <2>2, <2>3, FS_RemoveElement, FS_CardinalityType DEF Paced
  <2>5. k >= 1
    <3>1. Cardinality(Sweepers') \in Nat
      BY <2>4, FS_CardinalityType
    <3>2. QED
      BY <2>4, <3>1
  <2> HIDE DEF k
  <2>6. sweeps \in Nat /\ txn[r].tv \in Nat /\ txn[r].tv + k =< sweeps + 1
    BY <2>2, SessionsAssumption DEF SessionsAssumption, Paced, SoFar, k
  <2>7. user'.tv \in SoFar /\ user'.tv + (k - 1) =< sweeps + 1
    BY <2>1, <2>4, <2>5, <2>6 DEF SoFar
  <2>8. \A q \in Request : txn'[q].tv \in SoFar
    BY <1>1, <1>2, <2>6 DEF OthersKeep, Paced, SoFar
  <2>9. ASSUME NEW q \in Sweepers' PROVE txn'[q].tv + (k - 1) =< sweeps + 1
    <3>1. q \in Sweepers /\ q \in Request /\ txn'[q] = txn[q]
      BY <1>1, <2>3 DEF OthersKeep, Sweepers
    <3>2. txn[q].tv \in Nat /\ txn[q].tv + k =< sweeps + 1
      BY <3>1 DEF Paced, SoFar, k
    <3>3. QED
      BY <2>4, <2>6, <3>1, <3>2
  <2>10. SoFar' = SoFar
    BY <2>1 DEF SoFar
  <2>11. access' \subseteq SoFar /\ retired' \subseteq SoFar
    BY <2>1 DEF Paced
  <2>12. sweeps' \in 0 .. MaxSweeps
    BY <2>1 DEF Paced
  <2>13. QED
    BY <2>1, <2>4, <2>7, <2>8, <2>9, <2>10, <2>11, <2>12 DEF Paced
<1>5. QED
  BY <1>3, <1>4

\* A turn that names families, swept or excused sessions.
Names(r) ==
  /\ OthersKeep(r)
  /\ txn'[r].covers \subseteq SessionId
  /\ swept' \subseteq swept \cup txn[r].covers
  /\ excused' \subseteq excused \cup SessionId
  /\ crossed' \in BOOLEAN

LEMMA KeepsNames ==
  ASSUME Named, NEW r \in Request, Names(r)
  PROVE  Named'
BY DEF Named, Names, OthersKeep

\* A sweep covers families, which are sessions.
LEMMA CoversNamed ==
  ASSUME Core, NEW r \in Request, NEW kind, kind = "reuse" => Known(txn[r].token)
  PROVE  Covered(r, kind) \subseteq SessionId
BY DEF Core, FamiliesExist, Known, Covered

\* Rotations will create sessions.
LEMMA RotatingNamed ==
  ASSUME Typed, Shaped, NEW S
  PROVE  RotatingIn(S) \subseteq SessionId
<1>1. \A q \in Request : txn[q].pc = "claimed" => txn[q].succ \in SessionId
  BY DEF Shaped, Shape
<1>2. QED
  BY <1>1 DEF RotatingIn

\* Request r goes on as n.
LEMMA Turns ==
  ASSUME Typed, Named, NEW r \in Request, NEW n, Step(r, n),
         n.tv \in {1, user.tv, txn[r].tv},
         n.kind \in UserSweep => txn[r].kind \in UserSweep,
         n.covers \subseteq SessionId,
         excused' \subseteq excused \cup SessionId,
         UNCHANGED <<user, access, sweeps, swept, retired, crossed>>
  PROVE  Keeps(r) /\ Names(r)
<1>1. txn'[r] = n /\ OthersKeep(r)
  BY StepEffect
<1>2. crossed' \in BOOLEAN
  BY DEF Named
<1>3. QED
  BY <1>1, <1>2 DEF Keeps, Names

\* A request begins, with no part in a sweep, or ends.
LEMMA BeginsTurn ==
  ASSUME Typed, Named, NEW r \in Request,
         \/ Login(r) \/ Rollback(r)
         \/ \E o \in Otp : OtpPresent(r, o)
         \/ \E s \in SessionId : Present(r, s) \/ Logout(r, s)
  PROVE  Keeps(r) /\ Names(r)
<1> USE DEF tables, history
<1>1. CASE Login(r)
  <2>1. PICK s \in FreshId :
          Step(r, [NoTxn EXCEPT !.pc = "settling", !.kind = "login",
                                !.succ = s, !.tv = user.tv])
    BY <1>1 DEF Login
  <2>2. UNCHANGED <<user, access, sweeps, swept, excused, retired, crossed>>
    BY <1>1 DEF Login
  <2>3. QED
    BY <2>1, <2>2, Turns DEF NoTxn, UserSweep
<1>2. CASE Rollback(r)
  <2>1. Step(r, NoTxn) /\ UNCHANGED <<user, access, sweeps, swept, excused, retired, crossed>>
    BY <1>2 DEF Rollback
  <2>2. QED
    BY <2>1, Turns DEF NoTxn, UserSweep
<1>3. ASSUME NEW o \in Otp, OtpPresent(r, o) PROVE Keeps(r) /\ Names(r)
  <2>1. /\ Step(r, [NoTxn EXCEPT !.pc = "presented", !.kind = "otp", !.token = o])
        /\ UNCHANGED <<user, access, sweeps, swept, excused, retired, crossed>>
    BY <1>3 DEF OtpPresent
  <2>2. QED
    BY <2>1, Turns DEF NoTxn, UserSweep
<1>4. ASSUME NEW s \in SessionId, Logout(r, s) PROVE Keeps(r) /\ Names(r)
  <2>1. /\ Step(r, [NoTxn EXCEPT !.pc = "revoking", !.kind = "logout", !.token = s])
        /\ UNCHANGED <<user, access, sweeps, swept, excused, retired, crossed>>
    BY <1>4 DEF Logout
  <2>2. QED
    BY <2>1, Turns DEF NoTxn, UserSweep
<1>5. ASSUME NEW s \in SessionId, Present(r, s) PROVE Keeps(r) /\ Names(r)
  <2> DEFINE t == [NoTxn EXCEPT !.kind = "refresh", !.token = s]
  <2>1. PICK n \in {[t EXCEPT !.pc = "presented"], [t EXCEPT !.pc = "revoking"],
                    [t EXCEPT !.pc = "reading", !.kind = "reuse"]} : Step(r, n)
    BY <1>5 DEF Present
  <2>2. n.tv = 1 /\ n.kind \in {"refresh", "reuse"} /\ n.covers = {}
    BY DEF NoTxn
  <2>3. UNCHANGED <<user, access, sweeps, swept, excused, retired, crossed>>
    BY <1>5 DEF Present
  <2> HIDE DEF t
  <2>4. QED
    BY <2>1, <2>2, <2>3, Turns DEF UserSweep
<1>6. QED
  BY <1>1, <1>2, <1>3, <1>4, <1>5

\* A request goes on: it reads the user, claims, revokes, or sweeps a row.
LEMMA GoesOnTurn ==
  ASSUME Typed, Named, NEW r \in Request,
         \/ OtpClaim(r) \/ ReadUser(r) \/ Claim(r) \/ RevokeOne(r) \/ SweepEnds(r)
         \/ \E s \in SessionId : SweepRow(r, s)
  PROVE  Keeps(r) /\ Names(r)
<1> DEFINE t == txn[r]
           Same(n) == n.tv \in {1, user.tv, t.tv} /\ n.kind \in {"none", t.kind}
                      /\ n.covers \in {{}, t.covers}
<1>1. t \in Open /\ t.covers \subseteq SessionId
  BY DEF Typed, Named
<1>2. Same(NoTxn)
  BY DEF NoTxn
<1>3. /\ UNCHANGED <<user, access, sweeps, swept, retired, crossed>>
      /\ excused' \subseteq excused \cup SessionId
  BY DEF OtpClaim, ReadUser, Claim, RevokeOne, SweepEnds, SweepRow, tables, history, FreshId
<1>4. ASSUME NEW n, Step(r, n), Same(n) PROVE Keeps(r) /\ Names(r)
  BY <1>1, <1>3, <1>4, Turns DEF UserSweep
<1>5. CASE OtpClaim(r)
  <2>1. ASSUME NEW s PROVE Same([t EXCEPT !.pc = "claimed", !.succ = s])
    BY <1>1 DEF Open
  <2> HIDE DEF Same
  <2>2. CASE Step(r, NoTxn)
    BY <1>2, <1>4, <2>2
  <2>3. ASSUME NEW s, Step(r, [t EXCEPT !.pc = "claimed", !.succ = s])
        PROVE  Keeps(r) /\ Names(r)
    BY <1>4, <2>1, <2>3
  <2>4. QED
    BY <1>5, <2>2, <2>3 DEF OtpClaim
<1>6. CASE ReadUser(r)
  <2>1. Same([t EXCEPT !.pc = "authorized", !.tv = user.tv])
    BY <1>1 DEF Open
  <2>2. Same([t EXCEPT !.pc = "revoking"])
    BY <1>1 DEF Open
  <2> HIDE DEF Same
  <2>3. QED
    BY <1>2, <1>4, <1>6, <2>1, <2>2 DEF ReadUser
<1>7. CASE Claim(r)
  <2>1. ASSUME NEW s
        PROVE  Same([t EXCEPT !.pc = "claimed", !.succ = s, !.locks = {t.token}])
    BY <1>1 DEF Open
  <2> HIDE DEF Same
  <2>2. CASE Step(r, NoTxn)
    BY <1>2, <1>4, <2>2
  <2>3. ASSUME NEW s, Step(r, [t EXCEPT !.pc = "claimed", !.succ = s, !.locks = {t.token}])
        PROVE  Keeps(r) /\ Names(r)
    BY <1>4, <2>1, <2>3
  <2>4. QED
    BY <1>7, <2>2, <2>3 DEF Claim
<1>8. CASE RevokeOne(r)
  <2>1. Same([t EXCEPT !.pc = "settling", !.locks = {t.token}])
    BY <1>1 DEF Open
  <2> HIDE DEF Same
  <2>2. QED
    BY <1>2, <1>4, <1>8, <2>1 DEF RevokeOne
<1>9. CASE SweepEnds(r)
  <2>1. \A tv \in {user.tv, t.tv} : Same([t EXCEPT !.pc = "settling", !.tv = tv])
    BY <1>1 DEF Open
  <2>2. PICK tv \in {user.tv, t.tv} : Step(r, [t EXCEPT !.pc = "settling", !.tv = tv])
    BY <1>9 DEF SweepEnds
  <2> HIDE DEF Same
  <2>3. QED
    BY <1>4, <2>1, <2>2
<1>10. ASSUME NEW s \in SessionId, SweepRow(r, s) PROVE Keeps(r) /\ Names(r)
  <2> DEFINE n == [t EXCEPT !.todo = t.todo \ {s},
                            !.locks = IF Revocable(s) THEN t.locks \cup {s} ELSE t.locks]
  <2>1. Same(n)
    BY <1>1 DEF Open
  <2>2. Step(r, n)
    BY <1>10 DEF SweepRow
  <2> HIDE DEF Same, n
  <2>3. QED
    BY <1>4, <2>1, <2>2
<1>11. QED
  BY <1>5, <1>6, <1>7, <1>8, <1>9, <1>10

\* The UPDATE of a sweep starts.
LEMMA SweepTurn ==
  ASSUME Core, SweepsExist, Named, NEW r \in Request, Sweep(r)
  PROVE  Keeps(r) /\ Names(r)
<1>1. txn[r].kind = "reuse" => Known(txn[r].token)
  BY DEF SweepsExist
<1>2. Covered(r, txn[r].kind) \subseteq SessionId
  BY <1>1, CoversNamed
<1>3. RotatingIn(Scope(r, txn[r].kind)) \subseteq SessionId
  BY RotatingNamed DEF Core
<1> DEFINE n == [txn[r] EXCEPT !.pc = "sweeping", !.todo = Scope(r, txn[r].kind),
                               !.covers = Covered(r, txn[r].kind)]
<1>4. txn[r] \in Open
  BY DEF Core, Typed
<1>5. n.tv = txn[r].tv /\ n.kind = txn[r].kind /\ n.covers = Covered(r, txn[r].kind)
  BY <1>4 DEF Open
<1>6. /\ Step(r, n)
      /\ excused' = excused \cup RotatingIn(Scope(r, txn[r].kind))
      /\ UNCHANGED <<user, access, sweeps, swept, retired, crossed>>
  BY DEF Sweep, tables
<1> HIDE DEF n
<1>7. Typed
  BY DEF Core
<1>8. QED
  BY <1>2, <1>3, <1>5, <1>6, <1>7, Turns

\* A sweep of the user begins.
LEMMA SweepBegins ==
  ASSUME Core, Paced, Named, NEW r \in Request,
         LogoutAll(r) \/ \E kind \in UserSweep : BeginSweep(r, kind)
  PROVE  Paced' /\ Named'
<1>0. Typed
  BY DEF Core
<1>1. CASE LogoutAll(r)
  <2> DEFINE n == [NoTxn EXCEPT !.pc = "sweeping", !.kind = "logout_all",
                                !.todo = Scope(r, "logout_all"),
                                !.covers = Covered(r, "logout_all")]
  <2>1. /\ Step(r, n)
        /\ excused' = excused \cup RotatingIn(Scope(r, "logout_all"))
        /\ sweeps < MaxSweeps /\ sweeps' = sweeps + 1
        /\ UNCHANGED <<user, access, swept, retired, crossed>>
    BY <1>1 DEF LogoutAll, tables
  <2>2. n.tv = 1 /\ n.covers = Covered(r, "logout_all")
    BY DEF NoTxn
  <2> HIDE DEF n
  <2>3. txn'[r] = n /\ OthersKeep(r)
    BY <1>0, <2>1, StepEffect
  <2>4. Covered(r, "logout_all") \subseteq SessionId
    BY CoversNamed
  <2>5. RotatingIn(Scope(r, "logout_all")) \subseteq SessionId
    BY RotatingNamed DEF Core
  <2>6. Names(r)
    BY <2>1, <2>2, <2>3, <2>4, <2>5 DEF Names, Named
  <2>7. Paced'
    BY <2>1, <2>2, <2>3, BeginsPace
  <2>8. QED
    BY <2>6, <2>7, KeepsNames
<1>2. ASSUME NEW kind \in UserSweep, BeginSweep(r, kind) PROVE Paced' /\ Named'
  <2> DEFINE n == [NoTxn EXCEPT !.pc = "reading", !.kind = kind, !.tv = user.tv]
  <2>1. /\ Step(r, n)
        /\ sweeps < MaxSweeps /\ sweeps' = sweeps + 1
        /\ UNCHANGED <<user, access, swept, excused, retired, crossed>>
    BY <1>2 DEF BeginSweep, tables, history
  <2>2. n.tv = user.tv /\ n.covers = {}
    BY DEF NoTxn
  <2> HIDE DEF n
  <2>3. txn'[r] = n /\ OthersKeep(r)
    BY <1>0, <2>1, StepEffect
  <2>4. Names(r)
    BY <2>1, <2>2, <2>3 DEF Names, Named
  <2>5. Paced'
    BY <2>1, <2>2, <2>3, BeginsPace
  <2>6. QED
    BY <2>4, <2>5, KeepsNames
<1>3. QED
  BY <1>1, <1>2

\* A transaction commits.
LEMMA CommitTurn ==
  ASSUME Core, Paced, Named, NEW r \in Request, CommitGrant(r) \/ CommitRevocation(r)
  PROVE  Paced' /\ Named'
<1>0. Typed
  BY DEF Core
<1>1. /\ txn'[r] = NoTxn /\ OthersKeep(r)
      /\ NoTxn.tv = 1 /\ NoTxn.kind \notin UserSweep /\ NoTxn.covers = {}
  <2>1. Step(r, NoTxn)
    BY DEF CommitGrant, CommitRevocation
  <2>2. NoTxn.tv = 1 /\ NoTxn.kind \notin UserSweep /\ NoTxn.covers = {}
    BY DEF NoTxn, UserSweep
  <2>3. QED
    BY <1>0, <2>1, <2>2, StepEffect
<1>2. CASE CommitGrant(r)
  <2>1. /\ access' = access \cup {txn[r].tv}
        /\ UNCHANGED <<user, sweeps, swept, excused, retired, crossed>>
    BY <1>2 DEF CommitGrant
  <2>2. Keeps(r) /\ Names(r)
    BY <1>1, <2>1 DEF Keeps, Names, Named
  <2>3. QED
    BY <2>2, KeepsPace, KeepsNames
<1>3. CASE CommitRevocation(r)
  <2>1. swept' = swept \cup txn[r].covers /\ UNCHANGED excused
    BY <1>3 DEF CommitRevocation
  <2>2. crossed' \in BOOLEAN
    BY <1>3 DEF CommitRevocation, Named
  <2>3. Names(r)
    BY <1>1, <2>1, <2>2 DEF Names
  <2>4. QED
    BY <1>0, <1>3, <2>3, CommitsPace, KeepsNames
<1>4. QED
  BY <1>2, <1>3

\* Steps that touch no transaction, and no version.
LEMMA StillBounds ==
  ASSUME Paced, Named, UNCHANGED <<txn, access, sweeps, swept, excused, retired, crossed>>,
         user'.tv = user.tv
  PROVE  Paced' /\ Named'
<1>1. Sweepers' = Sweepers /\ SoFar' = SoFar
  BY DEF Sweepers, SoFar
<1>2. QED
  BY <1>1 DEF Paced, Named

LEMMA NextBounds ==
  ASSUME Core, Sweeps, Paced, Named, [Next]_vars
  PROVE  Paced' /\ Named'
<1>1. Typed
  BY DEF Core
<1>2. ASSUME NEW r \in Request, Keeps(r) /\ Names(r) PROVE Paced' /\ Named'
  BY <1>2, KeepsPace, KeepsNames
<1>3. CASE \E o \in Otp : OtpCreate(o)
  BY <1>3, StillBounds DEF OtpCreate, history
<1>4. CASE \E s \in SessionId : Expire(s)
  BY <1>4, StillBounds DEF Expire, history
<1>5. CASE Reactivate
  <2>1. user'.tv = user.tv
    BY <1>1, <1>5 DEF Reactivate, Typed
  <2>2. QED
    BY <1>5, <2>1, StillBounds DEF Reactivate, history
<1>6. CASE UNCHANGED vars
  BY <1>6, StillBounds DEF vars
<1>7. ASSUME NEW r \in Request,
             \/ Login(r) \/ Rollback(r)
             \/ \E o \in Otp : OtpPresent(r, o)
             \/ \E s \in SessionId : Present(r, s) \/ Logout(r, s)
      PROVE  Paced' /\ Named'
  BY <1>1, <1>2, <1>7, BeginsTurn
<1>8. ASSUME NEW r \in Request,
             \/ OtpClaim(r) \/ ReadUser(r) \/ Claim(r) \/ RevokeOne(r) \/ SweepEnds(r)
             \/ \E s \in SessionId : SweepRow(r, s)
      PROVE  Paced' /\ Named'
  BY <1>1, <1>2, <1>8, GoesOnTurn
<1>9. ASSUME NEW r \in Request, Sweep(r) PROVE Paced' /\ Named'
  BY <1>2, <1>9, SweepTurn DEF Sweeps
<1>10. ASSUME NEW r \in Request,
              \/ LogoutAll(r) \/ \E kind \in UserSweep : BeginSweep(r, kind)
              \/ CommitGrant(r) \/ CommitRevocation(r)
       PROVE  Paced' /\ Named'
  BY <1>10, SweepBegins, CommitTurn
<1>11. QED
  BY <1>3, <1>4, <1>5, <1>6, <1>7, <1>8, <1>9, <1>10 DEF Next

SessionsInv == Core /\ Sweeps /\ Paced /\ Named

LEMMA InitSessions == Init => SessionsInv
BY InitCore, InitSweeps, InitBounds, SessionsAssumption DEF SessionsInv

LEMMA NextSessions == SessionsInv /\ [Next]_vars => SessionsInv'
<1> SUFFICES ASSUME SessionsInv, [Next]_vars PROVE SessionsInv'
  OBVIOUS
<1>1. Core /\ Sweeps /\ Paced /\ Named
  BY DEF SessionsInv
<1>2. Core'
  BY <1>1, NextCore, SessionsAssumption
<1>3. Sweeps'
  BY <1>1, NextSweeps, SessionsAssumption
<1>4. Paced' /\ Named'
  BY <1>1, NextBounds
<1>5. QED
  BY <1>2, <1>3, <1>4 DEF SessionsInv

LEMMA SessionsTypes == SessionsInv => TypeOK
<1> SUFFICES ASSUME SessionsInv PROVE TypeOK
  OBVIOUS
<1>1. Typed /\ Paced /\ Named
  BY DEF SessionsInv, Core
<1>2. SoFar \subseteq Version
  BY <1>1, SessionsAssumption DEF SessionsAssumption, Paced, SoFar, Version
<1>3. \A r \in Request : txn[r].tv \in Version /\ txn[r].covers \in SUBSET SessionId
  BY <1>1, <1>2 DEF Paced, Named
<1>4. ASSUME NEW t \in Open, t.tv \in Version, t.covers \in SUBSET SessionId
      PROVE  t \in Txn
  BY <1>4 DEF Open, Txn, Pc, Kind
<1>5. txn \in [Request -> Txn]
  BY <1>1, <1>3, <1>4 DEF Typed
<1>6. user \in [active: BOOLEAN, tv: Version]
  BY <1>1, <1>2 DEF Typed, Paced
<1>7. QED
  BY <1>1, <1>2, <1>5, <1>6 DEF TypeOK, Typed, Paced, Named

\* The rows, tokens and transactions of the portal keep their types, and a sweep
\* raises token_version at most once: after n sweeps it is at most n + 1,
\* although each commit writes it from a value read earlier.
THEOREM SessionsTyped == Spec => []TypeOK
BY InitSessions, NextSessions, SessionsTypes, PTL DEF Spec
=============================================================================
