------------------------------ MODULE MCRecords ------------------------------
(***************************************************************************)
(* Model checking of two components that share no state, the audit chain   *)
(* and the portal sessions: what each writes must stay true under its      *)
(* concurrent transactions.  A behaviour belongs to one of them, the other *)
(* rests.  Requests, session ids and one-time tokens are interchangeable.  *)
(***************************************************************************)
EXTENDS AuditChain, Sessions, TLC

VARIABLE part

allVars == <<part, chainVars, vars>>

MCInit == part \in {"chain", "sessions"} /\ ChainInit /\ Init

MCNext ==
  \/ part = "chain" /\ ChainNext /\ UNCHANGED <<part, vars>>
  \/ part = "sessions" /\ Next /\ UNCHANGED <<part, chainVars>>

MCSpec == MCInit /\ [][MCNext]_allVars

Symmetry ==
  Permutations(Request) \cup Permutations(SessionId)
    \cup Permutations(Otp)

\* Both components' variables keep their types.
RecordsTypeOK == ChainTypeOK /\ TypeOK
=============================================================================
