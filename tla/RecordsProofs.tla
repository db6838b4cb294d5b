---------------------------- MODULE RecordsProofs ----------------------------
(***************************************************************************)
(* The audit chain and the portal sessions side by side, as MCRecords runs *)
(* them: a behaviour of the composition is one of each component, so what  *)
(* is proved of a component holds in the composition.                      *)
(***************************************************************************)
EXTENDS MCRecords, AuditChainProofs, SessionsProofs

\* A step of the composition is a step of one component; the other rests.
LEMMA StepOfPart == [MCNext]_allVars => [ChainNext]_chainVars /\ [Next]_vars
<1>1. CASE part = "chain" /\ ChainNext /\ UNCHANGED <<part, vars>>
  BY <1>1
<1>2. CASE part = "sessions" /\ Next /\ UNCHANGED <<part, chainVars>>
  BY <1>2
<1>3. CASE UNCHANGED allVars
  BY <1>3 DEF allVars
<1>4. QED
  BY <1>1, <1>2, <1>3 DEF MCNext

\* Neither component is restrained or disturbed by the other: each sees a
\* behaviour of its own specification.
THEOREM PartsRun == MCSpec => ChainSpec /\ Spec
<1>1. MCInit => ChainInit /\ Init
  BY DEF MCInit
<1>2. [MCNext]_allVars => [ChainNext]_chainVars /\ [Next]_vars
  BY StepOfPart
<1>3. QED
  BY <1>1, <1>2, PTL DEF MCSpec, ChainSpec, Spec

\* The rows, heads, checkpoints and passes of the chain, and the rows, tokens
\* and transactions of the portal, keep their types with all their bounds: no
\* sequence number is handed out that was not left for an event, and
\* token_version rises at most once for each sweep.
THEOREM RecordsTyped == MCSpec => []RecordsTypeOK
<1>1. ChainTypeOK /\ TypeOK => RecordsTypeOK
  BY DEF RecordsTypeOK
<1>2. QED
  BY <1>1, PartsRun, ChainTyped, SessionsTyped, PTL
=============================================================================
