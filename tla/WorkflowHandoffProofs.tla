------------------------ MODULE WorkflowHandoffProofs ------------------------
(***************************************************************************)
(* The abstract handoff keeps its promises, for any keys, payloads and     *)
(* budget: whatever implements it has them.                                *)
(***************************************************************************)
EXTENDS WorkflowHandoff, FiniteSetTheorems, TLAPS

(* The promises, with the ranges the proof needs.                          *)
HandoffInv ==
    /\ intent \in [Keys -> Payloads \cup {NoOne}]
    /\ outcome \in [Keys -> {"open", "delivered", "dead"}]
    /\ IsFiniteSet(sent)
    /\ AsRecorded
    /\ DeliveredIsSent

LEMMA RecordKeeps ==
  ASSUME HandoffInv, NEW k \in Keys, NEW payload \in Payloads, Record(k, payload)
  PROVE  HandoffInv'
<1>1. \A m \in sent : m.key # k
  BY DEF HandoffInv, AsRecorded, Record
<1>2. \A j \in Keys : TransmissionsOf(j)' = TransmissionsOf(j)
  BY DEF Record, TransmissionsOf
<1>3. AsRecorded'
  BY <1>1, <1>2 DEF HandoffInv, AsRecorded, Record
<1>4. DeliveredIsSent'
  BY <1>2 DEF HandoffInv, DeliveredIsSent, Record
<1>. QED BY <1>3, <1>4 DEF HandoffInv, Record

LEMMA TransmitKeeps ==
  ASSUME MaxAttempts \in Nat, HandoffInv, NEW k \in Keys, NEW token, Transmit(k, token)
  PROVE  HandoffInv'
<1> DEFINE m == [key |-> k, payload |-> intent[k], token |-> token]
<1>1. /\ sent' = sent \cup {m} /\ UNCHANGED <<intent, outcome>>
      /\ IsFiniteSet(sent) /\ m.key = k /\ m.payload = intent[k] /\ intent[k] # NoOne
  BY DEF Transmit, HandoffInv
<1> HIDE DEF m
<1>2. IsFiniteSet(sent')
  BY <1>1, FS_AddElement
<1>3. TransmissionsOf(k)' = TransmissionsOf(k) \cup {m}
  BY <1>1 DEF TransmissionsOf
<1>4. \A j \in Keys \ {k} : TransmissionsOf(j)' = TransmissionsOf(j)
  BY <1>1 DEF TransmissionsOf
<1>5. Cardinality(TransmissionsOf(k)') <= MaxAttempts
  <2>1. IsFiniteSet(TransmissionsOf(k))
    BY <1>1, FS_Subset DEF TransmissionsOf
  <2>2. Cardinality(TransmissionsOf(k)) \in Nat /\ Cardinality(TransmissionsOf(k)) < MaxAttempts
    BY <2>1, FS_CardinalityType DEF Transmit
  <2>3. Cardinality(TransmissionsOf(k) \cup {m})
           \in {Cardinality(TransmissionsOf(k)), Cardinality(TransmissionsOf(k)) + 1}
    BY <2>1, FS_AddElement, Zenon
  <2>. QED BY <1>3, <2>2, <2>3
<1>6. AsRecorded'
  <2>1. \A n \in sent' : n.key \in Keys /\ intent[n.key] # NoOne /\ n.payload = intent[n.key]
    BY <1>1 DEF HandoffInv, AsRecorded
  <2>2. \A j \in Keys : Cardinality(TransmissionsOf(j)') <= MaxAttempts
    BY <1>4, <1>5 DEF HandoffInv, AsRecorded
  <2>. QED BY <1>1, <2>1, <2>2 DEF HandoffInv, AsRecorded
<1>7. DeliveredIsSent'
  BY <1>1, <1>3, <1>4 DEF HandoffInv, DeliveredIsSent
<1>. QED BY <1>1, <1>2, <1>6, <1>7 DEF HandoffInv

LEMMA CloseKeeps ==
  ASSUME HandoffInv, NEW k \in Keys, NEW result \in {"delivered", "dead"}, Close(k, result)
  PROVE  HandoffInv'
<1>1. \A j \in Keys : TransmissionsOf(j)' = TransmissionsOf(j)
  BY DEF Close, TransmissionsOf
<1>2. AsRecorded'
  BY <1>1 DEF HandoffInv, AsRecorded, Close
<1>3. DeliveredIsSent'
  BY <1>1 DEF HandoffInv, DeliveredIsSent, Close
<1>. QED BY <1>2, <1>3 DEF HandoffInv, Close

LEMMA HandoffInvariance ==
  ASSUME MaxAttempts \in Nat
  PROVE  Spec => []HandoffInv
<1>1. Init => HandoffInv
  <2>. SUFFICES ASSUME Init PROVE HandoffInv
    OBVIOUS
  <2>1. \A k \in Keys : TransmissionsOf(k) = {} /\ Cardinality({}) = 0
    BY FS_EmptySet DEF Init, TransmissionsOf
  <2>. QED BY <2>1, FS_EmptySet DEF Init, HandoffInv, AsRecorded, DeliveredIsSent
<1>2. HandoffInv /\ [Next]_vars => HandoffInv'
  <2>1. HandoffInv /\ UNCHANGED vars => HandoffInv'
    BY DEF vars, HandoffInv, AsRecorded, DeliveredIsSent, TransmissionsOf
  <2>. QED BY <2>1, RecordKeeps, TransmitKeeps, CloseKeeps DEF Next
<1>. QED BY <1>1, <1>2, PTL DEF Spec

(* Transmissions are as recorded and within the budget, and what counts as *)
(* delivered was transmitted.                                              *)
THEOREM Promised ==
  ASSUME MaxAttempts \in Nat
  PROVE  Spec => [](AsRecorded /\ DeliveredIsSent)
<1>1. HandoffInv => AsRecorded /\ DeliveredIsSent
  BY DEF HandoffInv
<1>. QED BY <1>1, HandoffInvariance, PTL

(* Intents, their closing and their transmissions are for good.            *)
THEOREM Kept ==
  ASSUME MaxAttempts \in Nat
  PROVE  Spec => NothingTakenBack
<1>1. HandoffInv /\ [Next]_vars =>
        [/\ \A k \in Keys : intent[k] # NoOne => intent'[k] = intent[k]
         /\ \A k \in Keys : outcome[k] # "open" => outcome'[k] = outcome[k]
         /\ sent \subseteq sent']_vars
  BY DEF HandoffInv, Next, Record, Transmit, Close
<1>. QED BY <1>1, HandoffInvariance, PTL DEF Spec, NothingTakenBack
=============================================================================
