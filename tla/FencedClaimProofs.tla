-------------------------- MODULE FencedClaimProofs --------------------------
(***************************************************************************)
(* The fenced claim keeps its promises, whatever the set of holders: a     *)
(* component that implements it has them without a proof of its own.       *)
(***************************************************************************)
EXTENDS FencedClaim, TLAPS

(* Claims and their loss keep the holders to one at most.                  *)
THEOREM Exclusion == Spec => []Exclusive
<1>1. Init => Exclusive
  BY DEF Init, Exclusive, AtMostOne
<1>2. Exclusive /\ [Next]_vars => Exclusive'
  BY DEF Exclusive, AtMostOne, Next, Claim, Settle, Revoke, Forget, LeaseMoves, vars
<1>. QED BY <1>1, <1>2, PTL DEF Spec

(* A live claim is not taken over, whoever tries.                          *)
THEOREM Kept == Spec => HeldIsKept
<1>1. Exclusive /\ [Next]_vars =>
         [\A h \in holders : ~ lapsed => holders' \subseteq {h}]_vars
  BY DEF Exclusive, AtMostOne, Next, Claim, Settle, Revoke, Forget, LeaseMoves, vars
<1>. QED BY <1>1, Exclusion, PTL DEF Spec, HeldIsKept

(* Nothing leads out of the closed phase.                                  *)
THEOREM Closed == Spec => ClosedForGood
<1>1. Exclusive /\ [Next]_vars => [phase = "closed" => UNCHANGED <<phase, holders>>]_vars
  BY DEF Exclusive, AtMostOne, Next, Claim, Settle, Revoke, Forget, LeaseMoves, vars
<1>. QED BY <1>1, Exclusion, PTL DEF Spec, ClosedForGood
=============================================================================
