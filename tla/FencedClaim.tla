----------------------------- MODULE FencedClaim -----------------------------
(***************************************************************************)
(* What a durable claim of AIRA promises those who compete for one piece   *)
(* of work, whatever records it: an outbox event, an idempotency record or *)
(* a stage checkpoint. Claiming it opens a lease. A claim whose lease runs *)
(* belongs to nobody else, also when its holder is dead or never learned   *)
(* that it has it; one whose lease has lapsed may be taken over or revoked.*)
(* Only the holder settles the work, and settled work stays settled.       *)
(***************************************************************************)
CONSTANT Holders    \* those who may hold the claim

VARIABLES
    phase,     \* "open" to be claimed, "claimed", or "closed" for good
    holders,   \* who knows that the claim is theirs: nobody, or one
    lapsed     \* the lease of the claim has run out

vars == <<phase, holders, lapsed>>

AtMostOne == {{}} \cup {{h} : h \in Holders}

Init ==
    /\ phase = "open"
    /\ holders = {}
    /\ lapsed = FALSE

(* The claim is made, or taken over. Its answer may not arrive, and a      *)
(* reading of the clock from long ago makes a lease that has lapsed.       *)
Claim ==
    /\ phase = "open" \/ (phase = "claimed" /\ lapsed)
    /\ phase' = "claimed"
    /\ holders' \in AtMostOne
    /\ lapsed' \in BOOLEAN

(* The holder settles the work, for good or to be claimed again.           *)
Settle ==
    /\ phase = "claimed"
    /\ holders # {}
    /\ phase' \in {"open", "closed"}
    /\ holders' = {}
    /\ lapsed' = FALSE

(* A lapsed claim is taken back.                                           *)
Revoke ==
    /\ phase = "claimed"
    /\ lapsed
    /\ phase' = "open"
    /\ holders' = {}
    /\ lapsed' = FALSE

(* The holder dies or gives up; the work stays claimed.                    *)
Forget ==
    /\ holders # {}
    /\ holders' = {}
    /\ UNCHANGED <<phase, lapsed>>

(* Time passes, or the lease is renewed.                                   *)
LeaseMoves ==
    /\ phase = "claimed"
    /\ lapsed' = ~ lapsed
    /\ UNCHANGED <<phase, holders>>

Next == Claim \/ Settle \/ Revoke \/ Forget \/ LeaseMoves

Spec == Init /\ [][Next]_vars

-----------------------------------------------------------------------------
(* What the fence is for.                                                  *)

(* No two hold the claim, and only a claim is held.                        *)
Exclusive ==
    /\ holders \in AtMostOne
    /\ holders # {} => phase = "claimed"

(* The claim of one who holds it goes to another only once it has lapsed.  *)
HeldIsKept == [][\A h \in holders : ~ lapsed => holders' \subseteq {h}]_vars

(* Work that is settled for good is never claimed or held again.           *)
ClosedForGood == [][phase = "closed" => UNCHANGED <<phase, holders>>]_vars
=============================================================================
