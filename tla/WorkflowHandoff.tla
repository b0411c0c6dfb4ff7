--------------------------- MODULE WorkflowHandoff ---------------------------
(***************************************************************************)
(* What a stage of the workflow may rely on when it hands its successor to *)
(* the outbox, and nothing about how: an intent is recorded once and never *)
(* altered, it is transmitted a bounded number of times and always as      *)
(* recorded, and it is closed at most once -- as delivered only after it   *)
(* has been transmitted. Late transmissions of a closed intent are allowed *)
(* (delivery is at least once, consumers are idempotent).                  *)
(***************************************************************************)
EXTENDS Naturals, FiniteSets

CONSTANTS Keys, Payloads, NoOne, MaxAttempts

VARIABLES
    intent,    \* the payload recorded for each key, NoOne before
    outcome,   \* "open" until "delivered" or "dead"
    sent       \* the transmissions

vars == <<intent, outcome, sent>>

TransmissionsOf(k) == {m \in sent : m.key = k}

Init ==
    /\ intent = [k \in Keys |-> NoOne]
    /\ outcome = [k \in Keys |-> "open"]
    /\ sent = {}

Record(k, payload) ==
    /\ intent[k] = NoOne
    /\ intent' = [intent EXCEPT ![k] = payload]
    /\ UNCHANGED <<outcome, sent>>

Transmit(k, token) ==
    /\ intent[k] # NoOne
    /\ Cardinality(TransmissionsOf(k)) < MaxAttempts
    /\ \A m \in TransmissionsOf(k) : m.token # token
    /\ sent' = sent \cup {[key |-> k, payload |-> intent[k], token |-> token]}
    /\ UNCHANGED <<intent, outcome>>

Close(k, result) ==
    /\ intent[k] # NoOne
    /\ outcome[k] = "open"
    /\ result = "delivered" => TransmissionsOf(k) # {}
    /\ outcome' = [outcome EXCEPT ![k] = result]
    /\ UNCHANGED <<intent, sent>>

Next ==
    \E k \in Keys :
        \/ \E payload \in Payloads : Record(k, payload)
        \/ \E token \in 1 .. MaxAttempts : Transmit(k, token)
        \/ \E result \in {"delivered", "dead"} : Close(k, result)

Spec == Init /\ [][Next]_vars

-----------------------------------------------------------------------------
(* What the handoff is for.                                                *)

(* Only what is recorded is transmitted, each intent no more often than    *)
(* its budget allows, and none is closed before it is recorded.            *)
AsRecorded ==
    /\ \A m \in sent : m.key \in Keys /\ intent[m.key] # NoOne /\ m.payload = intent[m.key]
    /\ \A k \in Keys : Cardinality(TransmissionsOf(k)) <= MaxAttempts
    /\ \A k \in Keys : intent[k] = NoOne => outcome[k] = "open"

(* A delivered intent has been transmitted.                                *)
DeliveredIsSent == \A k \in Keys : outcome[k] = "delivered" => TransmissionsOf(k) # {}

(* No intent is altered, no closed one reopened, no transmission undone.   *)
NothingTakenBack ==
    [][/\ \A k \in Keys : intent[k] # NoOne => intent'[k] = intent[k]
       /\ \A k \in Keys : outcome[k] # "open" => outcome'[k] = outcome[k]
       /\ sent \subseteq sent']_vars
=============================================================================
