--------------------------- MODULE CircuitBreaker ---------------------------
(***************************************************************************)
(* The circuit breaker of one dependency, in one process. JavaScript runs  *)
(* what stands between two awaits at once, so an admission is one action,  *)
(* and so are the end of the protected operation and what the breaker      *)
(* makes of it. The operations themselves overlap, and nothing keeps one   *)
(* from outliving the state of the breaker it was admitted in.             *)
(*                                                                         *)
(* Time is the rest of the cooldown, nextAttemptTime minus the clock.      *)
(* A call is "sick" if it was sent while the dependency was failing. Its   *)
(* field "stale" is a history variable: the circuit has opened since the   *)
(* call was admitted. No action reads it.                                  *)
(***************************************************************************)
EXTENDS Naturals, FiniteSets

CONSTANTS
    Calls,                  \* calls of execute at once
    FailureThreshold,
    SuccessThreshold,
    HalfOpenMaxConcurrent,
    Timeout                 \* length of the cooldown

ASSUME BreakerAssumption ==
    /\ IsFiniteSet(Calls)
    /\ FailureThreshold \in Nat \ {0}
    /\ SuccessThreshold \in Nat \ {0}
    /\ HalfOpenMaxConcurrent \in Nat \ {0}
    /\ Timeout \in Nat \ {0}

VARIABLES
    breaker,  \* the breaker's own fields
    call,     \* the calls of execute
    healthy   \* the dependency has stopped failing

breakerVars == <<breaker, call, healthy>>

-----------------------------------------------------------------------------
Closed == [state |-> "CLOSED", failures |-> 0, successes |-> 0, probes |-> 0, cooldown |-> 0]

Idle == [running |-> FALSE, probe |-> FALSE, sick |-> FALSE, stale |-> FALSE]

Init ==
    /\ breaker = Closed
    /\ call = [c \in Calls |-> Idle]
    /\ healthy = FALSE

(* refreshState: the cooldown is over.                                     *)
Refreshed ==
    IF breaker.state = "OPEN" /\ breaker.cooldown = 0
    THEN [breaker EXCEPT !.state = "HALF_OPEN", !.successes = 0, !.probes = 0]
    ELSE breaker

(* Mutant: the probes under way are not counted.                           *)
AdmitsAnyProbe(b) == b.state # "OPEN"

Admits(b) ==
    \/ b.state = "CLOSED"
    \/ b.state = "HALF_OPEN" /\ b.probes < HalfOpenMaxConcurrent

(* Mutant: the state is read before it is refreshed.                       *)
AdmittedUnrefreshed(b) == breaker.state = "HALF_OPEN"

AdmittedAsProbe(b) == b.state = "HALF_OPEN"

(* execute, up to the call of the operation. A rejected call leaves the    *)
(* breaker as the refresh made it.                                         *)
Execute(c) ==
    LET b == Refreshed
        probe == AdmittedAsProbe(b)
    IN
    /\ ~ call[c].running
    /\ Admits(b)
    /\ call' = [call EXCEPT ![c] = [running |-> TRUE, probe |-> probe, sick |-> ~ healthy, stale |-> FALSE]]
    /\ breaker' = IF probe THEN [b EXCEPT !.probes = @ + 1] ELSE b
    /\ UNCHANGED healthy

(* getState, which every answer of the isolation service calls.            *)
Inspect ==
    /\ breaker' = Refreshed
    /\ UNCHANGED <<call, healthy>>

-----------------------------------------------------------------------------
(* The end of an operation.                                                *)

(* Mutants: closing leaves the failures that opened the circuit; a success *)
(* counts whatever the state.                                              *)
OnSuccessKeepingFailures(b) ==
    IF b.state # "HALF_OPEN" THEN [b EXCEPT !.failures = 0]
    ELSE IF b.successes + 1 < SuccessThreshold THEN [b EXCEPT !.successes = @ + 1]
    ELSE [b EXCEPT !.state = "CLOSED", !.successes = 0, !.cooldown = 0]

OnSuccessAnyState(b) ==
    IF b.state = "CLOSED" THEN [b EXCEPT !.failures = 0]
    ELSE IF b.successes + 1 < SuccessThreshold THEN [b EXCEPT !.successes = @ + 1]
    ELSE [b EXCEPT !.state = "CLOSED", !.failures = 0, !.successes = 0, !.cooldown = 0]

OnSuccess(b) ==
    IF b.state # "HALF_OPEN" THEN [b EXCEPT !.failures = 0]
    ELSE IF b.successes + 1 < SuccessThreshold THEN [b EXCEPT !.successes = @ + 1]
    ELSE [b EXCEPT !.state = "CLOSED", !.failures = 0, !.successes = 0, !.cooldown = 0]

Opened(b) == [b EXCEPT !.state = "OPEN", !.successes = 0, !.cooldown = Timeout]

(* Counts from FailureThreshold on are not told apart.                     *)
OnFailure(b) ==
    LET counted == [b EXCEPT !.failures = IF @ < FailureThreshold THEN @ + 1 ELSE @] IN
    IF b.state = "HALF_OPEN" \/ counted.failures >= FailureThreshold
    THEN Opened(counted)
    ELSE counted

(* The finally block.                                                      *)
SlotFreed(c, b) ==
    IF call[c].probe THEN [b EXCEPT !.probes = IF @ > 0 THEN @ - 1 ELSE 0] ELSE b

(* Which calls are stale once call c has ended.                            *)
Left(c, opens) ==
    [d \in Calls |->
       IF d = c THEN Idle
       ELSE IF opens /\ call[d].running THEN [call[d] EXCEPT !.stale = TRUE]
       ELSE call[d]]

Ends(c, b) ==
    /\ breaker' = SlotFreed(c, b)
    /\ call' = Left(c, breaker.state # "OPEN" /\ b.state = "OPEN")
    /\ UNCHANGED healthy

Succeeds(c) ==
    /\ call[c].running
    /\ Ends(c, OnSuccess(breaker))

Fails(c) ==
    /\ call[c].sick
    /\ Ends(c, OnFailure(breaker))

(* Mutant: without the finally block an uncounted error keeps its slot.    *)
FailsKeepingSlot(c) ==
    /\ call[c].sick
    /\ call' = [call EXCEPT ![c] = Idle]
    /\ UNCHANGED <<breaker, healthy>>

(* An error shouldCountFailure leaves out, such as a caller's mistake.     *)
FailsUncounted(c) ==
    /\ call[c].sick
    /\ Ends(c, breaker)

-----------------------------------------------------------------------------
(* reset: calls under way are not waited for.                              *)
Reset ==
    /\ breaker' = Closed
    /\ UNCHANGED <<call, healthy>>

Heal ==
    /\ ~ healthy
    /\ healthy' = TRUE
    /\ UNCHANGED <<breaker, call>>

Tick ==
    /\ breaker.cooldown > 0
    /\ breaker' = [breaker EXCEPT !.cooldown = @ - 1]
    /\ UNCHANGED <<call, healthy>>

Returns(c) == Succeeds(c) \/ Fails(c) \/ FailsUncounted(c)

Next ==
    \/ \E c \in Calls : Execute(c) \/ Returns(c)
    \/ Inspect \/ Reset \/ Heal \/ Tick

Spec == Init /\ [][Next]_breakerVars

(* Time passes, the timers and requests that use the dependency keep       *)
(* coming, and an operation that was started returns.                      *)
Fairness ==
    /\ WF_breakerVars(Tick)
    /\ \A c \in Calls : WF_breakerVars(Execute(c)) /\ WF_breakerVars(Returns(c))

FairSpec == Spec /\ Fairness

-----------------------------------------------------------------------------
(* The invariant, by parts.                                                *)

Breakers ==
    [state : {"CLOSED", "OPEN", "HALF_OPEN"}, failures : 0..FailureThreshold,
     successes : 0..(SuccessThreshold - 1), probes : 0..HalfOpenMaxConcurrent,
     cooldown : 0..Timeout]

(* Every variable has its type.                                            *)
TypeOK ==
    /\ breaker \in Breakers
    /\ call \in [Calls -> [running : BOOLEAN, probe : BOOLEAN, sick : BOOLEAN, stale : BOOLEAN]]
    /\ healthy \in BOOLEAN

Probes == {c \in Calls : call[c].running /\ call[c].probe}

(* No slot leaks: every slot the breaker counts as taken is held by a      *)
(* probe that is running and will give it back, so that a half-open        *)
(* circuit is never full with nobody probing (execute's finally block,     *)
(* refreshState's reset of the counter, reset).                            *)
NoLeakedProbe == breaker.probes <= Cardinality(Probes)

(* An open circuit is quiet: what still runs was admitted before it        *)
(* opened, and what a half-open one has admitted itself are its probes.    *)
OpenIsQuiet ==
    \A c \in Calls : call[c].running /\ ~ call[c].stale =>
       /\ breaker.state # "OPEN"
       /\ breaker.state = "HALF_OPEN" => call[c].probe

(* A closed circuit has failures left: closing forgets the ones that       *)
(* opened it, and so does a success that is late (onSuccess).              *)
ClosedIsBelowThreshold ==
    /\ breaker.state = "CLOSED" => breaker.failures < FailureThreshold
    /\ breaker.cooldown > 0 => breaker.state = "OPEN"

BreakerInv ==
    /\ TypeOK
    /\ NoLeakedProbe
    /\ OpenIsQuiet
    /\ ClosedIsBelowThreshold

-----------------------------------------------------------------------------
(* Properties.                                                             *)

(* While an open circuit cools down, no answer of a call that is still     *)
(* under way ends or shortens the cooldown (onSuccess, onFailure), and no  *)
(* call is sent (execute).                                                 *)
AnswersKeepCooldown ==
    [][breaker.state = "OPEN" /\ breaker.cooldown > 0 /\ call' # call =>
         /\ breaker'.state = "OPEN" /\ breaker'.cooldown >= breaker.cooldown
         /\ \A c \in Calls : call'[c].running => call[c].running]_breakerVars

(* The breaker does not lock a dependency out that has recovered: late     *)
(* answers, uncounted errors and resets never leave it half open for ever. *)
Recovers == healthy ~> breaker.state = "CLOSED"

=============================================================================
