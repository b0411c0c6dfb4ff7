------------------------ MODULE CircuitBreakerProofs ------------------------
(***************************************************************************)
(* Theorems about the circuit breaker, for every set of calls and every    *)
(* configuration. BreakerInv is inductive as it stands. BreakerOK is what  *)
(* it says of the breaker's own fields; the lemmas show that every         *)
(* function of the breaker keeps it, and the rest of the proof counts the  *)
(* probes and follows the calls.                                           *)
(***************************************************************************)
EXTENDS CircuitBreaker, FiniteSetTheorems, TLAPS

CallStates == [running : BOOLEAN, probe : BOOLEAN, sick : BOOLEAN, stale : BOOLEAN]

(* What BreakerInv says of the breaker's fields.                           *)
BreakerOK(b) ==
    /\ b \in Breakers
    /\ b.state = "CLOSED" => b.failures < FailureThreshold
    /\ b.cooldown > 0 => b.state = "OPEN"

(* What it says of one call.                                               *)
QuietCall(me, state) ==
    me.running /\ ~ me.stale => state # "OPEN" /\ (state = "HALF_OPEN" => me.probe)

LEMMA BreakerParts ==
    BreakerInv <=>
       /\ BreakerOK(breaker)
       /\ call \in [Calls -> CallStates] /\ healthy \in BOOLEAN
       /\ breaker.probes <= Cardinality(Probes)
       /\ \A c \in Calls : QuietCall(call[c], breaker.state)
BY DEF BreakerInv, TypeOK, NoLeakedProbe, OpenIsQuiet, ClosedIsBelowThreshold, BreakerOK,
       QuietCall, CallStates

-----------------------------------------------------------------------------
(* The breaker's functions.                                                *)

LEMMA FieldTypes ==
    ASSUME BreakerAssumption, NEW b \in Breakers
    PROVE  /\ b.failures \in Nat /\ b.failures <= FailureThreshold
           /\ b.successes \in Nat /\ b.successes <= SuccessThreshold - 1
           /\ b.probes \in Nat /\ b.probes <= HalfOpenMaxConcurrent
           /\ b.cooldown \in Nat /\ b.cooldown <= Timeout
           /\ b.state \in {"CLOSED", "OPEN", "HALF_OPEN"}
           /\ FailureThreshold \in Nat \ {0} /\ SuccessThreshold \in Nat \ {0}
           /\ HalfOpenMaxConcurrent \in Nat \ {0} /\ Timeout \in Nat \ {0}
BY DEF BreakerAssumption, Breakers

LEMMA ClosedOK ==
    ASSUME BreakerAssumption
    PROVE  BreakerOK(Closed) /\ Closed.state = "CLOSED" /\ Closed.probes = 0
BY DEF BreakerAssumption, BreakerOK, Breakers, Closed

LEMMA RefreshedOK ==
    ASSUME BreakerAssumption, BreakerOK(breaker)
    PROVE  /\ BreakerOK(Refreshed)
           /\ Refreshed.probes = breaker.probes \/ Refreshed.probes = 0
           /\ \/ Refreshed = breaker
              \/ breaker.state = "OPEN" /\ breaker.cooldown = 0 /\ Refreshed.state = "HALF_OPEN"
<1>1. breaker \in Breakers
  BY DEF BreakerOK
<1>2. CASE breaker.state = "OPEN" /\ breaker.cooldown = 0
  <2>. DEFINE b == [breaker EXCEPT !.state = "HALF_OPEN", !.successes = 0, !.probes = 0]
  <2>1. Refreshed = b
    BY <1>2 DEF Refreshed
  <2>2. /\ b.state = "HALF_OPEN" /\ b.cooldown = 0 /\ b.probes = 0 /\ b.successes = 0
        /\ b.failures = breaker.failures /\ b \in Breakers
    <3>1. 0 \in 0..(SuccessThreshold - 1) /\ 0 \in 0..HalfOpenMaxConcurrent
      BY BreakerAssumption DEF BreakerAssumption
    <3>. QED BY <1>1, <1>2, <3>1 DEF Breakers
  <2>. HIDE DEF b
  <2>. QED BY <1>2, <2>1, <2>2 DEF BreakerOK
<1>3. CASE ~ (breaker.state = "OPEN" /\ breaker.cooldown = 0)
  BY <1>3 DEF Refreshed
<1>. QED BY <1>2, <1>3

LEMMA OnSuccessOK ==
    ASSUME BreakerAssumption, NEW b, BreakerOK(b)
    PROVE  /\ BreakerOK(OnSuccess(b)) /\ OnSuccess(b).probes = b.probes
           /\ \/ OnSuccess(b).state = b.state /\ OnSuccess(b).cooldown = b.cooldown
              \/ b.state = "HALF_OPEN" /\ OnSuccess(b).state = "CLOSED"
<1>1. b \in Breakers
  BY DEF BreakerOK
<1>2. CASE b.state # "HALF_OPEN"
  <2>. DEFINE n == [b EXCEPT !.failures = 0]
  <2>1. /\ n.state = b.state /\ n.cooldown = b.cooldown /\ n.probes = b.probes
        /\ n.failures = 0 /\ n \in Breakers /\ OnSuccess(b) = n
    BY <1>1, <1>2, FieldTypes DEF Breakers, OnSuccess
  <2>. HIDE DEF n
  <2>. QED BY <2>1, BreakerAssumption DEF BreakerOK, BreakerAssumption
<1>3. CASE b.state = "HALF_OPEN" /\ b.successes + 1 < SuccessThreshold
  <2>. DEFINE n == [b EXCEPT !.successes = b.successes + 1]
  <2>1. b.successes + 1 \in 0..(SuccessThreshold - 1)
    BY <1>1, <1>3, FieldTypes
  <2>2. /\ n.state = b.state /\ n.cooldown = b.cooldown /\ n.probes = b.probes
        /\ n.failures = b.failures /\ n \in Breakers /\ OnSuccess(b) = n
    BY <1>1, <1>3, <2>1 DEF Breakers, OnSuccess
  <2>. HIDE DEF n
  <2>. QED BY <2>2 DEF BreakerOK
<1>4. CASE b.state = "HALF_OPEN" /\ ~ (b.successes + 1 < SuccessThreshold)
  <2>. DEFINE n == [b EXCEPT !.state = "CLOSED", !.failures = 0, !.successes = 0, !.cooldown = 0]
  <2>1. /\ n.state = "CLOSED" /\ n.cooldown = 0 /\ n.probes = b.probes
        /\ n.failures = 0 /\ n \in Breakers /\ OnSuccess(b) = n
    <3>1. 0 \in 0..FailureThreshold /\ 0 \in 0..(SuccessThreshold - 1) /\ 0 \in 0..Timeout
      BY BreakerAssumption DEF BreakerAssumption
    <3>. QED BY <1>1, <1>4, <3>1 DEF Breakers, OnSuccess
  <2>. HIDE DEF n
  <2>. QED BY <1>4, <2>1, BreakerAssumption DEF BreakerOK, BreakerAssumption
<1>. QED BY <1>2, <1>3, <1>4

LEMMA OnFailureOK ==
    ASSUME BreakerAssumption, NEW b, BreakerOK(b)
    PROVE  /\ BreakerOK(OnFailure(b)) /\ OnFailure(b).probes = b.probes
           /\ \/ /\ OnFailure(b).state = b.state /\ OnFailure(b).cooldown = b.cooldown
                 /\ b.state # "HALF_OPEN"
              \/ OnFailure(b).state = "OPEN" /\ OnFailure(b).cooldown = Timeout
<1>. DEFINE f == IF b.failures < FailureThreshold THEN b.failures + 1 ELSE b.failures
            m == [b EXCEPT !.failures = f]
            n == Opened(m)
<1>1. b \in Breakers
  BY DEF BreakerOK
<1>2. f \in 0..FailureThreshold
  BY <1>1, FieldTypes
<1>3. OnFailure(b) = IF b.state = "HALF_OPEN" \/ f >= FailureThreshold THEN n ELSE m
  BY <1>1, FieldTypes DEF OnFailure, Breakers
<1>. HIDE DEF f
<1>4. /\ m \in Breakers /\ m.state = b.state /\ m.cooldown = b.cooldown
      /\ m.probes = b.probes /\ m.failures = f
  BY <1>1, <1>2 DEF Breakers
<1>. HIDE DEF m
<1>5. /\ n \in Breakers /\ n.state = "OPEN" /\ n.cooldown = Timeout /\ n.probes = b.probes
  <2>1. 0 \in 0..(SuccessThreshold - 1) /\ Timeout \in 0..Timeout
    BY BreakerAssumption DEF BreakerAssumption
  <2>. QED BY <1>4, <2>1 DEF Opened, Breakers
<1>. HIDE DEF n
<1>6. CASE b.state = "HALF_OPEN" \/ f >= FailureThreshold
  BY <1>3, <1>5, <1>6 DEF BreakerOK
<1>7. CASE ~ (b.state = "HALF_OPEN" \/ f >= FailureThreshold)
  <2>1. f < FailureThreshold
    BY <1>2, <1>7, <1>1, FieldTypes
  <2>. QED BY <1>3, <1>4, <1>7, <2>1 DEF BreakerOK
<1>. QED BY <1>6, <1>7

LEMMA SlotFreedOK ==
    ASSUME BreakerAssumption, NEW b, BreakerOK(b), NEW c \in Calls
    PROVE  /\ BreakerOK(SlotFreed(c, b))
           /\ SlotFreed(c, b).state = b.state /\ SlotFreed(c, b).cooldown = b.cooldown
           /\ SlotFreed(c, b).probes = IF call[c].probe /\ b.probes > 0 THEN b.probes - 1 ELSE b.probes
<1>1. b \in Breakers
  BY DEF BreakerOK
<1>2. CASE call[c].probe
  <2>. DEFINE p == IF b.probes > 0 THEN b.probes - 1 ELSE 0
              n == [b EXCEPT !.probes = p]
  <2>1. p \in 0..HalfOpenMaxConcurrent /\ p = IF b.probes > 0 THEN b.probes - 1 ELSE b.probes
    BY <1>1, FieldTypes
  <2>2. SlotFreed(c, b) = n
    BY <1>1, <1>2 DEF SlotFreed, Breakers
  <2>. HIDE DEF p
  <2>3. /\ n \in Breakers /\ n.state = b.state /\ n.cooldown = b.cooldown
        /\ n.failures = b.failures /\ n.probes = p
    BY <1>1, <2>1 DEF Breakers
  <2>. HIDE DEF n
  <2>. QED BY <1>2, <2>1, <2>2, <2>3 DEF BreakerOK
<1>3. CASE ~ call[c].probe
  BY <1>3 DEF SlotFreed
<1>. QED BY <1>2, <1>3

-----------------------------------------------------------------------------
(* The actions.                                                            *)

LEMMA ProbesAreFinite ==
    ASSUME BreakerAssumption
    PROVE  IsFiniteSet(Probes) /\ Cardinality(Probes) \in Nat
BY FS_Subset, FS_CardinalityType DEF Probes, BreakerAssumption

LEMMA ExecuteOK ==
    ASSUME BreakerAssumption, BreakerInv, NEW c \in Calls, Execute(c)
    PROVE  BreakerInv'
<1>. DEFINE b == Refreshed
            probe == AdmittedAsProbe(b)
            next == [running |-> TRUE, probe |-> probe, sick |-> ~ healthy, stale |-> FALSE]
<1>1. /\ BreakerOK(breaker) /\ call \in [Calls -> CallStates] /\ healthy \in BOOLEAN
      /\ breaker.probes <= Cardinality(Probes)
      /\ \A d \in Calls : QuietCall(call[d], breaker.state)
  BY BreakerParts
<1>2. /\ ~ call[c].running /\ call' = [call EXCEPT ![c] = next] /\ healthy' = healthy
      /\ breaker' = IF probe THEN [b EXCEPT !.probes = @ + 1] ELSE b
      /\ b.state = "CLOSED" \/ (b.state = "HALF_OPEN" /\ b.probes < HalfOpenMaxConcurrent)
  BY DEF Execute, Admits
<1>3. /\ BreakerOK(b)
      /\ b.probes = breaker.probes \/ b.probes = 0
      /\ b = breaker \/ (breaker.state = "OPEN" /\ b.state = "HALF_OPEN")
  BY <1>1, RefreshedOK
<1>4. /\ next \in CallStates /\ next.running /\ next.probe = probe /\ ~ next.stale
  BY <1>1 DEF CallStates, AdmittedAsProbe
<1>5. probe <=> b.state = "HALF_OPEN"
  BY DEF AdmittedAsProbe
<1>. HIDE DEF b, probe, next
<1>6. b \in Breakers /\ breaker \in Breakers
  BY <1>1, <1>3 DEF BreakerOK
<1>7. /\ BreakerOK(breaker') /\ breaker'.state = b.state
      /\ breaker'.probes = IF probe THEN b.probes + 1 ELSE b.probes
  <2>1. CASE probe
    <3>1. b.probes + 1 \in 0..HalfOpenMaxConcurrent
      BY <1>2, <1>5, <1>6, <2>1, FieldTypes
    <3>2. breaker' = [b EXCEPT !.probes = b.probes + 1]
      BY <1>2, <2>1
    <3>3. /\ breaker' \in Breakers /\ breaker'.state = b.state /\ breaker'.probes = b.probes + 1
          /\ breaker'.failures = b.failures /\ breaker'.cooldown = b.cooldown
      BY <1>6, <3>1, <3>2 DEF Breakers
    <3>. QED BY <1>3, <2>1, <3>3 DEF BreakerOK
  <2>2. CASE ~ probe
    BY <1>2, <1>3, <2>2
  <2>. QED BY <2>1, <2>2
<1>8. call' \in [Calls -> CallStates] /\ healthy' \in BOOLEAN
  BY <1>1, <1>2, <1>4
<1>9. breaker'.probes <= Cardinality(Probes')
  <2>1. b.probes \in Nat /\ b.probes <= Cardinality(Probes) /\ Cardinality(Probes) \in Nat
    BY <1>1, <1>3, <1>6, FieldTypes, ProbesAreFinite
  <2>2. c \notin Probes
    BY <1>2 DEF Probes
  <2>3. CASE probe
    <3>1. Probes' = Probes \cup {c}
      BY <1>1, <1>2, <1>4, <2>3 DEF Probes
    <3>2. Cardinality(Probes') = Cardinality(Probes) + 1
      BY <2>2, <3>1, FS_AddElement, ProbesAreFinite
    <3>. QED BY <1>7, <2>1, <2>3, <3>2
  <2>4. CASE ~ probe
    <3>1. Probes' = Probes
      BY <1>1, <1>2, <1>4, <2>4 DEF Probes
    <3>. QED BY <1>7, <2>1, <2>4, <3>1
  <2>. QED BY <2>3, <2>4
<1>10. \A d \in Calls : QuietCall(call'[d], breaker'.state)
  <2>1. QuietCall(next, b.state)
    BY <1>2, <1>4, <1>5 DEF QuietCall
  <2>2. ASSUME NEW d \in Calls, d # c PROVE QuietCall(call'[d], b.state)
    <3>1. call'[d] = call[d] /\ QuietCall(call[d], breaker.state)
      BY <1>1, <1>2, <2>2
    <3>. QED BY <1>3, <3>1 DEF QuietCall
  <2>3. call'[c] = next
    BY <1>1, <1>2
  <2>. QED BY <1>7, <2>1, <2>2, <2>3
<1>. QED BY <1>7, <1>8, <1>9, <1>10
         DEF BreakerInv, TypeOK, NoLeakedProbe, OpenIsQuiet, ClosedIsBelowThreshold, BreakerOK,
             QuietCall, CallStates

(* A call ends with the breaker as onSuccess or onFailure have left it.    *)
LEMMA EndsOK ==
    ASSUME BreakerAssumption, BreakerInv, NEW c \in Calls, NEW b, Ends(c, b),
           BreakerOK(b), b.probes = breaker.probes,
           b.state \in {breaker.state, "OPEN", "CLOSED"}
    PROVE  BreakerInv'
<1>. DEFINE opens == breaker.state # "OPEN" /\ b.state = "OPEN"
<1>1. /\ BreakerOK(breaker) /\ call \in [Calls -> CallStates] /\ healthy \in BOOLEAN
      /\ breaker.probes <= Cardinality(Probes)
      /\ \A d \in Calls : QuietCall(call[d], breaker.state)
  BY BreakerParts
<1>2. /\ breaker' = SlotFreed(c, b) /\ healthy' = healthy
      /\ \A d \in Calls : call'[d] = IF d = c THEN Idle
                                     ELSE IF opens /\ call[d].running THEN [call[d] EXCEPT !.stale = TRUE]
                                     ELSE call[d]
      /\ call' \in [Calls -> CallStates]
  <2>1. \A d \in Calls : [call[d] EXCEPT !.stale = TRUE] \in CallStates /\ call[d] \in CallStates
    BY <1>1 DEF CallStates
  <2>2. Idle \in CallStates
    BY DEF Idle, CallStates
  <2>3. breaker' = SlotFreed(c, b) /\ healthy' = healthy /\ call' = Left(c, opens)
    BY DEF Ends
  <2>. HIDE DEF opens
  <2>4. call' = [d \in Calls |-> IF d = c THEN Idle
                                 ELSE IF opens /\ call[d].running THEN [call[d] EXCEPT !.stale = TRUE]
                                 ELSE call[d]]
    BY <2>3 DEF Left
  <2>. QED BY <2>1, <2>2, <2>3, <2>4
<1>3. /\ BreakerOK(breaker') /\ breaker'.state = b.state
      /\ breaker'.probes = IF call[c].probe /\ b.probes > 0 THEN b.probes - 1 ELSE b.probes
  BY <1>2, SlotFreedOK
<1>4. ~ call'[c].running
  BY <1>2 DEF Idle
<1>5. ASSUME NEW d \in Calls, d # c
      PROVE  /\ call'[d].running = call[d].running /\ call'[d].probe = call[d].probe
             /\ call'[d].running => call'[d].stale = (call[d].stale \/ opens)
  BY <1>1, <1>2, <1>5 DEF CallStates
<1>6. breaker'.probes <= Cardinality(Probes')
  <2>1. Probes' = Probes \ {c}
    BY <1>4, <1>5 DEF Probes
  <2>2. Cardinality(Probes') = IF c \in Probes THEN Cardinality(Probes) - 1 ELSE Cardinality(Probes)
    BY <2>1, FS_RemoveElement, ProbesAreFinite
  <2>3. /\ b.probes \in Nat /\ b.probes <= Cardinality(Probes) /\ Cardinality(Probes) \in Nat
        /\ c \in Probes => call[c].probe
    BY <1>1, FieldTypes, ProbesAreFinite DEF BreakerOK, Probes
  <2>4. c \in Probes => Cardinality(Probes) > 0
    <3>1. SUFFICES ASSUME c \in Probes PROVE Cardinality(Probes) # 0
      BY <2>3
    <3>. QED BY <3>1, FS_EmptySet, ProbesAreFinite
  <2>5. CASE c \in Probes
    <3>1. breaker'.probes = IF b.probes > 0 THEN b.probes - 1 ELSE b.probes
      BY <1>3, <2>3, <2>5
    <3>2. Cardinality(Probes') = Cardinality(Probes) - 1 /\ Cardinality(Probes) > 0
      BY <2>2, <2>4, <2>5
    <3>. QED BY <2>3, <3>1, <3>2
  <2>6. CASE c \notin Probes
    <3>1. breaker'.probes <= b.probes
      BY <1>3, <2>3
    <3>. QED BY <2>2, <2>3, <2>6, <3>1, <1>3, FieldTypes DEF BreakerOK
  <2>. QED BY <2>5, <2>6
<1>7. \A d \in Calls : QuietCall(call'[d], breaker'.state)
  <2>1. QuietCall(call'[c], breaker'.state)
    BY <1>4 DEF QuietCall
  <2>2. ASSUME NEW d \in Calls, d # c PROVE QuietCall(call'[d], b.state)
    <3>1. QuietCall(call[d], breaker.state) /\ b.state \in {breaker.state, "OPEN", "CLOSED"}
      BY <1>1
    <3>. QED BY <1>5, <2>2, <3>1 DEF QuietCall
  <2>. QED BY <1>3, <2>1, <2>2
<1>. QED BY <1>1, <1>2, <1>3, <1>6, <1>7
         DEF BreakerInv, TypeOK, NoLeakedProbe, OpenIsQuiet, ClosedIsBelowThreshold, BreakerOK,
             QuietCall, CallStates

LEMMA ReturnsOK ==
    ASSUME BreakerAssumption, BreakerInv, NEW c \in Calls, Returns(c)
    PROVE  BreakerInv'
<1>1. BreakerOK(breaker)
  BY BreakerParts
<1>2. CASE Ends(c, OnSuccess(breaker))
  BY <1>1, <1>2, OnSuccessOK, EndsOK
<1>3. CASE Ends(c, OnFailure(breaker))
  BY <1>1, <1>3, OnFailureOK, EndsOK
<1>4. CASE Ends(c, breaker)
  BY <1>1, <1>4, EndsOK
<1>. QED BY <1>2, <1>3, <1>4 DEF Returns, Succeeds, Fails, FailsUncounted

(* A step that leaves the calls alone.                                     *)
LEMMA CallsStay ==
    ASSUME BreakerAssumption, BreakerInv, call' = call, healthy' \in BOOLEAN, BreakerOK(breaker'),
           breaker'.probes = breaker.probes \/ breaker'.probes = 0,
           \/ breaker'.state = breaker.state
           \/ breaker.state = "OPEN" /\ breaker'.state = "HALF_OPEN"
           \/ breaker'.state = "CLOSED"
    PROVE  BreakerInv'
<1>1. /\ breaker.probes <= Cardinality(Probes) /\ call \in [Calls -> CallStates]
      /\ \A c \in Calls : QuietCall(call[c], breaker.state)
  BY BreakerParts
<1>2. Probes' = Probes
  BY DEF Probes
<1>3. breaker'.probes <= Cardinality(Probes')
  BY <1>1, <1>2, ProbesAreFinite
<1>4. \A c \in Calls : QuietCall(call'[c], breaker'.state)
  BY <1>1 DEF QuietCall
<1>. QED BY <1>1, <1>3, <1>4
         DEF BreakerInv, TypeOK, NoLeakedProbe, OpenIsQuiet, ClosedIsBelowThreshold, BreakerOK,
             QuietCall, CallStates

LEMMA BreakerTickOK ==
    ASSUME BreakerAssumption, BreakerInv, Tick
    PROVE  BreakerInv'
<1>1. BreakerOK(breaker) /\ breaker \in Breakers /\ healthy \in BOOLEAN
  BY BreakerParts DEF BreakerOK
<1>2. breaker.cooldown - 1 \in 0..Timeout /\ breaker.cooldown > 0
  BY <1>1, FieldTypes DEF Tick
<1>3. breaker' = [breaker EXCEPT !.cooldown = breaker.cooldown - 1]
  BY DEF Tick
<1>4. /\ breaker' \in Breakers /\ breaker'.state = breaker.state /\ breaker'.probes = breaker.probes
      /\ breaker'.failures = breaker.failures
  BY <1>1, <1>2, <1>3 DEF Breakers
<1>5. BreakerOK(breaker')
  BY <1>1, <1>2, <1>4 DEF BreakerOK
<1>. QED BY <1>1, <1>4, <1>5, CallsStay DEF Tick

LEMMA BreakerNextOK ==
    ASSUME BreakerAssumption, BreakerInv, [Next]_breakerVars
    PROVE  BreakerInv'
<1>1. BreakerOK(breaker) /\ healthy \in BOOLEAN
  BY BreakerParts
<1>2. CASE \E c \in Calls : Execute(c) \/ Returns(c)
  BY <1>2, ExecuteOK, ReturnsOK
<1>3. CASE Inspect
  BY <1>1, <1>3, RefreshedOK, CallsStay DEF Inspect
<1>4. CASE Reset
  BY <1>1, <1>4, ClosedOK, CallsStay DEF Reset
<1>5. CASE Heal
  BY <1>1, <1>5, CallsStay DEF Heal
<1>6. CASE Tick
  BY <1>6, BreakerTickOK
<1>7. CASE UNCHANGED breakerVars
  BY <1>1, <1>7, CallsStay DEF breakerVars
<1>. QED BY <1>2, <1>3, <1>4, <1>5, <1>6, <1>7 DEF Next

-----------------------------------------------------------------------------
(* Theorems.                                                               *)

(* BreakerInv holds in every reachable state, however calls overlap.       *)
THEOREM BreakerInvariance == Spec => []BreakerInv
<1>1. Init => BreakerInv
  <2>. SUFFICES ASSUME Init PROVE BreakerInv
    OBVIOUS
  <2>1. /\ BreakerOK(breaker) /\ breaker.state = "CLOSED" /\ breaker.probes = 0
        /\ \A c \in Calls : call[c] = Idle
        /\ healthy = FALSE
    BY ClosedOK, BreakerAssumption DEF Init
  <2>2. call \in [Calls -> CallStates]
    BY DEF Init, Idle, CallStates
  <2>3. breaker.probes <= Cardinality(Probes)
    BY <2>1, ProbesAreFinite, BreakerAssumption
  <2>4. \A c \in Calls : QuietCall(call[c], breaker.state)
    BY <2>1 DEF QuietCall, Idle
  <2>. QED BY <2>1, <2>2, <2>3, <2>4, BreakerParts
<1>2. BreakerInv /\ [Next]_breakerVars => BreakerInv'
  BY BreakerNextOK, BreakerAssumption
<1>. QED BY <1>1, <1>2, PTL DEF Spec

(* The breaker's fields, counters and calls keep their types and bounds.   *)
THEOREM BreakerTypeCorrect == Spec => []TypeOK
<1>1. BreakerInv => TypeOK
  BY DEF BreakerInv
<1>. QED BY <1>1, BreakerInvariance, PTL

(* A slot that is counted as taken belongs to a probe that is running.     *)
THEOREM ProbesHoldTheirSlots == Spec => []NoLeakedProbe
<1>1. BreakerInv => NoLeakedProbe
  BY DEF BreakerInv
<1>. QED BY <1>1, BreakerInvariance, PTL

(* Behind an open circuit only calls from before it opened are running.    *)
THEOREM QuietWhenOpen == Spec => []OpenIsQuiet
<1>1. BreakerInv => OpenIsQuiet
  BY DEF BreakerInv
<1>. QED BY <1>1, BreakerInvariance, PTL

(* A closed circuit has not reached its threshold.                         *)
THEOREM ClosedHasFailuresLeft == Spec => []ClosedIsBelowThreshold
<1>1. BreakerInv => ClosedIsBelowThreshold
  BY DEF BreakerInv
<1>. QED BY <1>1, BreakerInvariance, PTL

(* While an open circuit cools down no answer ends or shortens the         *)
(* cooldown, and nothing is sent.                                          *)
THEOREM CooldownStands == Spec => AnswersKeepCooldown
<1>. DEFINE Cooling == breaker.state = "OPEN" /\ breaker.cooldown > 0
            Stands == /\ breaker'.state = "OPEN" /\ breaker'.cooldown >= breaker.cooldown
                      /\ \A c \in Calls : call'[c].running => call[c].running
<1>1. ASSUME BreakerInv, [Next]_breakerVars, Cooling, call' # call
      PROVE  Stands
  <2>1. BreakerOK(breaker) /\ breaker \in Breakers
    BY <1>1, BreakerParts DEF BreakerOK
  <2>2. breaker.cooldown \in Nat /\ breaker.cooldown <= Timeout /\ Timeout \in Nat
    BY <2>1, FieldTypes, BreakerAssumption
  <2>3. PICK c \in Calls : Execute(c) \/ Returns(c)
    BY <1>1 DEF Next, Inspect, Reset, Heal, Tick, breakerVars
  <2>4. ~ Execute(c)
    <3>1. Refreshed = breaker
      BY <1>1, <2>2 DEF Refreshed
    <3>. QED BY <1>1, <3>1 DEF Execute, Admits
  <2>5. ASSUME NEW b, Ends(c, b)
        PROVE  \A d \in Calls : call'[d].running => call[d].running
    BY <2>5 DEF Ends, Left, Idle
  <2>6. CASE Ends(c, OnSuccess(breaker))
    BY <1>1, <2>1, <2>2, <2>5, <2>6, OnSuccessOK, SlotFreedOK, BreakerAssumption DEF Ends
  <2>7. CASE Ends(c, OnFailure(breaker))
    BY <1>1, <2>1, <2>2, <2>5, <2>7, OnFailureOK, SlotFreedOK, BreakerAssumption DEF Ends
  <2>8. CASE Ends(c, breaker)
    BY <1>1, <2>1, <2>2, <2>5, <2>8, SlotFreedOK, BreakerAssumption DEF Ends
  <2>. QED BY <2>3, <2>4, <2>6, <2>7, <2>8 DEF Returns, Succeeds, Fails, FailsUncounted
<1>. HIDE DEF Stands
<1>2. BreakerInv /\ [Next]_breakerVars => [Cooling /\ call' # call => Stands]_breakerVars
  BY <1>1
<1>. QED BY <1>2, BreakerInvariance, PTL DEF Spec, Stands, AnswersKeepCooldown

=============================================================================
