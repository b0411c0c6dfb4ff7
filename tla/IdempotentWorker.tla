-------------------------- MODULE IdempotentWorker --------------------------
(***************************************************************************)
(* The idempotent worker of AIRA: every delivery of a job runs the stage's *)
(* handler under a claim on one durable idempotency record, renews the     *)
(* claim's lease from a timer while the handler runs, and then completes   *)
(* or fails the record.                                                    *)
(*                                                                         *)
(* One record is modelled: a record is found by organization, environment, *)
(* operation and key, and no call touches two. Each statement on the       *)
(* PostgreSQL table is atomic and an action; what the code computes before *)
(* the next await belongs to the action. A claim token is a random UUID,   *)
(* here the number of the claim, which is also the record's attemptCount.  *)
(***************************************************************************)
EXTENDS Naturals, FiniteSets

CONSTANTS
    Runs,         \* calls of idempotentWorkerService.run, one per delivery
    Processes,    \* worker processes; the process is the claim's ownerId
    ProcessOf,    \* the process a run happens in
    Prints,       \* request fingerprints
    NoOne,        \* null, as an owner or a fingerprint
    LeaseMs,      \* length of a claim's lease
    MaxNow,       \* bound on the clock
    MaxBeats,     \* bound on a run's heartbeats in flight
    MaxFaults     \* bound on crashes and lost store calls

ASSUME WorkerAssumption ==
    /\ IsFiniteSet(Runs)
    /\ ProcessOf \in [Runs -> Processes]
    /\ NoOne \notin Processes \cup Prints
    /\ LeaseMs \in Nat \ {0}
    /\ MaxNow \in Nat
    /\ MaxBeats \in Nat
    /\ MaxFaults \in Nat

VARIABLES
    now,      \* the clock every process reads
    record,   \* the idempotency record, Absent until inserted
    run,      \* where each run stands
    faults    \* how many faults have happened

workerVars == <<now, record, run, faults>>

-----------------------------------------------------------------------------
(* The record.                                                             *)

NoLease == 0

Absent == [status |-> "ABSENT", owner |-> NoOne, token |-> 0, print |-> NoOne,
           lease |-> NoLease, retryable |-> FALSE, result |-> 0]

Inserted(p, print, t) ==
    [status |-> "PROCESSING", owner |-> p, token |-> 1, print |-> print,
     lease |-> t + LeaseMs, retryable |-> FALSE, result |-> 0]

(* Mutant: the new claim keeps the token of the old one.                   *)
TakenOver(rec, p, t) ==
    [rec EXCEPT !.status = "PROCESSING", !.owner = p, !.lease = t + LeaseMs,
                !.retryable = FALSE]

(* What reclaiming a stale claim or retrying a failed one writes.          *)
Taken(rec, p, t) ==
    [status |-> "PROCESSING", owner |-> p, token |-> rec.token + 1, print |-> rec.print,
     lease |-> t + LeaseMs, retryable |-> FALSE, result |-> rec.result]

(* Mutants: a reclaim that tests only the status the run has read before,  *)
(* or that tests only the lease.                                           *)
ReclaimableUnderLease(rec, t) == rec.status = "PROCESSING"
ReclaimableAnyStatus(rec, t) == rec.lease <= t

Reclaimable(rec, t) == rec.status = "PROCESSING" /\ rec.lease <= t

Retriable(rec) == rec.status = "FAILED" /\ rec.retryable

(* Mutant: the fence tests the owner alone.                                *)
OwnedByOwner(rec, p, token) == rec.owner = p

(* buildOwnershipFilter: the compare-and-set of heartbeat, complete, fail. *)
Owned(rec, p, token) ==
    /\ rec.status = "PROCESSING"
    /\ rec.owner = p
    /\ rec.token = token

(* Mutant: the status is set to a name the store does not know.            *)
CompletedUnknown(rec, result) ==
    [rec EXCEPT !.status = "SUCCEEDED", !.result = result, !.lease = NoLease]

Completed(rec, result) ==
    [rec EXCEPT !.status = "COMPLETED", !.result = result, !.lease = NoLease]

Failed(rec, retryable) ==
    [rec EXCEPT !.status = "FAILED", !.retryable = retryable, !.lease = NoLease]

-----------------------------------------------------------------------------
(* Runs.                                                                   *)

Claiming == {"insert", "find", "reclaim", "retry"}
Holding == {"handler", "stop", "complete", "catch", "fail"}
Ended == {"done", "crashed"}
PCs == {"idle"} \cup Claiming \cup Holding \cup Ended

Errors == {"none", "transient", "permanent"}
Outcomes == {"none", "EXECUTED", "DUPLICATE_COMPLETED", "DUPLICATE_PROCESSING",
             "REJECTED", "THREW"}

NoBeat == 0

(* A run holds the fingerprint of its payload, the clock reading of its    *)
(* acquire, the token of its claim, the clock readings of the heartbeats   *)
(* in flight and of the last one, whether one has failed, the error its    *)
(* handler or its completion has thrown, and what it returns. A handler's  *)
(* result is identified with the claim it ran under.                       *)
Idle == [pc |-> "idle", print |-> NoOne, callNow |-> 0, token |-> 0, beats |-> {}, last |-> NoBeat,
         lost |-> FALSE, error |-> "none", outcome |-> "none", result |-> 0]

Init ==
    /\ now = 1
    /\ record = Absent
    /\ run = [r \in Runs |-> Idle]
    /\ faults = 0

Go(r, next) == run' = [run EXCEPT ![r] = next]

Return(r, outcome) ==
    Go(r, [run[r] EXCEPT !.pc = "done", !.outcome = outcome])

-----------------------------------------------------------------------------
(* acquire.                                                                *)

(* A run reads the clock once for the whole of acquire.                    *)
Start(r, print) ==
    /\ run[r].pc = "idle"
    /\ Go(r, [Idle EXCEPT !.pc = "insert", !.print = print, !.callNow = now])
    /\ UNCHANGED <<now, record, faults>>

(* The store call a run has pending goes through.                          *)
Accepts(r) ==
    LET me == run[r] IN
    \/ me.pc = "insert"   /\ record.status = "ABSENT"
    \/ me.pc = "reclaim"  /\ Reclaimable(record, me.callNow)
    \/ me.pc = "retry"    /\ Retriable(record)
    \/ me.pc = "complete" /\ Owned(record, ProcessOf[r], me.token)
    \/ me.pc = "fail"     /\ Owned(record, ProcessOf[r], me.token)

(* What it makes of the record.                                            *)
Stored(r) ==
    LET me == run[r] IN
    CASE me.pc = "insert"              -> Inserted(ProcessOf[r], me.print, me.callNow)
      [] me.pc \in {"reclaim", "retry"} -> Taken(record, ProcessOf[r], me.callNow)
      [] me.pc = "complete"            -> Completed(record, me.token)
      [] me.pc = "fail"                -> Failed(record, me.error = "transient")

(* A claim is acquired and the handler starts, with the heartbeat timer.   *)
Acquired(r) ==
    /\ Accepts(r)
    /\ record' = Stored(r)
    /\ Go(r, [run[r] EXCEPT !.pc = "handler", !.token = record'.token])

(* The unique index lets one insert through.                               *)
Insert(r) ==
    /\ run[r].pc = "insert"
    /\ \/ Acquired(r)
       \/ /\ ~ Accepts(r)
          /\ Go(r, [run[r] EXCEPT !.pc = "find"])
          /\ UNCHANGED record
    /\ UNCHANGED <<now, faults>>

(* Mutant: the fingerprints are not compared.                              *)
MismatchedNever(rec, print) == FALSE

Mismatched(rec, print) == rec.print # print

(* What acquire makes of the record it reads after the insert was refused. *)
(* The duplicate counter it may bump decides nothing.                      *)
Resolved(me) ==
    CASE Mismatched(record, me.print) ->
           [me EXCEPT !.pc = "done", !.outcome = "REJECTED"]
      [] OTHER ->
           CASE record.status = "COMPLETED" ->
                  [me EXCEPT !.pc = "done", !.outcome = "DUPLICATE_COMPLETED",
                             !.result = record.result]
             [] record.status = "PROCESSING" /\ record.lease > me.callNow ->
                  [me EXCEPT !.pc = "done", !.outcome = "DUPLICATE_PROCESSING"]
             [] record.status = "PROCESSING" /\ record.lease <= me.callNow ->
                  [me EXCEPT !.pc = "reclaim"]
             [] record.status = "FAILED" /\ record.retryable ->
                  [me EXCEPT !.pc = "retry"]
             [] OTHER ->
                  [me EXCEPT !.pc = "done", !.outcome = "REJECTED"]

Find(r) ==
    /\ run[r].pc = "find"
    /\ Go(r, Resolved(run[r]))
    /\ UNCHANGED <<now, record, faults>>

(* Mutant: the update is repeated until it takes the record.               *)
TakeOverUntilWon(r) ==
    /\ run[r].pc \in {"reclaim", "retry"}
    /\ Acquired(r)
    /\ UNCHANGED <<now, faults>>

(* The conditional update takes the record, or another run was first; the  *)
(* record is then read again for the answer only, whatever its status.     *)
TakeOver(r) ==
    /\ run[r].pc \in {"reclaim", "retry"}
    /\ \/ Acquired(r)
       \/ /\ ~ Accepts(r)
          /\ Return(r, "DUPLICATE_PROCESSING")
          /\ UNCHANGED record
    /\ UNCHANGED <<now, faults>>

-----------------------------------------------------------------------------
(* The heartbeat timer, which runs beside the handler. A slow beat stays   *)
(* in flight while later ones start and land, and also after the run has   *)
(* stopped the timer, which awaits the last one only; a failed one keeps   *)
(* further ones from starting.                                             *)

Beat(r) ==
    /\ run[r].pc = "handler"
    /\ ~ run[r].lost
    /\ now > run[r].last
    /\ Cardinality(run[r].beats) < MaxBeats
    /\ Go(r, [run[r] EXCEPT !.beats = @ \cup {now}, !.last = now])
    /\ UNCHANGED <<now, record, faults>>

Renewed(beat) == [record EXCEPT !.lease = beat + LeaseMs]

BeatLands(r) ==
    LET me == run[r] IN
    /\ \E beat \in me.beats :
         \/ /\ Owned(record, ProcessOf[r], me.token)
            /\ record' = Renewed(beat)
            /\ Go(r, [me EXCEPT !.beats = @ \ {beat}])
         \/ /\ ~ Owned(record, ProcessOf[r], me.token)
            /\ Go(r, [me EXCEPT !.beats = @ \ {beat}, !.lost = TRUE])
            /\ UNCHANGED record
    /\ UNCHANGED <<now, faults>>

-----------------------------------------------------------------------------
(* The handler ends and the record is settled.                             *)

HandlerEnds(r, error) ==
    /\ run[r].pc = "handler"
    /\ Go(r, [run[r] EXCEPT !.pc = IF error = "none" THEN "stop" ELSE "catch",
                            !.error = error])
    /\ UNCHANGED <<now, record, faults>>

StopSettles(me) == me.last \notin me.beats

(* heartbeat.stop() has awaited the last beat, after the handler or in the *)
(* catch block. A run that has lost its lease leaves the record alone.     *)
Stopped(r) ==
    LET me == run[r] IN
    /\ me.pc \in {"stop", "catch"}
    /\ StopSettles(me)
    /\ \/ me.lost /\ Return(r, "THREW")
       \/ /\ ~ me.lost
          /\ Go(r, [me EXCEPT !.pc = IF me.pc = "stop" THEN "complete" ELSE "fail"])
    /\ UNCHANGED <<now, record, faults>>

(* complete. The refused run reads the record again to name the reason:    *)
(* another owner is an ownership error, a settled record is not, and goes  *)
(* to the catch block with an error that is not retryable.                 *)
Complete(r) ==
    LET me == run[r] IN
    /\ me.pc = "complete"
    /\ \/ /\ Accepts(r)
          /\ record' = Stored(r)
          /\ Go(r, [me EXCEPT !.pc = "done", !.outcome = "EXECUTED", !.result = me.token])
       \/ /\ ~ Accepts(r)
          /\ \/ record.status = "PROCESSING" /\ Return(r, "THREW")
             \/ /\ record.status # "PROCESSING"
                /\ Go(r, [me EXCEPT !.pc = "catch", !.error = "permanent"])
          /\ UNCHANGED record
    /\ UNCHANGED <<now, faults>>

(* fail, whose own refusal is thrown or attached to the error thrown.      *)
Fail(r) ==
    /\ run[r].pc = "fail"
    /\ record' = IF Accepts(r) THEN Stored(r) ELSE record
    /\ Return(r, "THREW")
    /\ UNCHANGED <<now, faults>>

-----------------------------------------------------------------------------
(* Faults and the clock.                                                   *)

(* The pending store call fails: it never arrived, or its answer is lost.  *)
(* Acquiring and failing throw; completing goes to the catch block, with   *)
(* an error resolveRetryable judges by its code.                           *)
StoreFails(r) ==
    LET me == run[r] IN
    /\ me.pc \in Claiming \cup {"complete", "fail"}
    /\ faults < MaxFaults
    /\ faults' = faults + 1
    /\ \/ UNCHANGED record
       \/ Accepts(r) /\ record' = Stored(r)
    /\ \/ me.pc # "complete" /\ Return(r, "THREW")
       \/ /\ me.pc = "complete"
          /\ \E error \in Errors \ {"none"} :
               Go(r, [me EXCEPT !.pc = "catch", !.error = error])
    /\ UNCHANGED now

(* A heartbeat fails: any error at all counts as a lost lease.             *)
BeatFails(r) ==
    LET me == run[r] IN
    /\ faults < MaxFaults
    /\ faults' = faults + 1
    /\ \E beat \in me.beats :
         /\ \/ UNCHANGED record
            \/ Owned(record, ProcessOf[r], me.token) /\ record' = Renewed(beat)
         /\ Go(r, [me EXCEPT !.beats = @ \ {beat}, !.lost = TRUE])
    /\ UNCHANGED now

Active(r) == run[r].pc \notin {"idle"} \cup Ended

(* A process dies with every run it has under way.                         *)
Crash(p) ==
    /\ faults < MaxFaults
    /\ faults' = faults + 1
    /\ \E r \in Runs : ProcessOf[r] = p /\ Active(r)
    /\ run' = [r \in Runs |-> IF ProcessOf[r] = p /\ Active(r)
                              THEN [Idle EXCEPT !.pc = "crashed"] ELSE run[r]]
    /\ UNCHANGED <<now, record>>

Tick ==
    /\ now < MaxNow
    /\ now' = now + 1
    /\ UNCHANGED <<record, run, faults>>

HandlerStep(r) == \E error \in Errors : HandlerEnds(r, error)

RunStep(r) ==
    \/ Insert(r)
    \/ Find(r)
    \/ TakeOver(r)
    \/ Stopped(r)
    \/ Complete(r)
    \/ Fail(r)

Next ==
    \/ \E r \in Runs, print \in Prints : Start(r, print)
    \/ \E r \in Runs : RunStep(r) \/ HandlerStep(r)
    \/ \E r \in Runs : Beat(r) \/ BeatLands(r) \/ BeatFails(r) \/ StoreFails(r)
    \/ \E p \in Processes : Crash(p)
    \/ Tick

Spec == Init /\ [][Next]_workerVars

(* A run that has started goes on: the store answers, the heartbeat in     *)
(* flight settles and the handler returns or throws. Deliveries, beats,    *)
(* faults and the clock owe nothing.                                       *)
Fairness ==
    \A r \in Runs :
       /\ WF_workerVars(RunStep(r))
       /\ WF_workerVars(HandlerStep(r))
       /\ WF_workerVars(BeatLands(r))

FairSpec == Spec /\ Fairness

-----------------------------------------------------------------------------
(* The invariant that makes the worker correct, by parts.                  *)

Owns(r) == run[r].pc \in Holding /\ Owned(record, ProcessOf[r], run[r].token)

Records ==
    [status : {"ABSENT", "PROCESSING", "COMPLETED", "FAILED"},
     owner : Processes \cup {NoOne}, token : Nat, print : Prints \cup {NoOne},
     lease : Nat, retryable : BOOLEAN, result : Nat]

RunStates ==
    [pc : PCs, print : Prints \cup {NoOne}, callNow : Nat, token : Nat, beats : SUBSET Nat, last : Nat,
     lost : BOOLEAN, error : Errors, outcome : Outcomes, result : Nat]

(* Every variable has its type.                                            *)
TypeOK ==
    /\ now \in Nat
    /\ record \in Records
    /\ run \in [Runs -> RunStates]
    /\ faults \in 0..MaxFaults

(* No run reads the clock ahead of time.                                   *)
ReadingsArePast == \A r \in Runs : run[r].callNow <= now

(* A claim token names at most one run and was drawn from the record.      *)
TokensAreUnique ==
    /\ \A r \in Runs : run[r].token <= record.token
    /\ \A r, s \in Runs : run[r].token = run[s].token /\ run[r].token > 0 => r = s

TokensAreHeld ==
    \A r \in Runs :
       /\ run[r].pc \in {"idle", "crashed"} \cup Claiming => run[r].token = 0
       /\ run[r].pc \in Claiming => run[r].print \in Prints
       /\ run[r].pc \in Holding => run[r].token > 0

(* What a record says of its claims.                                       *)
RecordIsSound ==
    /\ record.status = "ABSENT" <=> record.token = 0
    /\ record.status = "ABSENT" => record = Absent
    /\ record.status = "COMPLETED" => record.result = record.token

OutcomesAreSound ==
    \A r \in Runs :
       /\ run[r].outcome # "none" => run[r].pc = "done"
       /\ run[r].outcome = "EXECUTED" => run[r].result = run[r].token /\ run[r].token > 0

(* Whatever a run returns as the operation's result is the recorded one:   *)
(* the run that executed returns its own, a completed duplicate the stored *)
(* one (run, sections 3 and 7).                                            *)
ReturnedIsRecorded ==
    \A r \in Runs :
       run[r].outcome \in {"EXECUTED", "DUPLICATE_COMPLETED"} =>
          record.status = "COMPLETED" /\ run[r].result = record.result

(* The same key with another payload fails closed: the handler only runs   *)
(* on the payload that was recorded first.                                 *)
SamePayload ==
    \A r \in Runs :
       run[r].pc \in {"reclaim", "retry"} \cup Holding => run[r].print = record.print

WorkerInv ==
    /\ TypeOK
    /\ ReadingsArePast
    /\ TokensAreUnique
    /\ TokensAreHeld
    /\ RecordIsSound
    /\ OutcomesAreSound
    /\ ReturnedIsRecorded
    /\ SamePayload

-----------------------------------------------------------------------------
(* Properties.                                                             *)

(* However many deliveries, pauses and stale owners there are, one run at  *)
(* most reports that it executed the operation.                            *)
OneCompletion ==
    \A r, s \in Runs :
       run[r].outcome = "EXECUTED" /\ run[s].outcome = "EXECUTED" => r = s

(* A stale worker never replaces the outcome of a newer one: a completed   *)
(* record and a failure that is not retryable stay as they are.            *)
Settled == record.status = "COMPLETED" \/ (record.status = "FAILED" /\ ~ record.retryable)
SettledIsFinal == [][Settled => record' = record]_workerVars

(* The claim of a run that has not ended is only taken from it once its    *)
(* lease has expired, also when the run that takes it read the clock and   *)
(* the record long before.                                                 *)
OvertakenWhenExpired ==
    [][\A r \in Runs : Owns(r) /\ record'.token # record.token => record.lease <= now]_workerVars

(* A run that has started returns, throws or dies with its process: it     *)
(* never waits for a heartbeat that does not come.                         *)
EveryRunEnds == \A r \in Runs : Active(r) ~> run[r].pc \in Ended

-----------------------------------------------------------------------------
(* Refinement. The record is claimed under a fence.                        *)

Phase ==
    CASE record.status = "PROCESSING" -> "claimed"
      [] Settled                      -> "closed"
      [] OTHER                        -> "open"

Fence == INSTANCE FencedClaim WITH
    Holders <- Runs,
    phase   <- Phase,
    holders <- {r \in Runs : Owns(r)},
    lapsed  <- record.status = "PROCESSING" /\ record.lease <= now

(* Whatever runs do with their claims is what the fence allows: no two own *)
(* the record, it changes hands when it is open or its lease has lapsed,   *)
(* only its owner settles it, and what is settled for good stays so.       *)
ImplementsClaim == Fence!Spec

=============================================================================
