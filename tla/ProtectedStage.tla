---------------------------- MODULE ProtectedStage ----------------------------
(***************************************************************************)
(* A stage worker of AIRA (execution, verification, lifecycle, recovery    *)
(* decision): the broker delivers copies of a job, every delivery claims   *)
(* the stage's durable checkpoint, runs the idempotent worker under the    *)
(* claim, completes or fails the checkpoint, and settles its copy. Beside  *)
(* it stands the runtime recovery, which abandons checkpoints whose lease  *)
(* has run out and hands what it finds safe to the same workers.           *)
(*                                                                         *)
(* One job is modelled, so one checkpoint and one idempotency record. A    *)
(* delivery, or a dispatch of the recovery, is one of the worker's Runs.   *)
(* The clock reading of a checkpoint statement is taken when it lands.     *)
(***************************************************************************)
EXTENDS IdempotentWorker

CONSTANTS
    Copies,        \* copies of the job's message, all in the stage's queue
    IsExecution,   \* the stage is EXECUTION
    CheckpointMs,  \* length of a checkpoint's lease, which nothing renews
    MaxLosses      \* bound on the faults outside a run of the worker

ASSUME StageAssumption ==
    /\ IsExecution \in BOOLEAN
    /\ CheckpointMs \in Nat \ {0}
    /\ MaxLosses \in Nat
    /\ NoOne \notin Copies

VARIABLES
    copy,        \* where each copy stands with the broker
    listening,   \* the processes whose consumer is subscribed
    checkpoint,  \* the stage's checkpoint
    stage,       \* where each delivery stands, outside its run
    recovering,  \* the runtime recovery is deployed; never changes
    losses       \* how many faults outside a run have happened

ownVars == <<copy, listening, checkpoint, stage, recovering, losses>>
stageVars == <<workerVars, ownVars>>

-----------------------------------------------------------------------------
NoCheckpoint ==
    [status |-> "ABSENT", owner |-> NoOne, token |-> 0, lease |-> NoLease,
     retryable |-> FALSE, safety |-> "UNKNOWN"]

Waiting == [pc |-> "waiting", copy |-> NoOne, held |-> FALSE, token |-> 0]

StageInit ==
    /\ Init
    /\ copy = [m \in Copies |-> "ready"]
    /\ listening = Processes
    /\ checkpoint = NoCheckpoint
    /\ stage = [r \in Runs |-> Waiting]
    /\ recovering \in BOOLEAN
    /\ losses = 0

At(r, pc) == stage[r].pc = pc

To(r, pc) == stage' = [stage EXCEPT ![r].pc = pc]

(* What a statement on the checkpoint leaves alone.                        *)
Statement == UNCHANGED <<workerVars, copy, listening, recovering>>

-----------------------------------------------------------------------------
(* Deliveries.                                                             *)

(* consumeEvents hands a copy to the handler of a subscribed process.      *)
Deliver(r, m) ==
    /\ At(r, "waiting")
    /\ copy[m] = "ready"
    /\ ProcessOf[r] \in listening
    /\ copy' = [copy EXCEPT ![m] = "held"]
    /\ stage' = [stage EXCEPT ![r] = [pc |-> "ensure", copy |-> m, held |-> TRUE, token |-> 0]]
    /\ UNCHANGED <<workerVars, listening, checkpoint, recovering, losses>>

(* Mutant: an error that is thrown is acknowledged as well.                *)
SettlementOfAnyEnd == [ack |-> "acked", requeue |-> "acked", reject |-> "dead"]

(* The broker's copy is settled once process has returned or thrown. After *)
(* its channel was lost the delivery no longer holds the copy.             *)
Settlement == [ack |-> "acked", requeue |-> "ready", reject |-> "dead"]

Settle(r) ==
    /\ stage[r].pc \in DOMAIN Settlement
    /\ stage' = [stage EXCEPT ![r].pc = "done", ![r].held = FALSE]
    /\ copy' = IF stage[r].held THEN [copy EXCEPT ![stage[r].copy] = Settlement[stage[r].pc]]
               ELSE copy
    /\ UNCHANGED <<workerVars, listening, checkpoint, recovering, losses>>

-----------------------------------------------------------------------------
(* The checkpoint.                                                         *)

(* ensureCheckpoint: insert, or find the one that is there.                *)
Ensured ==
    IF checkpoint.status = "ABSENT" THEN [checkpoint EXCEPT !.status = "PENDING"] ELSE checkpoint

Ensure(r) ==
    /\ At(r, "ensure")
    /\ checkpoint' = Ensured
    /\ To(r, "claim")
    /\ Statement /\ UNCHANGED losses

(* Mutants: failed checkpoints, or expired ones, are claimed as well.      *)
ClaimableFailed == checkpoint.status \in {"PENDING", "ABANDONED", "FAILED"}
ClaimableProcessing == checkpoint.status \in {"PENDING", "ABANDONED", "PROCESSING"}

Claimable == checkpoint.status \in {"PENDING", "ABANDONED"}

Claimed(r) ==
    [checkpoint EXCEPT !.status = "PROCESSING", !.owner = ProcessOf[r], !.token = @ + 1,
                       !.lease = now + CheckpointMs]

(* A delivery that cannot claim returns, and so acknowledges its copy.     *)
Claim(r) ==
    /\ At(r, "claim")
    /\ \/ /\ Claimable
          /\ checkpoint' = Claimed(r)
          /\ stage' = [stage EXCEPT ![r].pc = "claimed", ![r].token = checkpoint.token + 1]
       \/ /\ ~ Claimable
          /\ To(r, "ack")
          /\ UNCHANGED checkpoint
    /\ Statement /\ UNCHANGED losses

EnterWorker(r) ==
    /\ At(r, "claimed")
    /\ \E print \in Prints : Start(r, print)
    /\ To(r, "protected")
    /\ UNCHANGED <<copy, listening, checkpoint, recovering, losses>>

WorkerStep(r) ==
    /\ \/ RunStep(r) \/ HandlerStep(r) \/ StoreFails(r)
       \/ Beat(r) \/ BeatLands(r) \/ BeatFails(r)
    /\ UNCHANGED ownVars

(* buildOwnedFilter.                                                       *)
OwnedCheckpoint(r) ==
    /\ checkpoint.status = "PROCESSING"
    /\ checkpoint.owner = ProcessOf[r]
    /\ checkpoint.token = stage[r].token

Freed == [checkpoint EXCEPT !.owner = NoOne, !.lease = NoLease]

(* Mutant: the status is set to a name the store does not know.            *)
CompletedCheckpointUnknown ==
    [Freed EXCEPT !.status = "SUCCEEDED", !.safety = "SAFE", !.retryable = FALSE]

CompletedCheckpoint ==
    [Freed EXCEPT !.status = "COMPLETED", !.safety = "SAFE", !.retryable = FALSE]

(* Only a mutation cannot be repeated safely.                              *)
FailedCheckpoint(error) ==
    [Freed EXCEPT !.status = "FAILED", !.retryable = (error = "transient"),
                  !.safety = IF IsExecution THEN "REQUIRES_RECONCILIATION" ELSE "SAFE"]

(* The run has returned, or has thrown.                                    *)
RunReturned(r) == At(r, "protected") /\ run[r].pc = "done" /\ run[r].outcome # "THREW"
RunThrew(r) == At(r, "protected") /\ run[r].pc = "done" /\ run[r].outcome = "THREW"

(* Mutant: the completion is repeated until it goes through.               *)
CompleteCheckpointUntilOwned(r) ==
    /\ RunReturned(r)
    /\ OwnedCheckpoint(r)
    /\ checkpoint' = CompletedCheckpoint
    /\ To(r, "ack")
    /\ Statement /\ UNCHANGED losses

(* Whatever the run returned, a duplicate's answer too, the checkpoint is  *)
(* completed; one it no longer owns is failed, for what that is worth.     *)
CompleteCheckpoint(r) ==
    /\ RunReturned(r)
    /\ \/ /\ OwnedCheckpoint(r)
          /\ checkpoint' = CompletedCheckpoint
          /\ To(r, "ack")
       \/ /\ ~ OwnedCheckpoint(r)
          /\ To(r, "failing")
          /\ UNCHANGED checkpoint
    /\ Statement /\ UNCHANGED losses

(* The errors process can throw: "plain" is neither retryable nor marked   *)
(* as not to be requeued. A store's error is never marked so.              *)
Thrown(r) ==
    IF At(r, "failing") \/ run[r].error = "transient" THEN {"transient", "plain"}
    ELSE IF run[r].error = "permanent" THEN {"plain", "permanent"}
    ELSE {"transient", "plain", "permanent"}

Rethrown(error) == IF error = "permanent" THEN "reject" ELSE "requeue"

(* The catch block. Its own failure is attached to the error it rethrows.  *)
FailCheckpoint(r) ==
    /\ RunThrew(r) \/ At(r, "failing")
    /\ \E error \in Thrown(r) :
         /\ checkpoint' = IF OwnedCheckpoint(r) THEN FailedCheckpoint(error) ELSE checkpoint
         /\ To(r, Rethrown(error))
    /\ Statement /\ UNCHANGED losses

(* A statement on the checkpoint fails: it never arrived, or its answer is *)
(* lost. Ensuring and claiming stand outside the try block.                *)
CheckpointFails(r) ==
    /\ losses < MaxLosses
    /\ losses' = losses + 1
    /\ \/ /\ At(r, "ensure")
          /\ checkpoint' \in {checkpoint, Ensured}
          /\ To(r, "requeue")
       \/ /\ At(r, "claim")
          /\ checkpoint' \in {checkpoint} \cup IF Claimable THEN {Claimed(r)} ELSE {}
          /\ To(r, "requeue")
       \/ /\ RunReturned(r)
          /\ checkpoint' \in {checkpoint} \cup
                             IF OwnedCheckpoint(r) THEN {CompletedCheckpoint} ELSE {}
          /\ To(r, "failing")
       \/ /\ RunThrew(r) \/ At(r, "failing")
          /\ UNCHANGED checkpoint
          /\ \E error \in Thrown(r) : To(r, Rethrown(error))
    /\ Statement

-----------------------------------------------------------------------------
(* Runtime recovery.                                                       *)

(* Mutant: whatever is being processed is abandoned.                       *)
StaleAnyLease == checkpoint.status = "PROCESSING"

Stale == checkpoint.status = "PROCESSING" /\ checkpoint.lease <= now

MarkAbandoned ==
    /\ recovering
    /\ Stale
    /\ checkpoint' = [Freed EXCEPT !.status = "ABANDONED",
                                   !.safety = IF IsExecution THEN "REQUIRES_RECONCILIATION" ELSE @]
    /\ UNCHANGED stage /\ Statement /\ UNCHANGED losses

(* The decisions START, RESUME and RETRY_SAFE. The plan may be stale when  *)
(* the worker acts on it; its first statement looks again.                 *)
Dispatchable ==
    /\ ~ IsExecution
    /\ \/ checkpoint.status = "PENDING"
       \/ checkpoint.status = "ABANDONED" /\ checkpoint.safety = "SAFE"
       \/ checkpoint.status = "FAILED" /\ checkpoint.safety = "SAFE" /\ checkpoint.retryable

Dispatch(r) ==
    /\ recovering
    /\ Dispatchable
    /\ At(r, "waiting")
    /\ To(r, "ensure")
    /\ UNCHANGED <<workerVars, copy, listening, checkpoint, recovering, losses>>

-----------------------------------------------------------------------------
(* Faults and the clock.                                                   *)

StageEnded == {"done", "crashed"}
Working(r) == stage[r].pc \notin {"waiting"} \cup StageEnded

(* The copies the deliveries of a process hold are the broker's again.     *)
Released(p) ==
    [m \in Copies |-> IF \E r \in Runs : ProcessOf[r] = p /\ stage[r].held /\ stage[r].copy = m
                      THEN "ready" ELSE copy[m]]

(* A process dies with all it has under way, and subscribes when restarted.*)
StageCrash(p) ==
    /\ \/ Crash(p) /\ UNCHANGED losses
       \/ /\ ~ \E r \in Runs : ProcessOf[r] = p /\ Active(r)
          /\ p \notin listening \/ \E r \in Runs : ProcessOf[r] = p /\ Working(r)
          /\ losses < MaxLosses
          /\ losses' = losses + 1
          /\ UNCHANGED workerVars
    /\ stage' = [r \in Runs |-> IF ProcessOf[r] = p /\ Working(r)
                                THEN [stage[r] EXCEPT !.pc = "crashed", !.held = FALSE]
                                ELSE stage[r]]
    /\ copy' = Released(p)
    /\ listening' = listening \cup {p}
    /\ UNCHANGED <<checkpoint, recovering>>

(* The channel closes. It is opened again, but nothing subscribes on it.   *)
ChannelLost(p) ==
    /\ p \in listening
    /\ losses < MaxLosses
    /\ losses' = losses + 1
    /\ copy' = Released(p)
    /\ stage' = [r \in Runs |-> IF ProcessOf[r] = p THEN [stage[r] EXCEPT !.held = FALSE]
                                ELSE stage[r]]
    /\ listening' = listening \ {p}
    /\ UNCHANGED <<workerVars, checkpoint, recovering>>

StageTick == Tick /\ UNCHANGED ownVars

StageStep(r) ==
    \/ Ensure(r) \/ Claim(r) \/ EnterWorker(r)
    \/ CompleteCheckpoint(r) \/ FailCheckpoint(r)
    \/ Settle(r)

StageNext ==
    \/ \E r \in Runs : (\E m \in Copies : Deliver(r, m)) \/ Dispatch(r)
    \/ \E r \in Runs : StageStep(r) \/ WorkerStep(r) \/ CheckpointFails(r)
    \/ MarkAbandoned
    \/ \E p \in Processes : StageCrash(p) \/ ChannelLost(p)
    \/ StageTick

StageSpec == StageInit /\ [][StageNext]_stageVars

(* The broker delivers what is ready, a delivery that was taken goes on,   *)
(* and so does the recovery, whose scan is repeated. Faults and the clock  *)
(* owe nothing.                                                            *)
StageFairness ==
    /\ \A r \in Runs :
         /\ WF_stageVars(\E m \in Copies : Deliver(r, m))
         /\ WF_stageVars(StageStep(r))
         /\ WF_stageVars(RunStep(r) /\ UNCHANGED ownVars)
         /\ WF_stageVars(HandlerStep(r) /\ UNCHANGED ownVars)
         /\ WF_stageVars(BeatLands(r) /\ UNCHANGED ownVars)
         /\ WF_stageVars(Dispatch(r))
    /\ WF_stageVars(MarkAbandoned)

FairStageSpec == StageSpec /\ StageFairness

-----------------------------------------------------------------------------
(* The invariant, by parts.                                                *)

StagePCs ==
    {"waiting", "ensure", "claim", "claimed", "protected", "failing", "ack", "requeue", "reject"}
      \cup StageEnded

Checkpoints ==
    [status : {"ABSENT", "PENDING", "PROCESSING", "COMPLETED", "FAILED", "ABANDONED"},
     owner : Processes \cup {NoOne}, token : Nat, lease : Nat, retryable : BOOLEAN,
     safety : {"UNKNOWN", "SAFE", "REQUIRES_RECONCILIATION"}]

(* Every variable has its type.                                            *)
StageTypeOK ==
    /\ copy \in [Copies -> {"ready", "held", "acked", "dead"}]
    /\ listening \in SUBSET Processes
    /\ checkpoint \in Checkpoints
    /\ stage \in [Runs -> [pc : StagePCs, copy : Copies \cup {NoOne}, held : BOOLEAN, token : Nat]]
    /\ recovering \in BOOLEAN
    /\ losses \in 0..MaxLosses

(* A delivery that has claimed, and whose claim is still the checkpoint's. *)
StageHolding == {"claimed", "protected", "failing"}
OwnsCheckpoint(r) == stage[r].pc \in StageHolding /\ OwnedCheckpoint(r)

SettledCheckpoint == checkpoint.status \in {"COMPLETED", "FAILED"}

(* Claims are numbered, and name the delivery that holds them.             *)
ClaimsAreSound ==
    \A r \in Runs :
       /\ stage[r].pc \in {"waiting", "ensure", "claim"} => stage[r].token = 0
       /\ stage[r].pc \in StageHolding => stage[r].token > 0
       /\ stage[r].token <= checkpoint.token
       /\ \A s \in Runs : stage[r].token = stage[s].token /\ stage[r].token > 0 => r = s
       /\ stage[r].held => stage[r].copy \in Copies

(* The worker's run of a delivery lives within its claim.                  *)
RunsAreEntered ==
    \A r \in Runs :
       /\ run[r].pc # "idle" => stage[r].token > 0 /\ stage[r].pc # "claimed"
       /\ Active(r) => stage[r].pc = "protected"
       /\ run[r].pc = "done" => run[r].outcome # "none"

(* What the checkpoint says of its claims, and the broker of it.           *)
CheckpointIsSound ==
    /\ checkpoint.token = 0 <=> checkpoint.status \in {"ABSENT", "PENDING"}
    /\ \A r \in Runs : /\ stage[r].pc = "claim" => checkpoint.status # "ABSENT"
                       /\ stage[r].pc = "ack" => checkpoint.token > 0
    /\ \A m \in Copies : copy[m] = "acked" => checkpoint.token > 0
    /\ checkpoint.status = "PROCESSING" /\ faults = 0 /\ losses = 0 =>
          \E r \in Runs : OwnsCheckpoint(r)
    /\ ~ recovering => checkpoint.token <= 1 /\ checkpoint.status # "ABANDONED"

Past(r) == run[r].pc \notin {"idle"} \cup Claiming

RecordIsEntered ==
    /\ record.token > 0 => \E r \in Runs : Past(r)
    /\ ~ recovering => \A r \in Runs :
          /\ run[r].pc \notin {"find", "reclaim", "retry"}
          /\ run[r].outcome \in {"none", "EXECUTED", "THREW"}

(* A job is entered once: without the runtime recovery, no redelivery,     *)
(* second copy, crash or failed statement makes a second run claim the     *)
(* idempotency record, so the handler runs at most once.                   *)
HandlerOnce == ~ recovering => record.token <= 1

(* A checkpoint is completed for work that was: without the recovery no    *)
(* delivery completes it on a duplicate's answer (process, section 5).     *)
CompletedAgrees ==
    ~ recovering /\ checkpoint.status = "COMPLETED" => record.status = "COMPLETED"

StageInv ==
    /\ StageTypeOK
    /\ ClaimsAreSound
    /\ RunsAreEntered
    /\ CheckpointIsSound
    /\ RecordIsEntered
    /\ HandlerOnce
    /\ CompletedAgrees

-----------------------------------------------------------------------------
(* Properties.                                                             *)

(* The broker is never told that a job is taken care of before a delivery  *)
(* has claimed it; and where nothing has failed, its checkpoint is settled *)
(* or the delivery that owns it is still at work.                          *)
AckedIsAnswered ==
    (\E m \in Copies : copy[m] = "acked") =>
       /\ checkpoint.token > 0
       /\ ~ recovering /\ faults = 0 /\ losses = 0 =>
            SettledCheckpoint \/ \E r \in Runs : OwnsCheckpoint(r)

(* Live ownership is not stolen: a delivery loses a claim that it has not  *)
(* settled itself only to an expired lease, by way of the recovery.        *)
LiveClaimIsKept ==
    [][\A r \in Runs : OwnsCheckpoint(r) /\ stage'[r] = stage[r] /\ checkpoint' # checkpoint
                        => checkpoint.lease <= now]_stageVars

(* A settled checkpoint is never opened again, by the recovery's dispatch  *)
(* of a failed one neither.                                                *)
SettledIsKept == [][SettledCheckpoint => checkpoint' = checkpoint]_stageVars

(* Every delivery that was taken ends, and its copy is settled, dead or    *)
(* the broker's again.                                                     *)
EveryDeliveryEnds == \A r \in Runs : Working(r) ~> stage[r].pc \in StageEnded

-----------------------------------------------------------------------------
(* Refinement. The checkpoint is claimed under a fence as well.            *)

CheckpointPhase ==
    CASE checkpoint.status = "PROCESSING" -> "claimed"
      [] SettledCheckpoint                -> "closed"
      [] OTHER                            -> "open"

CheckpointFence == INSTANCE FencedClaim WITH
    Holders <- Runs,
    phase   <- CheckpointPhase,
    holders <- {r \in Runs : OwnsCheckpoint(r)},
    lapsed  <- checkpoint.status = "PROCESSING" /\ checkpoint.lease <= now

(* Deliveries and the recovery do no more to the checkpoint than the fence *)
(* allows: one delivery owns it at a time, it is settled by its owner and  *)
(* once, and it is opened again only when its lease has lapsed.            *)
CheckpointImplementsClaim == CheckpointFence!Spec

=============================================================================
