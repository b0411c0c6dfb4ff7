------------------------ MODULE ProtectedStageProofs ------------------------
(***************************************************************************)
(* Theorems about the protected stage, for every set of deliveries,        *)
(* copies and processes, every kind of stage, with or without the runtime  *)
(* recovery. What the worker does within a stage is a behaviour of the     *)
(* worker's own specification, so that WorkerInv is had for nothing.       *)
(* StageInv adds how deliveries, checkpoint, runs and record agree.        *)
(***************************************************************************)
EXTENDS ProtectedStage, IdempotentWorkerProofs

-----------------------------------------------------------------------------
(* The stage drives the worker as the worker's specification allows.       *)

(* A delivery's step is its own or that of its run.                        *)
LEMMA StageStepsWork ==
    ASSUME [StageNext]_stageVars
    PROVE  [Next]_workerVars
<1>1. CASE UNCHANGED stageVars
  BY <1>1 DEF stageVars
<1>2. ASSUME NEW r \in Runs, WorkerStep(r) PROVE Next
  BY <1>2 DEF WorkerStep, Next
<1>3. ASSUME NEW r \in Runs, EnterWorker(r) PROVE Next
  BY <1>3 DEF EnterWorker, Next
<1>4. ASSUME NEW p \in Processes, StageCrash(p) PROVE [Next]_workerVars
  BY <1>4 DEF StageCrash, Next
<1>5. CASE StageTick
  BY <1>5 DEF StageTick, Next
<1>6. ASSUME NEW r \in Runs,
             \/ \E m \in Copies : Deliver(r, m)
             \/ Dispatch(r) \/ Ensure(r) \/ Claim(r) \/ CompleteCheckpoint(r)
             \/ FailCheckpoint(r) \/ CheckpointFails(r) \/ Settle(r)
      PROVE  UNCHANGED workerVars
  BY <1>6 DEF Deliver, Dispatch, Ensure, Claim, CompleteCheckpoint, FailCheckpoint,
              CheckpointFails, Settle, Statement
<1>7. CASE MarkAbandoned
  BY <1>7 DEF MarkAbandoned, Statement
<1>8. ASSUME NEW p \in Processes, ChannelLost(p) PROVE UNCHANGED workerVars
  BY <1>8 DEF ChannelLost
<1>. QED BY <1>1, <1>2, <1>3, <1>4, <1>5, <1>6, <1>7, <1>8 DEF StageNext, StageStep

(* Whatever deliveries, recovery and faults do, the runs of the idempotent *)
(* worker behave as its own specification says.                            *)
THEOREM StageImplementsWorker == StageSpec => Spec
<1>1. StageInit => Init
  BY DEF StageInit
<1>2. [StageNext]_stageVars => [Next]_workerVars
  BY StageStepsWork
<1>. QED BY <1>1, <1>2, PTL DEF StageSpec, Spec

-----------------------------------------------------------------------------
(* What a step of the worker may do to its run and to the record.          *)

RunMoves(me, next) ==
    /\ me.pc = "idle" <=> next.pc = "idle"
    /\ me.pc \notin Claiming => next.pc \notin Claiming
    /\ next.pc \notin Ended => me.pc \notin Ended
    /\ next.pc = "done" => next.outcome # "none" \/ (me.pc = "done" /\ next.outcome = me.outcome)

RecordMoves(me, next) ==
    /\ \/ record'.token = record.token
       \/ /\ me.pc \in Claiming /\ next.pc \notin Claiming
          /\ record'.token = record.token + 1
    /\ record.status = "COMPLETED" => record' = record

(* The run is the first, so it neither finds nor takes over a record.      *)
FirstMoves(me, next) ==
    /\ me.pc \notin {"find", "reclaim", "retry"}
    /\ me.pc = "insert" => record.status = "ABSENT"
    /\ me.outcome \in {"none", "EXECUTED", "THREW"}
    => /\ next.pc \notin {"find", "reclaim", "retry"}
       /\ next.outcome \in {"none", "EXECUTED", "THREW"}

Moves(r) ==
    /\ run' \in [Runs -> RunStates]
    /\ \A s \in Runs \ {r} : run'[s] = run[s]
    /\ RunMoves(run[r], run'[r])
    /\ RecordMoves(run[r], run'[r])
    /\ FirstMoves(run[r], run'[r])
    /\ faults' >= faults

(* The record as a statement of the run leaves it.                         *)
LEMMA StoredMoves ==
    ASSUME WorkerAssumption, WorkerInv, NEW r \in Runs, Accepts(r), record' = Stored(r)
    PROVE  /\ record.status # "COMPLETED"
           /\ \/ run[r].pc \in {"complete", "fail"} /\ record'.token = record.token
              \/ run[r].pc \in Claiming /\ record'.token = record.token + 1
<1>1. record \in Records /\ run[r].pc \in {"insert", "reclaim", "retry", "complete", "fail"}
  BY DEF WorkerInv, TypeOK, Accepts
<1>2. record.status = "ABSENT" => record.token = 0
  BY DEF WorkerInv, RecordIsSound
<1>3. CASE run[r].pc = "insert"
  BY <1>2, <1>3 DEF Accepts, Stored, Inserted, Claiming
<1>4. CASE run[r].pc \in {"reclaim", "retry"}
  BY <1>4 DEF Accepts, Reclaimable, Retriable, Stored, Taken, Claiming
<1>5. CASE run[r].pc = "complete"
  BY <1>1, <1>5 DEF Accepts, Owned, Stored, Completed, Records
<1>6. CASE run[r].pc = "fail"
  BY <1>1, <1>6 DEF Accepts, Owned, Stored, Failed, Records
<1>. QED BY <1>1, <1>3, <1>4, <1>5, <1>6

LEMMA AcquiredMoves ==
    ASSUME WorkerAssumption, WorkerInv, WorkerInv', NEW r \in Runs, run[r].pc \in Claiming,
           Acquired(r), faults' = faults
    PROVE  Moves(r)
<1>1. run \in [Runs -> RunStates] /\ run' \in [Runs -> RunStates] /\ faults \in Nat
  BY DEF WorkerInv, TypeOK, WorkerAssumption
<1>2. /\ run'[r].pc = "handler" /\ run'[r].outcome = run[r].outcome
      /\ \A s \in Runs \ {r} : run'[s] = run[s]
  BY <1>1 DEF Acquired, Go, RunStates
<1>3. record.status # "COMPLETED" /\ record'.token = record.token + 1
  BY StoredMoves DEF Acquired, Claiming
<1>. QED BY <1>1, <1>2, <1>3 DEF Moves, RunMoves, RecordMoves, FirstMoves, Claiming, Ended

(* A run leaves its claim behind, or goes on under it.                     *)
RunEnds(r) ==
    /\ \A s \in Runs \ {r} : run'[s] = run[s]
    /\ run'[r].pc \notin Claiming \cup {"idle"}
    /\ \/ run'[r].pc = "done" /\ run'[r].outcome \in {"EXECUTED", "THREW"}
       \/ run'[r].pc # "done" /\ run'[r].outcome = run[r].outcome

(* A step that does so, with the record as it was or as stored.            *)
LEMMA EndMoves ==
    ASSUME WorkerAssumption, WorkerInv, WorkerInv', NEW r \in Runs,
           run[r].pc \in Claiming \cup Holding,
           RunEnds(r),
           record' = record \/ (Accepts(r) /\ record' = Stored(r)),
           faults' >= faults
    PROVE  Moves(r)
<1>1. run' \in [Runs -> RunStates]
  BY DEF WorkerInv, TypeOK
<1>2. RecordMoves(run[r], run'[r])
  BY StoredMoves DEF RunEnds, RecordMoves, Claiming
<1>3. RunMoves(run[r], run'[r])
  BY DEF RunEnds, RunMoves, Claiming, Holding, Ended
<1>4. FirstMoves(run[r], run'[r])
  BY DEF RunEnds, FirstMoves, Claiming
<1>. QED BY <1>1, <1>2, <1>3, <1>4 DEF RunEnds, Moves

LEMMA FindMoves ==
    ASSUME WorkerAssumption, WorkerInv, WorkerInv', NEW r \in Runs, Find(r)
    PROVE  Moves(r)
<1>. DEFINE me == run[r]
<1>1. /\ run' \in [Runs -> RunStates] /\ run'[r] = Resolved(me) /\ me.pc = "find"
      /\ \A s \in Runs \ {r} : run'[s] = run[s]
      /\ record' = record /\ faults' = faults /\ faults \in Nat /\ me \in RunStates
  BY DEF Find, Go, WorkerInv, TypeOK, WorkerAssumption
<1>2. /\ Resolved(me).pc \in {"done", "reclaim", "retry"}
      /\ Resolved(me).pc = "done" => Resolved(me).outcome # "none"
  BY <1>1 DEF Resolved, RunStates
<1>3. RunMoves(me, run'[r]) /\ FirstMoves(me, run'[r])
  BY <1>1, <1>2 DEF RunMoves, FirstMoves, Claiming, Ended
<1>4. RecordMoves(me, run'[r])
  BY <1>1 DEF RecordMoves
<1>. QED BY <1>1, <1>3, <1>4 DEF Moves

(* A beat touches neither where its run stands nor the claim's number.     *)
LEMMA BeatMoves ==
    ASSUME WorkerAssumption, WorkerInv, WorkerInv', NEW r \in Runs,
           Beat(r) \/ BeatLands(r) \/ BeatFails(r)
    PROVE  Moves(r)
<1>1. /\ run \in [Runs -> RunStates] /\ run' \in [Runs -> RunStates]
      /\ faults \in Nat /\ record \in Records
  BY DEF WorkerInv, TypeOK, WorkerAssumption
<1>2. faults' >= faults
  <2>1. faults' = faults \/ faults' = faults + 1
    BY DEF Beat, BeatLands, BeatFails
  <2>. QED BY <1>1, <2>1
<1>3. \E beats, last, lost : run' = [run EXCEPT ![r] = [run[r] EXCEPT !.beats = beats, !.last = last, !.lost = lost]]
  <2>1. CASE Beat(r)
    <3>1. run' = [run EXCEPT ![r] = [run[r] EXCEPT !.beats = @ \cup {now}, !.last = now, !.lost = run[r].lost]]
      BY <1>1, <2>1 DEF Beat, Go, RunStates
    <3>. QED BY <3>1
  <2>2. CASE BeatLands(r)
    <3>1. \E beat \in run[r].beats, lost \in BOOLEAN :
             run' = [run EXCEPT ![r] = [run[r] EXCEPT !.beats = @ \ {beat}, !.last = run[r].last, !.lost = lost]]
      <4>1. PICK beat \in run[r].beats :
               \/ Go(r, [run[r] EXCEPT !.beats = @ \ {beat}])
               \/ Go(r, [run[r] EXCEPT !.beats = @ \ {beat}, !.lost = TRUE])
        BY <2>2 DEF BeatLands
      <4>2. \/ run' = [run EXCEPT ![r] = [run[r] EXCEPT !.beats = @ \ {beat}, !.last = run[r].last, !.lost = run[r].lost]]
            \/ run' = [run EXCEPT ![r] = [run[r] EXCEPT !.beats = @ \ {beat}, !.last = run[r].last, !.lost = TRUE]]
        BY <1>1, <4>1 DEF Go, RunStates
      <4>3. run[r].lost \in BOOLEAN
        BY <1>1 DEF RunStates
      <4>. QED BY <4>2, <4>3
    <3>. QED BY <3>1
  <2>3. CASE BeatFails(r)
    <3>1. \E beat \in run[r].beats :
             run' = [run EXCEPT ![r] = [run[r] EXCEPT !.beats = @ \ {beat}, !.last = run[r].last, !.lost = TRUE]]
      BY <1>1, <2>3 DEF BeatFails, Go, RunStates
    <3>. QED BY <3>1
  <2>. QED BY <2>1, <2>2, <2>3
<1>4. /\ run'[r].pc = run[r].pc /\ run'[r].outcome = run[r].outcome
      /\ \A s \in Runs \ {r} : run'[s] = run[s]
  BY <1>1, <1>3 DEF RunStates
<1>5. record'.token = record.token /\ (record.status = "COMPLETED" => record' = record)
  BY <1>1 DEF Beat, BeatLands, BeatFails, Owned, Renewed, Records
<1>. QED BY <1>1, <1>2, <1>4, <1>5 DEF Moves, RunMoves, RecordMoves, FirstMoves

(* Every step of the worker for one run moves no further than this.        *)
LEMMA WorkerMoves ==
    ASSUME WorkerAssumption, WorkerInv, WorkerInv', NEW r \in Runs, WorkerStep(r)
    PROVE  Moves(r)
<1>1. /\ run \in [Runs -> RunStates] /\ run' \in [Runs -> RunStates]
      /\ faults \in Nat /\ record \in Records
  BY DEF WorkerInv, TypeOK, WorkerAssumption
<1>2. CASE Insert(r)
  <2>1. CASE Acquired(r)
    BY <1>2, <2>1, AcquiredMoves DEF Insert, Claiming
  <2>2. CASE ~ Accepts(r) /\ Go(r, [run[r] EXCEPT !.pc = "find"]) /\ record' = record
    <3>1. /\ run'[r].pc = "find" /\ run[r].pc = "insert" /\ run'[r].outcome = run[r].outcome
          /\ record.status # "ABSENT" /\ faults' = faults
          /\ \A s \in Runs \ {r} : run'[s] = run[s]
      BY <1>1, <1>2, <2>2 DEF Insert, Go, RunStates, Accepts
    <3>2. RunMoves(run[r], run'[r])
      BY <3>1 DEF RunMoves, Claiming, Ended
    <3>3. FirstMoves(run[r], run'[r])
      BY <3>1 DEF FirstMoves
    <3>. QED BY <1>1, <2>2, <3>1, <3>2, <3>3 DEF Moves, RecordMoves
  <2>. QED BY <1>2, <2>1, <2>2 DEF Insert
<1>3. CASE Find(r)
  BY <1>3, FindMoves
<1>4. CASE TakeOver(r)
  <2>1. CASE Acquired(r)
    BY <1>4, <2>1, AcquiredMoves DEF TakeOver, Claiming
  <2>2. CASE Return(r, "DUPLICATE_PROCESSING") /\ record' = record
    <3>1. /\ run'[r].pc = "done" /\ run[r].pc \in {"reclaim", "retry"}
          /\ run'[r].outcome = "DUPLICATE_PROCESSING"
          /\ faults' = faults /\ \A s \in Runs \ {r} : run'[s] = run[s]
      BY <1>1, <1>4, <2>2 DEF TakeOver, Return, Go, RunStates
    <3>2. RunMoves(run[r], run'[r])
      BY <3>1 DEF RunMoves, Claiming, Ended
    <3>3. FirstMoves(run[r], run'[r])
      BY <3>1 DEF FirstMoves
    <3>. QED BY <1>1, <2>2, <3>1, <3>2, <3>3 DEF Moves, RecordMoves
  <2>. QED BY <1>4, <2>1, <2>2 DEF TakeOver
<1>5. ASSUME Stopped(r) \/ Complete(r) \/ Fail(r) \/ StoreFails(r) \/ HandlerStep(r)
      PROVE  /\ run[r].pc \in Claiming \cup Holding
             /\ RunEnds(r)
             /\ record' = record \/ (Accepts(r) /\ record' = Stored(r))
             /\ faults' >= faults
  <2>1. CASE Stopped(r)
    <3>1. /\ run[r].pc \in {"stop", "catch"} /\ record' = record /\ faults' = faults
          /\ \/ Return(r, "THREW")
             \/ Go(r, [run[r] EXCEPT !.pc = "complete"])
             \/ Go(r, [run[r] EXCEPT !.pc = "fail"])
      BY <2>1 DEF Stopped
    <3>2. RunEnds(r)
      <4>1. CASE Return(r, "THREW")
        BY <1>1, <4>1 DEF RunEnds, Return, Go, RunStates, Claiming
      <4>2. CASE Go(r, [run[r] EXCEPT !.pc = "complete"])
        BY <1>1, <4>2 DEF RunEnds, Return, Go, RunStates, Claiming
      <4>3. CASE Go(r, [run[r] EXCEPT !.pc = "fail"])
        BY <1>1, <4>3 DEF RunEnds, Return, Go, RunStates, Claiming
      <4>. QED BY <3>1, <4>1, <4>2, <4>3
    <3>. QED BY <1>1, <3>1, <3>2 DEF Holding
  <2>2. CASE Complete(r)
    <3>1. /\ run[r].pc = "complete" /\ faults' = faults
          /\ record' = record \/ (Accepts(r) /\ record' = Stored(r))
          /\ \/ Go(r, [run[r] EXCEPT !.pc = "done", !.outcome = "EXECUTED", !.result = run[r].token])
             \/ Return(r, "THREW")
             \/ Go(r, [run[r] EXCEPT !.pc = "catch", !.error = "permanent"])
      BY <2>2 DEF Complete
    <3>2. RunEnds(r)
      <4>1. CASE Go(r, [run[r] EXCEPT !.pc = "done", !.outcome = "EXECUTED", !.result = run[r].token])
        BY <1>1, <4>1 DEF RunEnds, Return, Go, RunStates, Claiming
      <4>2. CASE Return(r, "THREW")
        BY <1>1, <4>2 DEF RunEnds, Return, Go, RunStates, Claiming
      <4>3. CASE Go(r, [run[r] EXCEPT !.pc = "catch", !.error = "permanent"])
        BY <1>1, <4>3 DEF RunEnds, Return, Go, RunStates, Claiming
      <4>. QED BY <3>1, <4>1, <4>2, <4>3
    <3>. QED BY <1>1, <3>1, <3>2 DEF Holding
  <2>3. CASE Fail(r)
    <3>1. /\ run[r].pc = "fail" /\ faults' = faults /\ Return(r, "THREW")
          /\ record' = record \/ (Accepts(r) /\ record' = Stored(r))
      BY <2>3 DEF Fail
    <3>2. RunEnds(r)
      BY <1>1, <3>1 DEF RunEnds, Return, Go, RunStates, Claiming
    <3>. QED BY <1>1, <3>1, <3>2 DEF Holding
  <2>4. CASE StoreFails(r)
    <3>1. /\ run[r].pc \in Claiming \cup Holding /\ faults' = faults + 1
          /\ record' = record \/ (Accepts(r) /\ record' = Stored(r))
      BY <2>4 DEF StoreFails, Holding
    <3>2. \/ Return(r, "THREW")
          \/ \E error \in Errors : Go(r, [run[r] EXCEPT !.pc = "catch", !.error = error])
      BY <2>4 DEF StoreFails
    <3>3. RunEnds(r)
      <4>1. CASE Return(r, "THREW")
        BY <1>1, <4>1 DEF RunEnds, Return, Go, RunStates, Claiming
      <4>2. CASE \E error \in Errors : Go(r, [run[r] EXCEPT !.pc = "catch", !.error = error])
        BY <1>1, <4>2 DEF RunEnds, Go, RunStates, Claiming
      <4>. QED BY <3>2, <4>1, <4>2
    <3>. QED BY <1>1, <3>1, <3>3
  <2>5. CASE HandlerStep(r)
    BY <1>1, <2>5 DEF RunEnds, HandlerStep, HandlerEnds, Go, RunStates, Holding, Claiming
  <2>. QED BY <1>5, <2>1, <2>2, <2>3, <2>4, <2>5
<1>6. CASE Stopped(r) \/ Complete(r) \/ Fail(r) \/ StoreFails(r) \/ HandlerStep(r)
  BY <1>5, <1>6, EndMoves
<1>7. CASE Beat(r) \/ BeatLands(r) \/ BeatFails(r)
  BY <1>7, BeatMoves
<1>. QED BY <1>2, <1>3, <1>4, <1>6, <1>7 DEF WorkerStep, RunStep

-----------------------------------------------------------------------------
(* StageInv, taken apart.                                                  *)

StageStates == [pc : StagePCs, copy : Copies \cup {NoOne}, held : BOOLEAN, token : Nat]

(* What StageInv says of one delivery.                                     *)
DeliveryOK(me, work, cp) ==
    /\ me \in StageStates
    /\ me.pc \in {"waiting", "ensure", "claim"} => me.token = 0
    /\ me.pc \in StageHolding => me.token > 0
    /\ me.token <= cp.token
    /\ me.held => me.copy \in Copies
    /\ work.pc # "idle" => me.token > 0 /\ me.pc # "claimed"
    /\ work.pc \notin {"idle"} \cup Ended => me.pc = "protected"
    /\ work.pc = "done" => work.outcome # "none"
    /\ me.pc = "claim" => cp.status # "ABSENT"
    /\ me.pc = "ack" => cp.token > 0

(* What it says of the checkpoint.                                         *)
CheckpointOK(cp) ==
    /\ cp \in Checkpoints
    /\ cp.token = 0 <=> cp.status \in {"ABSENT", "PENDING"}
    /\ ~ recovering => cp.token <= 1 /\ cp.status # "ABANDONED"
    /\ ~ recovering /\ cp.status = "COMPLETED" => record.status = "COMPLETED"

TokensDiffer ==
    \A r, s \in Runs : stage[r].token = stage[s].token /\ stage[r].token > 0 => r = s

OwnerIsThere ==
    checkpoint.status = "PROCESSING" /\ faults = 0 /\ losses = 0 =>
       \E r \in Runs : OwnsCheckpoint(r)

CopiesOK ==
    /\ copy \in [Copies -> {"ready", "held", "acked", "dead"}]
    /\ \A m \in Copies : copy[m] = "acked" => checkpoint.token > 0

LEMMA StageParts ==
    StageInv <=>
       /\ stage \in [Runs -> StageStates]
       /\ \A r \in Runs : DeliveryOK(stage[r], run[r], checkpoint)
       /\ CheckpointOK(checkpoint)
       /\ TokensDiffer
       /\ OwnerIsThere
       /\ CopiesOK
       /\ listening \in SUBSET Processes /\ recovering \in BOOLEAN /\ losses \in 0..MaxLosses
       /\ RecordIsEntered
       /\ HandlerOnce
BY DEF StageInv, StageTypeOK, ClaimsAreSound, RunsAreEntered, CheckpointIsSound, CompletedAgrees,
       StageStates, DeliveryOK, CheckpointOK, TokensDiffer, OwnerIsThere, CopiesOK, Active

(* Without the recovery a run that claims the record is the first to.      *)
LEMMA FirstToClaim ==
    ASSUME StageInv, WorkerInv, ~ recovering, NEW r \in Runs, run[r].pc \in Claiming
    PROVE  record.token = 0 /\ record.status = "ABSENT"
<1>1. ASSUME NEW s \in Runs, Past(s) PROVE FALSE
  <2>1. /\ DeliveryOK(stage[s], run[s], checkpoint) /\ DeliveryOK(stage[r], run[r], checkpoint)
        /\ checkpoint.token <= 1 /\ checkpoint.token \in Nat /\ TokensDiffer
    BY StageParts DEF CheckpointOK, Checkpoints
  <2>2. stage[s].token = 1 /\ stage[r].token = 1
    BY <1>1, <2>1 DEF DeliveryOK, StageStates, Past, Claiming
  <2>3. s = r
    BY <2>1, <2>2 DEF TokensDiffer
  <2>. QED BY <1>1, <2>3 DEF Past
<1>2. ~ (record.token > 0)
  BY <1>1, StageParts DEF RecordIsEntered
<1>. QED BY <1>2 DEF WorkerInv, TypeOK, Records, RecordIsSound

(* How the checkpoint may change.                                          *)
CheckpointFollows(old, new) ==
    /\ old.token <= new.token
    /\ old.status # "ABSENT" => new.status # "ABSENT"

(* A delivery that does nothing keeps what is said of it.                  *)
LEMMA OtherDeliveries ==
    ASSUME NEW me, NEW work, NEW old \in Checkpoints, NEW new \in Checkpoints,
           DeliveryOK(me, work, old), CheckpointFollows(old, new)
    PROVE  DeliveryOK(me, work, new)
<1>1. me.token \in Nat /\ old.token \in Nat /\ new.token \in Nat
  BY DEF DeliveryOK, StageStates, Checkpoints
<1>2. me.token <= new.token
  BY <1>1 DEF DeliveryOK, CheckpointFollows
<1>3. me.pc = "claim" => new.status # "ABSENT"
  BY DEF DeliveryOK, CheckpointFollows
<1>4. me.pc = "ack" => new.token > 0
  BY <1>1 DEF DeliveryOK, CheckpointFollows
<1>. QED BY <1>2, <1>3, <1>4 DEF DeliveryOK

(* A step of one delivery outside its run.                                 *)
LEMMA StageFrame ==
    ASSUME StageInv, NEW r \in Runs, NEW next,
           stage' = [stage EXCEPT ![r] = next],
           UNCHANGED <<workerVars, listening, recovering>>,
           DeliveryOK(next, run[r], checkpoint'),
           CheckpointOK(checkpoint'), CheckpointFollows(checkpoint, checkpoint'),
           next.token = stage[r].token \/ next.token = checkpoint.token + 1,
           OwnerIsThere', CopiesOK', losses' \in 0..MaxLosses
    PROVE  StageInv'
<1>1. /\ stage \in [Runs -> StageStates] /\ TokensDiffer
      /\ \A s \in Runs : DeliveryOK(stage[s], run[s], checkpoint)
      /\ CheckpointOK(checkpoint) /\ RecordIsEntered /\ HandlerOnce
      /\ listening \in SUBSET Processes /\ recovering \in BOOLEAN
  BY StageParts
<1>2. checkpoint \in Checkpoints /\ checkpoint' \in Checkpoints /\ next \in StageStates
  BY <1>1 DEF CheckpointOK, DeliveryOK
<1>3. /\ stage' \in [Runs -> StageStates] /\ stage'[r] = next
      /\ \A s \in Runs \ {r} : stage'[s] = stage[s]
  BY <1>1, <1>2
<1>4. ASSUME NEW s \in Runs PROVE DeliveryOK(stage'[s], run'[s], checkpoint')
  <2>1. run'[s] = run[s]
    BY DEF workerVars
  <2>2. CASE s = r
    BY <1>3, <2>1, <2>2
  <2>3. CASE s # r
    BY <1>1, <1>2, <1>3, <2>1, <2>3, OtherDeliveries
  <2>. QED BY <2>2, <2>3
<1>5. TokensDiffer'
  <2>1. \A s \in Runs : stage[s].token \in Nat /\ stage[s].token <= checkpoint.token /\ checkpoint.token \in Nat
    BY <1>1, <1>2 DEF DeliveryOK, StageStates, Checkpoints
  <2>2. ASSUME NEW s \in Runs \ {r} PROVE stage[s].token = next.token /\ next.token > 0 => FALSE
    BY <1>1, <2>1 DEF TokensDiffer
  <2>. QED BY <1>1, <1>3, <2>2 DEF TokensDiffer
<1>6. CheckpointOK(checkpoint)' /\ RecordIsEntered' /\ HandlerOnce'
  BY <1>1 DEF CheckpointOK, workerVars, RecordIsEntered, HandlerOnce, Past
<1>7. listening' \in SUBSET Processes /\ recovering' \in BOOLEAN
  BY <1>1
<1>. QED
  BY <1>3, <1>4, <1>5, <1>6, <1>7
     DEF StageInv, StageTypeOK, ClaimsAreSound, RunsAreEntered, CheckpointIsSound, CompletedAgrees,
         StageStates, DeliveryOK, CheckpointOK, TokensDiffer, OwnerIsThere, CopiesOK, Active

-----------------------------------------------------------------------------
(* The steps of a delivery outside its run.                                *)

LEMMA StageBefore ==
    ASSUME StageInv, NEW r \in Runs
    PROVE  /\ stage \in [Runs -> StageStates] /\ stage[r] \in StageStates
           /\ DeliveryOK(stage[r], run[r], checkpoint) /\ CheckpointOK(checkpoint)
           /\ checkpoint \in Checkpoints /\ CheckpointFollows(checkpoint, checkpoint)
           /\ OwnerIsThere /\ CopiesOK /\ losses \in 0..MaxLosses /\ losses \in Nat
           /\ TokensDiffer
BY StageParts DEF CheckpointOK, CheckpointFollows, DeliveryOK, Checkpoints

(* The owner of the checkpoint stays while nothing changes the checkpoint  *)
(* and it does not leave its claim itself.                                 *)
LEMMA OwnerStays ==
    ASSUME StageInv, NEW r \in Runs, NEW next,
           stage' = [stage EXCEPT ![r] = next],
           checkpoint' = checkpoint, faults' = faults, losses' = losses \/ losses' = losses + 1,
           OwnsCheckpoint(r) => next.pc \in StageHolding /\ next.token = stage[r].token
    PROVE  OwnerIsThere'
<1>1. SUFFICES ASSUME checkpoint.status = "PROCESSING", faults = 0, losses' = 0
               PROVE  \E s \in Runs : OwnsCheckpoint(s)'
  BY DEF OwnerIsThere
<1>2. losses = 0 /\ stage \in [Runs -> StageStates] /\ OwnerIsThere
  BY <1>1, StageParts
<1>3. PICK s \in Runs : OwnsCheckpoint(s)
  BY <1>1, <1>2 DEF OwnerIsThere
<1>4. stage'[s].pc \in StageHolding /\ stage'[s].token = stage[s].token
  <2>1. CASE s = r
    BY <1>2, <1>3, <2>1
  <2>2. CASE s # r
    BY <1>2, <1>3, <2>2 DEF OwnsCheckpoint
  <2>. QED BY <2>1, <2>2
<1>5. OwnsCheckpoint(s)'
  BY <1>3, <1>4 DEF OwnsCheckpoint, OwnedCheckpoint
<1>. QED BY <1>5

LEMMA DeliverOK ==
    ASSUME StageAssumption, StageInv, NEW r \in Runs, NEW m \in Copies, Deliver(r, m)
    PROVE  StageInv'
<1>. DEFINE next == [pc |-> "ensure", copy |-> m, held |-> TRUE, token |-> 0]
<1>1. /\ stage' = [stage EXCEPT ![r] = next] /\ checkpoint' = checkpoint /\ losses' = losses
      /\ UNCHANGED <<workerVars, listening, recovering>> /\ stage[r].pc = "waiting"
      /\ copy' = [copy EXCEPT ![m] = "held"]
  BY DEF Deliver, At
<1>2. /\ next \in StageStates /\ next.pc = "ensure" /\ next.token = 0 /\ next.copy \in Copies
  BY DEF StageStates, StagePCs
<1>. HIDE DEF next
<1>3. stage[r].token = 0 /\ DeliveryOK(next, run[r], checkpoint)
  BY <1>1, <1>2, StageBefore DEF DeliveryOK, StageHolding, Checkpoints, Ended
<1>4. CheckpointOK(checkpoint') /\ CheckpointFollows(checkpoint, checkpoint')
  BY <1>1, StageBefore
<1>5. OwnerIsThere'
  BY <1>1, OwnerStays DEF OwnsCheckpoint, StageHolding, workerVars
<1>6. CopiesOK'
  BY <1>1, StageBefore DEF CopiesOK
<1>7. losses' \in 0..MaxLosses
  BY <1>1, StageBefore
<1>. QED BY <1>1, <1>2, <1>3, <1>4, <1>5, <1>6, <1>7, StageFrame

LEMMA SettleOK ==
    ASSUME StageAssumption, StageInv, NEW r \in Runs, Settle(r)
    PROVE  StageInv'
<1>. DEFINE next == [stage[r] EXCEPT !.pc = "done", !.held = FALSE]
<1>1. /\ stage' = [stage EXCEPT ![r] = next] /\ checkpoint' = checkpoint /\ losses' = losses
      /\ UNCHANGED <<workerVars, listening, recovering>>
      /\ stage[r].pc \in {"ack", "requeue", "reject"}
      /\ \/ copy' = copy
         \/ stage[r].held /\ copy' = [copy EXCEPT ![stage[r].copy] = Settlement[stage[r].pc]]
  BY DEF Settle, Settlement
<1>2. /\ next \in StageStates /\ next.pc = "done" /\ next.token = stage[r].token /\ ~ next.held
  BY StageBefore DEF StageStates, StagePCs, StageEnded
<1>. HIDE DEF next
<1>3. DeliveryOK(next, run[r], checkpoint)
  BY <1>1, <1>2, StageBefore DEF DeliveryOK, StageHolding
<1>4. CheckpointOK(checkpoint') /\ CheckpointFollows(checkpoint, checkpoint')
  BY <1>1, StageBefore
<1>5. OwnerIsThere'
  BY <1>1, OwnerStays DEF OwnsCheckpoint, StageHolding, workerVars
<1>6. CopiesOK'
  <2>1. /\ Settlement[stage[r].pc] \in {"ready", "acked", "dead"}
        /\ Settlement[stage[r].pc] = "acked" => stage[r].pc = "ack"
    BY <1>1 DEF Settlement
  <2>2. stage[r].pc = "ack" => checkpoint.token > 0
    BY StageBefore DEF DeliveryOK
  <2>. QED BY <1>1, <2>1, <2>2, StageBefore DEF CopiesOK
<1>7. losses' \in 0..MaxLosses
  BY <1>1, StageBefore
<1>. QED BY <1>1, <1>2, <1>3, <1>4, <1>5, <1>6, <1>7, StageFrame

LEMMA DispatchOK ==
    ASSUME StageAssumption, StageInv, NEW r \in Runs, Dispatch(r)
    PROVE  StageInv'
<1>. DEFINE next == [stage[r] EXCEPT !.pc = "ensure"]
<1>1. /\ stage' = [stage EXCEPT ![r] = next] /\ checkpoint' = checkpoint /\ losses' = losses
      /\ UNCHANGED <<workerVars, copy, listening, recovering>> /\ stage[r].pc = "waiting"
  BY DEF Dispatch, To, At
<1>2. /\ next \in StageStates /\ next.pc = "ensure" /\ next.token = stage[r].token
      /\ next.held = stage[r].held /\ next.copy = stage[r].copy
  BY StageBefore DEF StageStates, StagePCs
<1>. HIDE DEF next
<1>3. DeliveryOK(next, run[r], checkpoint)
  BY <1>1, <1>2, StageBefore DEF DeliveryOK, StageHolding
<1>4. CheckpointOK(checkpoint') /\ CheckpointFollows(checkpoint, checkpoint')
  BY <1>1, StageBefore
<1>5. OwnerIsThere'
  BY <1>1, OwnerStays DEF OwnsCheckpoint, StageHolding, workerVars
<1>6. CopiesOK'
  BY <1>1, StageBefore DEF CopiesOK
<1>7. losses' \in 0..MaxLosses
  BY <1>1, StageBefore
<1>. QED BY <1>1, <1>2, <1>3, <1>4, <1>5, <1>6, <1>7, StageFrame

LEMMA EnsureOK ==
    ASSUME StageAssumption, StageInv, NEW r \in Runs, Ensure(r)
    PROVE  StageInv'
<1>. DEFINE next == [stage[r] EXCEPT !.pc = "claim"]
<1>1. /\ stage' = [stage EXCEPT ![r] = next] /\ checkpoint' = Ensured /\ losses' = losses
      /\ UNCHANGED <<workerVars, copy, listening, recovering>> /\ stage[r].pc = "ensure"
  BY DEF Ensure, To, At, Statement
<1>2. /\ next \in StageStates /\ next.pc = "claim" /\ next.token = stage[r].token
      /\ next.held = stage[r].held /\ next.copy = stage[r].copy
  BY StageBefore DEF StageStates, StagePCs
<1>. HIDE DEF next
<1>3. /\ Ensured \in Checkpoints /\ Ensured.token = checkpoint.token /\ Ensured.status # "ABSENT"
      /\ Ensured = checkpoint \/ (checkpoint.status = "ABSENT" /\ Ensured.status = "PENDING")
  BY StageBefore DEF Ensured, Checkpoints
<1>4. DeliveryOK(next, run[r], checkpoint')
  BY <1>1, <1>2, <1>3, StageBefore DEF DeliveryOK, StageHolding
<1>5. CheckpointOK(checkpoint') /\ CheckpointFollows(checkpoint, checkpoint')
  BY <1>1, <1>3, StageBefore DEF CheckpointOK, CheckpointFollows, Checkpoints
<1>6. OwnerIsThere'
  <2>1. CASE Ensured = checkpoint
    BY <1>1, <2>1, OwnerStays DEF OwnsCheckpoint, StageHolding, workerVars
  <2>2. CASE Ensured.status = "PENDING"
    BY <1>1, <2>2 DEF OwnerIsThere
  <2>. QED BY <1>3, <2>1, <2>2
<1>7. CopiesOK'
  BY <1>1, <1>3, StageBefore DEF CopiesOK
<1>8. losses' \in 0..MaxLosses
  BY <1>1, StageBefore
<1>. QED BY <1>1, <1>2, <1>4, <1>5, <1>6, <1>7, <1>8, StageFrame

(* What a claim makes of the checkpoint and of its delivery.               *)
LEMMA ClaimedCheckpoint ==
    ASSUME StageAssumption, WorkerAssumption, WorkerInv, StageInv, NEW r \in Runs, Claimable
    PROVE  /\ CheckpointOK(Claimed(r)) /\ CheckpointFollows(checkpoint, Claimed(r))
           /\ Claimed(r).status = "PROCESSING" /\ Claimed(r).owner = ProcessOf[r]
           /\ Claimed(r).token = checkpoint.token + 1
<1>. DEFINE new == Claimed(r)
<1>1. now + CheckpointMs \in Nat /\ ProcessOf[r] \in Processes
  BY DEF WorkerInv, TypeOK, StageAssumption, WorkerAssumption
<1>3. checkpoint \in Checkpoints /\ checkpoint.token \in Nat
  BY StageBefore DEF Checkpoints
<1>2. /\ new \in Checkpoints /\ new.status = "PROCESSING" /\ new.owner = ProcessOf[r]
      /\ new.token = checkpoint.token + 1
  <2>1. checkpoint.token + 1 \in Nat
    BY <1>3
  <2>. QED BY <1>1, <1>3, <2>1 DEF Claimed, Checkpoints
<1>4. ~ recovering => checkpoint.token = 0
  BY StageBefore DEF Claimable, CheckpointOK
<1>. HIDE DEF new
<1>5. CheckpointOK(new) /\ CheckpointFollows(checkpoint, new)
  BY <1>2, <1>3, <1>4 DEF CheckpointOK, CheckpointFollows
<1>. QED BY <1>2, <1>5 DEF new

LEMMA ClaimOK ==
    ASSUME StageAssumption, WorkerAssumption, WorkerInv, StageInv, NEW r \in Runs, Claim(r)
    PROVE  StageInv'
<1>1. /\ UNCHANGED <<workerVars, copy, listening, recovering>> /\ losses' = losses
      /\ stage[r].pc = "claim" /\ losses' \in 0..MaxLosses
  BY StageBefore DEF Claim, At, Statement
<1>2. CASE Claimable /\ checkpoint' = Claimed(r)
           /\ stage' = [stage EXCEPT ![r].pc = "claimed", ![r].token = checkpoint.token + 1]
  <2>. DEFINE next == [stage[r] EXCEPT !.pc = "claimed", !.token = checkpoint.token + 1]
  <2>1. stage' = [stage EXCEPT ![r] = next]
    BY <1>2, StageBefore
  <2>2. /\ next \in StageStates /\ next.pc = "claimed" /\ next.token = checkpoint.token + 1
        /\ next.held = stage[r].held /\ next.copy = stage[r].copy /\ next.token > 0
    <3>1. checkpoint.token \in Nat /\ stage[r] \in StageStates
      BY StageBefore DEF Checkpoints
    <3>2. checkpoint.token + 1 \in Nat /\ checkpoint.token + 1 > 0
      BY <3>1
    <3>. QED BY <3>1, <3>2 DEF StageStates, StagePCs
  <2>. HIDE DEF next
  <2>3. /\ CheckpointOK(checkpoint') /\ CheckpointFollows(checkpoint, checkpoint')
        /\ checkpoint'.status = "PROCESSING" /\ checkpoint'.owner = ProcessOf[r]
        /\ checkpoint'.token = next.token
    BY <1>2, <2>2, ClaimedCheckpoint
  <2>4. run[r].pc = "idle"
    BY <1>1, StageBefore DEF DeliveryOK
  <2>5. DeliveryOK(next, run[r], checkpoint')
    BY <2>2, <2>3, <2>4, StageBefore DEF DeliveryOK, StageHolding, StageStates, Ended
  <2>6. OwnerIsThere'
    <3>1. stage'[r] = next
      BY <2>1, StageBefore
    <3>2. OwnsCheckpoint(r)'
      BY <2>2, <2>3, <3>1 DEF OwnsCheckpoint, OwnedCheckpoint, StageHolding
    <3>. QED BY <3>2 DEF OwnerIsThere
  <2>7. CopiesOK'
    BY <1>1, <2>2, <2>3, StageBefore DEF CopiesOK
  <2>. QED BY <1>1, <2>1, <2>2, <2>3, <2>5, <2>6, <2>7, StageFrame
<1>3. CASE ~ Claimable /\ To(r, "ack") /\ checkpoint' = checkpoint
  <2>. DEFINE next == [stage[r] EXCEPT !.pc = "ack"]
  <2>1. stage' = [stage EXCEPT ![r] = next]
    BY <1>3 DEF To
  <2>2. /\ next \in StageStates /\ next.pc = "ack" /\ next.token = stage[r].token
        /\ next.held = stage[r].held /\ next.copy = stage[r].copy
    BY StageBefore DEF StageStates, StagePCs
  <2>. HIDE DEF next
  <2>3. checkpoint.token > 0
    <3>1. checkpoint.status \notin {"ABSENT", "PENDING"}
      BY <1>1, <1>3, StageBefore DEF Claimable, DeliveryOK
    <3>. QED BY <3>1, StageBefore DEF CheckpointOK, Checkpoints
  <2>4. DeliveryOK(next, run[r], checkpoint')
    BY <1>1, <1>3, <2>2, <2>3, StageBefore DEF DeliveryOK, StageHolding
  <2>5. CheckpointOK(checkpoint') /\ CheckpointFollows(checkpoint, checkpoint')
    BY <1>3, StageBefore
  <2>6. OwnerIsThere'
    BY <1>1, <1>3, <2>1, OwnerStays DEF OwnsCheckpoint, StageHolding, workerVars
  <2>7. CopiesOK'
    BY <1>1, <1>3, StageBefore DEF CopiesOK
  <2>. QED BY <1>1, <2>1, <2>2, <2>4, <2>5, <2>6, <2>7, StageFrame
<1>. QED BY <1>2, <1>3 DEF Claim

(* A checkpoint that its owner, or the recovery, gives up.                 *)
LEMMA FreedCheckpoint ==
    ASSUME checkpoint \in Checkpoints, checkpoint.status = "PROCESSING",
           NEW status \in {"COMPLETED", "FAILED", "ABANDONED"}, NEW retryable \in BOOLEAN,
           NEW safety \in {"UNKNOWN", "SAFE", "REQUIRES_RECONCILIATION"}
    PROVE  LET new == [Freed EXCEPT !.status = status, !.safety = safety, !.retryable = retryable]
           IN  /\ new \in Checkpoints /\ new.status = status /\ new.token = checkpoint.token
               /\ CheckpointFollows(checkpoint, new)
<1>. DEFINE new == [Freed EXCEPT !.status = status, !.safety = safety, !.retryable = retryable]
<1>1. new \in Checkpoints /\ new.status = status /\ new.token = checkpoint.token
  BY DEF Freed, Checkpoints, NoLease
<1>2. checkpoint.token \in Nat
  BY DEF Checkpoints
<1>. QED BY <1>1, <1>2 DEF CheckpointFollows

(* Without the recovery, a run that has returned has recorded the work.    *)
LEMMA ReturnedHasWorked ==
    ASSUME WorkerInv, StageInv, ~ recovering, NEW r \in Runs, RunReturned(r)
    PROVE  record.status = "COMPLETED"
<1>1. run[r].outcome \in {"none", "EXECUTED", "THREW"} /\ run[r].outcome # "none"
  BY StageParts, StageBefore DEF RecordIsEntered, DeliveryOK, RunReturned
<1>. QED BY <1>1 DEF RunReturned, WorkerInv, ReturnedIsRecorded

(* The completion, where the claim is still the delivery's.                *)
LEMMA CompletionSettles ==
    ASSUME WorkerInv, StageInv, NEW r \in Runs, RunReturned(r), OwnedCheckpoint(r)
    PROVE  /\ CheckpointOK(CompletedCheckpoint)
           /\ CheckpointFollows(checkpoint, CompletedCheckpoint)
           /\ CompletedCheckpoint.status = "COMPLETED"
           /\ CompletedCheckpoint.token = checkpoint.token
<1>1. /\ CompletedCheckpoint \in Checkpoints /\ CompletedCheckpoint.status = "COMPLETED"
      /\ CompletedCheckpoint.token = checkpoint.token
      /\ CheckpointFollows(checkpoint, CompletedCheckpoint)
  BY StageBefore, FreedCheckpoint DEF OwnedCheckpoint, CompletedCheckpoint
<1>2. CheckpointOK(CompletedCheckpoint)
  BY <1>1, StageBefore, ReturnedHasWorked DEF CheckpointOK, OwnedCheckpoint
<1>. QED BY <1>1, <1>2

LEMMA FailureSettles ==
    ASSUME StageAssumption, StageInv, NEW r \in Runs, OwnedCheckpoint(r), NEW error
    PROVE  /\ CheckpointOK(FailedCheckpoint(error))
           /\ CheckpointFollows(checkpoint, FailedCheckpoint(error))
           /\ FailedCheckpoint(error).status = "FAILED"
           /\ FailedCheckpoint(error).token = checkpoint.token
<1>. DEFINE new == FailedCheckpoint(error)
<1>1. checkpoint \in Checkpoints /\ checkpoint.token \in Nat /\ checkpoint.status = "PROCESSING"
  BY StageBefore DEF OwnedCheckpoint, Checkpoints
<1>2. (error = "transient") \in BOOLEAN
  OBVIOUS
<1>3. /\ new \in Checkpoints /\ new.status = "FAILED" /\ new.token = checkpoint.token
  BY <1>1, <1>2 DEF FailedCheckpoint, Freed, Checkpoints, NoLease
<1>. HIDE DEF new
<1>4. CheckpointOK(new) /\ CheckpointFollows(checkpoint, new)
  BY <1>1, <1>3, StageBefore DEF CheckpointOK, CheckpointFollows
<1>. QED BY <1>3, <1>4 DEF new

(* A delivery that moves on after its claim, keeping its claim's number.   *)
LEMMA AfterClaim ==
    ASSUME StageInv, NEW r \in Runs, RunReturned(r) \/ RunThrew(r) \/ At(r, "failing"),
           NEW pc \in {"ack", "failing", "requeue", "reject"},
           stage' = [stage EXCEPT ![r].pc = pc],
           UNCHANGED <<workerVars, copy, listening, recovering>>,
           CheckpointOK(checkpoint'), checkpoint'.token = checkpoint.token,
           CheckpointFollows(checkpoint, checkpoint'),
           losses' \in 0..MaxLosses, OwnerIsThere'
    PROVE  StageInv'
<1>. DEFINE next == [stage[r] EXCEPT !.pc = pc]
<1>1. /\ next \in StageStates /\ next.pc = pc /\ next.token = stage[r].token
      /\ next.held = stage[r].held /\ next.copy = stage[r].copy
  BY StageBefore DEF StageStates, StagePCs
<1>2. stage' = [stage EXCEPT ![r] = next]
  OBVIOUS
<1>. HIDE DEF next
<1>3. /\ stage[r].pc \in StageHolding /\ stage[r].pc # "claimed"
      /\ run[r].pc \in {"idle"} \cup Ended
  BY StageBefore DEF RunReturned, RunThrew, At, StageHolding, DeliveryOK, Ended
<1>4. checkpoint.token > 0
  BY <1>3, StageBefore DEF DeliveryOK, StageStates, Checkpoints
<1>5. DeliveryOK(next, run[r], checkpoint')
  BY <1>1, <1>3, <1>4, StageBefore DEF DeliveryOK
<1>6. CopiesOK'
  BY StageBefore DEF CopiesOK
<1>. QED BY <1>1, <1>2, <1>5, <1>6, StageFrame

LEMMA CompleteCheckpointOK ==
    ASSUME StageAssumption, WorkerInv, StageInv, NEW r \in Runs, CompleteCheckpoint(r)
    PROVE  StageInv'
<1>1. /\ UNCHANGED <<workerVars, copy, listening, recovering>> /\ losses' = losses
      /\ RunReturned(r) /\ losses' \in 0..MaxLosses
  BY StageBefore DEF CompleteCheckpoint, Statement
<1>2. CASE OwnedCheckpoint(r) /\ checkpoint' = CompletedCheckpoint /\ To(r, "ack")
  <2>1. OwnerIsThere'
    BY <1>1, <1>2, CompletionSettles DEF OwnerIsThere
  <2>. QED BY <1>1, <1>2, <2>1, CompletionSettles, AfterClaim DEF To
<1>3. CASE ~ OwnedCheckpoint(r) /\ To(r, "failing") /\ checkpoint' = checkpoint
  <2>1. OwnerIsThere'
    BY <1>1, <1>3, OwnerStays DEF To, OwnsCheckpoint, workerVars
  <2>. QED BY <1>1, <1>3, <2>1, StageBefore, AfterClaim DEF To
<1>. QED BY <1>2, <1>3 DEF CompleteCheckpoint

LEMMA FailCheckpointOK ==
    ASSUME StageAssumption, StageInv, NEW r \in Runs, FailCheckpoint(r)
    PROVE  StageInv'
<1>1. PICK error \in Thrown(r) :
         /\ checkpoint' = IF OwnedCheckpoint(r) THEN FailedCheckpoint(error) ELSE checkpoint
         /\ To(r, Rethrown(error))
  BY DEF FailCheckpoint
<1>2. /\ UNCHANGED <<workerVars, copy, listening, recovering>> /\ losses' = losses
      /\ RunThrew(r) \/ At(r, "failing")
      /\ losses' \in 0..MaxLosses /\ Rethrown(error) \in {"requeue", "reject"}
  BY StageBefore DEF FailCheckpoint, Statement, Rethrown
<1>3. CASE OwnedCheckpoint(r)
  <2>1. OwnerIsThere'
    BY <1>1, <1>3, FailureSettles DEF OwnerIsThere
  <2>. QED BY <1>1, <1>2, <1>3, <2>1, FailureSettles, AfterClaim DEF To
<1>4. CASE ~ OwnedCheckpoint(r)
  <2>1. OwnerIsThere'
    BY <1>1, <1>2, <1>4, OwnerStays DEF To, OwnsCheckpoint, workerVars
  <2>. QED BY <1>1, <1>2, <1>4, <2>1, StageBefore, AfterClaim DEF To
<1>. QED BY <1>3, <1>4

(* A statement that fails counts a loss, so no owner need be there.        *)
LEMMA CheckpointFailsOK ==
    ASSUME StageAssumption, WorkerAssumption, WorkerInv, StageInv, NEW r \in Runs,
           CheckpointFails(r)
    PROVE  StageInv'
<1>1. /\ UNCHANGED <<workerVars, copy, listening, recovering>> /\ losses' = losses + 1
      /\ losses < MaxLosses
  BY DEF CheckpointFails, Statement
<1>2. losses' \in 0..MaxLosses /\ OwnerIsThere'
  BY <1>1, StageBefore DEF OwnerIsThere, StageAssumption
<1>3. CASE At(r, "ensure") \/ At(r, "claim")
  <2>. DEFINE next == [stage[r] EXCEPT !.pc = "requeue"]
  <2>1. /\ stage' = [stage EXCEPT ![r] = next]
        /\ \/ checkpoint' = checkpoint
           \/ checkpoint' = Ensured
           \/ Claimable /\ checkpoint' = Claimed(r)
    BY <1>3 DEF CheckpointFails, At, To, RunReturned, RunThrew
  <2>2. /\ next \in StageStates /\ next.pc = "requeue" /\ next.token = stage[r].token
        /\ next.held = stage[r].held /\ next.copy = stage[r].copy
    BY StageBefore DEF StageStates, StagePCs
  <2>. HIDE DEF next
  <2>3. /\ CheckpointOK(checkpoint') /\ CheckpointFollows(checkpoint, checkpoint')
        /\ checkpoint'.token >= checkpoint.token
    <3>1. checkpoint \in Checkpoints /\ checkpoint.token \in Nat
      BY StageBefore DEF Checkpoints
    <3>2. /\ Ensured \in Checkpoints /\ Ensured.token = checkpoint.token /\ Ensured.status # "ABSENT"
          /\ Ensured = checkpoint \/ (checkpoint.status = "ABSENT" /\ Ensured.status = "PENDING")
      BY <3>1 DEF Ensured, Checkpoints
    <3>3. CheckpointOK(Ensured) /\ CheckpointFollows(checkpoint, Ensured)
      BY <3>1, <3>2, StageBefore DEF CheckpointOK, CheckpointFollows
    <3>4. CASE checkpoint' = checkpoint
      BY <3>1, <3>4, StageBefore
    <3>5. CASE checkpoint' = Ensured
      BY <3>1, <3>2, <3>3, <3>5
    <3>6. CASE Claimable /\ checkpoint' = Claimed(r)
      BY <3>1, <3>6, ClaimedCheckpoint
    <3>. QED BY <2>1, <3>4, <3>5, <3>6
  <2>4. DeliveryOK(next, run[r], checkpoint')
    <3>1. /\ stage[r].token = 0 /\ run[r].pc = "idle"
          /\ checkpoint'.token \in Nat /\ checkpoint.token \in Nat
      BY <1>3, <2>3, StageBefore DEF At, DeliveryOK, CheckpointOK, Checkpoints
    <3>. QED BY <2>2, <3>1, StageBefore DEF DeliveryOK, StageHolding
  <2>5. CopiesOK'
    <3>1. checkpoint'.token \in Nat /\ checkpoint.token \in Nat
      BY <2>3, StageBefore DEF CheckpointOK, Checkpoints
    <3>2. checkpoint.token > 0 => checkpoint'.token > 0
      BY <2>3, <3>1
    <3>. QED BY <1>1, <3>2, StageBefore DEF CopiesOK
  <2>. QED BY <1>1, <1>2, <2>1, <2>2, <2>3, <2>4, <2>5, StageFrame
<1>4. CASE /\ RunReturned(r) /\ To(r, "failing")
           /\ checkpoint' = checkpoint \/ (OwnedCheckpoint(r) /\ checkpoint' = CompletedCheckpoint)
  <2>1. /\ CheckpointOK(checkpoint') /\ CheckpointFollows(checkpoint, checkpoint')
        /\ checkpoint'.token = checkpoint.token
    BY <1>4, CompletionSettles, StageBefore
  <2>. QED BY <1>1, <1>2, <1>4, <2>1, AfterClaim DEF To
<1>5. CASE /\ RunThrew(r) \/ At(r, "failing")
           /\ checkpoint' = checkpoint
           /\ \E error \in Thrown(r) : To(r, Rethrown(error))
  <2>1. PICK error \in Thrown(r) : To(r, Rethrown(error))
    BY <1>5
  <2>2. Rethrown(error) \in {"requeue", "reject"}
    BY DEF Rethrown
  <2>3. /\ CheckpointOK(checkpoint') /\ CheckpointFollows(checkpoint, checkpoint')
        /\ checkpoint'.token = checkpoint.token
    BY <1>5, StageBefore
  <2>. QED BY <1>1, <1>2, <1>5, <2>1, <2>2, <2>3, AfterClaim DEF To
<1>. QED BY <1>3, <1>4, <1>5 DEF CheckpointFails

-----------------------------------------------------------------------------
(* The steps that are not a delivery's own.                                *)

(* StageInv from its parts, after a step.                                  *)
LEMMA StagePartsAfter ==
    ASSUME stage' \in [Runs -> StageStates],
           \A r \in Runs : DeliveryOK(stage'[r], run'[r], checkpoint'),
           CheckpointOK(checkpoint)', TokensDiffer', OwnerIsThere', CopiesOK',
           listening' \in SUBSET Processes, recovering' \in BOOLEAN, losses' \in 0..MaxLosses,
           RecordIsEntered', HandlerOnce'
    PROVE  StageInv'
BY DEF StageInv, StageTypeOK, ClaimsAreSound, RunsAreEntered, CheckpointIsSound, CompletedAgrees,
       StageStates, DeliveryOK, CheckpointOK, TokensDiffer, OwnerIsThere, CopiesOK, Active

LEMMA EnterWorkerOK ==
    ASSUME StageAssumption, WorkerInv, StageInv, NEW r \in Runs, EnterWorker(r)
    PROVE  StageInv'
<1>. DEFINE next == [stage[r] EXCEPT !.pc = "protected"]
<1>1. PICK print \in Prints : Start(r, print)
  BY DEF EnterWorker
<1>2. /\ stage' = [stage EXCEPT ![r] = next] /\ stage[r].pc = "claimed"
      /\ UNCHANGED <<copy, listening, checkpoint, recovering, losses>>
  BY DEF EnterWorker, To, At
<1>3. /\ run[r].pc = "idle" /\ run'[r].pc = "insert" /\ run'[r].outcome = "none"
      /\ \A s \in Runs \ {r} : run'[s] = run[s]
      /\ record' = record /\ faults' = faults
  <2>1. run \in [Runs -> RunStates]
    BY DEF WorkerInv, TypeOK
  <2>. QED BY <1>1, <2>1 DEF Start, Go, Idle
<1>4. /\ next \in StageStates /\ next.pc = "protected" /\ next.token = stage[r].token
      /\ next.held = stage[r].held /\ next.copy = stage[r].copy
  BY StageBefore DEF StageStates, StagePCs
<1>. HIDE DEF next
<1>5. /\ stage \in [Runs -> StageStates] /\ stage' \in [Runs -> StageStates]
      /\ stage'[r] = next /\ \A s \in Runs \ {r} : stage'[s] = stage[s]
  BY <1>2, <1>4, StageBefore
<1>6. \A s \in Runs : DeliveryOK(stage'[s], run'[s], checkpoint')
  <2>1. DeliveryOK(next, run'[r], checkpoint')
    BY <1>2, <1>3, <1>4, StageBefore DEF DeliveryOK, StageHolding
  <2>. QED BY <1>2, <1>3, <1>5, <2>1, StageBefore
<1>7. CheckpointOK(checkpoint)' /\ CopiesOK'
  BY <1>2, <1>3, StageBefore DEF CheckpointOK, CopiesOK
<1>8. \A s \in Runs : stage'[s].token = stage[s].token
  BY <1>4, <1>5
<1>9. TokensDiffer'
  BY <1>8, StageBefore DEF TokensDiffer
<1>10. OwnerIsThere'
  BY <1>2, <1>3, <1>4, OwnerStays DEF OwnsCheckpoint, StageHolding
<1>11. RecordIsEntered' /\ HandlerOnce'
  <2>1. RecordIsEntered /\ HandlerOnce
    BY StageParts
  <2>2. \A s \in Runs : Past(s) => Past(s)'
    BY <1>3 DEF Past
  <2>3. ~ recovering => \A s \in Runs : /\ run'[s].pc \notin {"find", "reclaim", "retry"}
                                        /\ run'[s].outcome \in {"none", "EXECUTED", "THREW"}
    BY <1>3, <2>1 DEF RecordIsEntered
  <2>. QED BY <1>2, <1>3, <2>1, <2>2, <2>3 DEF RecordIsEntered, HandlerOnce
<1>12. listening' \in SUBSET Processes /\ recovering' \in BOOLEAN /\ losses' \in 0..MaxLosses
  BY <1>2, StageParts
<1>. QED BY <1>5, <1>6, <1>7, <1>9, <1>10, <1>11, <1>12, StagePartsAfter

LEMMA WorkerStepOK ==
    ASSUME StageAssumption, WorkerAssumption, WorkerInv, WorkerInv', StageInv, NEW r \in Runs,
           WorkerStep(r)
    PROVE  StageInv'
<1>1. UNCHANGED <<copy, listening, checkpoint, stage, recovering, losses>>
  BY DEF WorkerStep, ownVars
<1>2. Moves(r)
  BY WorkerMoves
<1>3. ~ recovering => (run[r].pc \in Claiming => record.token = 0 /\ record.status = "ABSENT")
  BY FirstToClaim
<1>4. \A s \in Runs : DeliveryOK(stage'[s], run'[s], checkpoint')
  <2>1. DeliveryOK(stage[r], run[r], checkpoint)
    BY StageBefore
  <2>2. DeliveryOK(stage[r], run'[r], checkpoint)
    BY <1>2, <2>1 DEF DeliveryOK, Moves, RunMoves
  <2>3. ASSUME NEW s \in Runs \ {r} PROVE DeliveryOK(stage[s], run'[s], checkpoint)
    BY <1>2, StageBefore DEF Moves
  <2>. QED BY <1>1, <2>2, <2>3
<1>5. record.token \in Nat /\ record'.token \in Nat /\ faults \in Nat /\ faults' \in Nat
  BY DEF WorkerInv, TypeOK, Records, WorkerAssumption
<1>6. CheckpointOK(checkpoint)'
  BY <1>1, <1>2, StageBefore DEF CheckpointOK, Moves, RecordMoves
<1>7. TokensDiffer' /\ CopiesOK'
  BY <1>1, StageBefore DEF TokensDiffer, CopiesOK
<1>8. OwnerIsThere'
  <2>1. faults' = 0 => faults = 0
    BY <1>2, <1>5 DEF Moves
  <2>. QED BY <1>1, <2>1, StageBefore DEF OwnerIsThere, OwnsCheckpoint, OwnedCheckpoint
<1>9. RecordIsEntered /\ HandlerOnce
  BY StageParts
<1>10. record'.token > 0 => \E s \in Runs : Past(s)'
  <2>1. CASE record'.token = record.token
    <3>1. \A s \in Runs : Past(s) => Past(s)'
      BY <1>2 DEF Past, Moves, RunMoves
    <3>. QED BY <1>9, <2>1, <3>1 DEF RecordIsEntered
  <2>2. CASE run[r].pc \in Claiming /\ run'[r].pc \notin Claiming
    <3>1. run'[r].pc # "idle"
      BY <1>2, <2>2 DEF Moves, RunMoves, Claiming
    <3>. QED BY <2>2, <3>1 DEF Past
  <2>. QED BY <1>2, <2>1, <2>2 DEF Moves, RecordMoves
<1>11. ~ recovering => \A s \in Runs : /\ run'[s].pc \notin {"find", "reclaim", "retry"}
                                       /\ run'[s].outcome \in {"none", "EXECUTED", "THREW"}
  <2>. SUFFICES ASSUME ~ recovering, NEW s \in Runs
                PROVE  /\ run'[s].pc \notin {"find", "reclaim", "retry"}
                       /\ run'[s].outcome \in {"none", "EXECUTED", "THREW"}
    OBVIOUS
  <2>1. CASE s = r
    BY <1>2, <1>3, <1>9, <2>1 DEF Moves, FirstMoves, RecordIsEntered, Claiming
  <2>2. CASE s # r
    BY <1>2, <1>9, <2>2 DEF Moves, RecordIsEntered
  <2>. QED BY <2>1, <2>2
<1>12. RecordIsEntered'
  BY <1>1, <1>10, <1>11 DEF RecordIsEntered
<1>13. HandlerOnce'
  BY <1>1, <1>2, <1>3, <1>5, <1>9 DEF HandlerOnce, Moves, RecordMoves
<1>14. stage' \in [Runs -> StageStates]
  BY <1>1, StageBefore
<1>15. listening' \in SUBSET Processes /\ recovering' \in BOOLEAN /\ losses' \in 0..MaxLosses
  BY <1>1, StageParts
<1>. QED BY <1>4, <1>6, <1>7, <1>8, <1>12, <1>13, <1>14, <1>15, StagePartsAfter

(* What StageInv says apart from deliveries, of which there may be none.   *)
LEMMA StageGlobal ==
    ASSUME StageInv
    PROVE  /\ CheckpointOK(checkpoint) /\ checkpoint \in Checkpoints /\ checkpoint.token \in Nat
           /\ OwnerIsThere /\ CopiesOK /\ TokensDiffer /\ losses \in 0..MaxLosses
BY StageParts DEF CheckpointOK, Checkpoints

LEMMA MarkAbandonedOK ==
    ASSUME StageAssumption, StageInv, MarkAbandoned
    PROVE  StageInv'
<1>1. /\ UNCHANGED <<workerVars, copy, listening, stage, recovering, losses>>
      /\ recovering /\ checkpoint.status = "PROCESSING"
  BY DEF MarkAbandoned, Statement, Stale
<1>2. /\ checkpoint' \in Checkpoints /\ checkpoint'.status = "ABANDONED"
      /\ checkpoint'.token = checkpoint.token
  <2>1. /\ checkpoint \in Checkpoints
        /\ checkpoint' = [Freed EXCEPT !.status = "ABANDONED",
                             !.safety = IF IsExecution THEN "REQUIRES_RECONCILIATION" ELSE @]
    BY StageGlobal DEF MarkAbandoned
  <2>. QED BY <2>1 DEF Freed, Checkpoints, NoLease
<1>3. CheckpointFollows(checkpoint, checkpoint') /\ CheckpointOK(checkpoint)'
  BY <1>1, <1>2, StageGlobal DEF CheckpointFollows, CheckpointOK, Checkpoints
<1>4. \A r \in Runs : DeliveryOK(stage'[r], run'[r], checkpoint')
  <2>1. run' = run /\ stage' = stage
    BY <1>1 DEF workerVars
  <2>. QED BY <1>2, <1>3, <2>1, StageBefore, OtherDeliveries
<1>5. TokensDiffer' /\ CopiesOK' /\ OwnerIsThere'
  BY <1>1, <1>2, StageGlobal DEF TokensDiffer, CopiesOK, OwnerIsThere
<1>6. RecordIsEntered' /\ HandlerOnce'
  BY <1>1, StageParts DEF workerVars, RecordIsEntered, HandlerOnce, Past
<1>7. /\ stage' \in [Runs -> StageStates] /\ listening' \in SUBSET Processes
      /\ recovering' \in BOOLEAN /\ losses' \in 0..MaxLosses
  BY <1>1, StageParts
<1>. QED BY <1>3, <1>4, <1>5, <1>6, <1>7, StagePartsAfter

(* The copies that go back to the broker.                                  *)
LEMMA ReleasedCopies ==
    ASSUME StageInv, NEW p \in Processes, copy' = Released(p), checkpoint' = checkpoint
    PROVE  CopiesOK'
BY StageGlobal, StageParts DEF CopiesOK, Released

(* A crash ends deliveries and runs alike; both kinds count as a fault.    *)
LEMMA StageCrashOK ==
    ASSUME StageAssumption, WorkerAssumption, WorkerInv, StageInv, NEW p \in Processes,
           StageCrash(p)
    PROVE  StageInv'
<1>. DEFINE dying(r) == ProcessOf[r] = p /\ Working(r)
            next(r) == [stage[r] EXCEPT !.pc = "crashed", !.held = FALSE]
<1>1. /\ UNCHANGED <<checkpoint, recovering>> /\ copy' = Released(p)
      /\ listening' = listening \cup {p}
      /\ stage' = [r \in Runs |-> IF dying(r) THEN next(r) ELSE stage[r]]
      /\ record' = record
  BY DEF StageCrash, Crash, workerVars
<1>2. \/ faults' = faults + 1 /\ losses' = losses
      \/ faults' = faults /\ losses' = losses + 1 /\ losses < MaxLosses
  BY DEF StageCrash, Crash, workerVars
<1>3. \A r \in Runs :
         \/ run'[r] = run[r] /\ ~ (ProcessOf[r] = p /\ Active(r))
         \/ ProcessOf[r] = p /\ Active(r) /\ run'[r].pc = "crashed" /\ run'[r].outcome = "none"
  <2>1. CASE Crash(p)
    BY <2>1 DEF Crash, Idle
  <2>2. CASE UNCHANGED workerVars /\ ~ \E r \in Runs : ProcessOf[r] = p /\ Active(r)
    BY <2>2 DEF workerVars
  <2>. QED BY <2>1, <2>2 DEF StageCrash
<1>4. \A r \in Runs : /\ stage'[r] = IF dying(r) THEN next(r) ELSE stage[r]
                      /\ stage[r] \in StageStates
  BY <1>1, StageBefore
<1>5. \A r \in Runs : /\ next(r) \in StageStates /\ next(r).pc = "crashed" /\ ~ next(r).held
                      /\ next(r).token = stage[r].token
  BY StageBefore DEF StageStates, StagePCs, StageEnded
<1>. HIDE DEF next
<1>6. stage' \in [Runs -> StageStates] /\ \A r \in Runs : stage'[r].token = stage[r].token
  BY <1>1, <1>4, <1>5
<1>7. ASSUME NEW r \in Runs PROVE DeliveryOK(stage'[r], run'[r], checkpoint')
  <2>1. DeliveryOK(stage[r], run[r], checkpoint)
    BY StageBefore
  <2>2. ProcessOf[r] = p /\ Active(r) => dying(r)
    BY <2>1 DEF DeliveryOK, Active, Working, StageEnded
  <2>3. CASE dying(r)
    BY <1>1, <1>3, <1>4, <1>5, <2>1, <2>3 DEF DeliveryOK, StageHolding, Active, Ended
  <2>4. CASE ~ dying(r)
    BY <1>1, <1>3, <1>4, <2>1, <2>2, <2>4
  <2>. QED BY <2>3, <2>4
<1>8. CheckpointOK(checkpoint)' /\ TokensDiffer' /\ CopiesOK'
  BY <1>1, <1>6, StageGlobal, ReleasedCopies DEF CheckpointOK, TokensDiffer
<1>9. OwnerIsThere' /\ losses' \in 0..MaxLosses
  <2>1. losses \in 0..MaxLosses /\ faults \in Nat /\ MaxLosses \in Nat
    BY StageGlobal DEF WorkerInv, TypeOK, WorkerAssumption, StageAssumption
  <2>. QED BY <1>2, <2>1 DEF OwnerIsThere
<1>10. RecordIsEntered' /\ HandlerOnce'
  <2>1. RecordIsEntered /\ HandlerOnce
    BY StageParts
  <2>2. \A r \in Runs : Past(r) => Past(r)'
    BY <1>3 DEF Past, Claiming
  <2>3. ~ recovering => \A r \in Runs : /\ run'[r].pc \notin {"find", "reclaim", "retry"}
                                        /\ run'[r].outcome \in {"none", "EXECUTED", "THREW"}
    BY <1>3, <2>1 DEF RecordIsEntered
  <2>. QED BY <1>1, <2>1, <2>2, <2>3 DEF RecordIsEntered, HandlerOnce
<1>11. listening' \in SUBSET Processes /\ recovering' \in BOOLEAN
  BY <1>1, StageParts
<1>. QED BY <1>6, <1>7, <1>8, <1>9, <1>10, <1>11, StagePartsAfter

LEMMA ChannelLostOK ==
    ASSUME StageAssumption, StageInv, NEW p \in Processes, ChannelLost(p)
    PROVE  StageInv'
<1>. DEFINE next(r) == [stage[r] EXCEPT !.held = FALSE]
<1>1. /\ UNCHANGED <<workerVars, checkpoint, recovering>> /\ copy' = Released(p)
      /\ listening' = listening \ {p} /\ losses < MaxLosses /\ losses' = losses + 1
      /\ stage' = [r \in Runs |-> IF ProcessOf[r] = p THEN next(r) ELSE stage[r]]
  BY DEF ChannelLost
<1>2. \A r \in Runs : /\ next(r) \in StageStates /\ next(r).pc = stage[r].pc /\ ~ next(r).held
                      /\ next(r).token = stage[r].token
  BY StageBefore DEF StageStates
<1>3. \A r \in Runs : stage'[r] = next(r) \/ stage'[r] = stage[r]
  BY <1>1
<1>. HIDE DEF next
<1>4. stage' \in [Runs -> StageStates] /\ \A r \in Runs : stage'[r].token = stage[r].token
  BY <1>1, <1>2, <1>3, StageBefore
<1>5. ASSUME NEW r \in Runs PROVE DeliveryOK(stage'[r], run'[r], checkpoint')
  <2>1. run'[r] = run[r] /\ checkpoint' = checkpoint /\ DeliveryOK(stage[r], run[r], checkpoint)
    BY <1>1, StageBefore DEF workerVars
  <2>. QED BY <1>2, <1>3, <2>1 DEF DeliveryOK
<1>6. CheckpointOK(checkpoint)' /\ TokensDiffer' /\ CopiesOK'
  BY <1>1, <1>4, StageGlobal, ReleasedCopies DEF CheckpointOK, TokensDiffer, workerVars
<1>7. OwnerIsThere' /\ losses' \in 0..MaxLosses
  BY <1>1, StageGlobal DEF OwnerIsThere, StageAssumption
<1>8. RecordIsEntered' /\ HandlerOnce'
  BY <1>1, StageParts DEF workerVars, RecordIsEntered, HandlerOnce, Past
<1>9. listening' \in SUBSET Processes /\ recovering' \in BOOLEAN
  BY <1>1, StageParts
<1>. QED BY <1>4, <1>5, <1>6, <1>7, <1>8, <1>9, StagePartsAfter

(* A step that leaves all but the clock alone.                             *)
LEMMA StageIdles ==
    ASSUME StageInv, UNCHANGED <<record, run, faults, ownVars>>
    PROVE  StageInv'
BY DEF ownVars, StageInv, StageTypeOK, ClaimsAreSound, RunsAreEntered, CheckpointIsSound,
       CompletedAgrees, RecordIsEntered, HandlerOnce, Active, Past, OwnsCheckpoint, OwnedCheckpoint

-----------------------------------------------------------------------------
(* Theorems.                                                               *)

LEMMA StageInitOK == StageAssumption /\ StageInit => StageInv
<1>. SUFFICES ASSUME StageAssumption, StageInit PROVE StageInv
  OBVIOUS
<1>1. /\ Waiting \in StageStates /\ Waiting.pc = "waiting" /\ Waiting.token = 0 /\ ~ Waiting.held
      /\ NoCheckpoint \in Checkpoints /\ NoCheckpoint.token = 0 /\ NoCheckpoint.status = "ABSENT"
  BY DEF Waiting, StageStates, StagePCs, NoCheckpoint, Checkpoints, NoLease
<1>2. /\ checkpoint = NoCheckpoint /\ stage = [r \in Runs |-> Waiting]
      /\ copy = [m \in Copies |-> "ready"] /\ listening = Processes
      /\ recovering \in BOOLEAN /\ losses = 0
      /\ \A r \in Runs : run[r].pc = "idle" /\ run[r].outcome = "none"
      /\ record.token = 0
  BY DEF StageInit, Init, Idle, Absent
<1>. HIDE DEF Waiting, NoCheckpoint
<1>3. stage \in [Runs -> StageStates]
  BY <1>1, <1>2
<1>4. \A r \in Runs : DeliveryOK(stage[r], run[r], checkpoint)
  BY <1>1, <1>2 DEF DeliveryOK, StageHolding
<1>5. CheckpointOK(checkpoint) /\ TokensDiffer /\ OwnerIsThere /\ CopiesOK
  BY <1>1, <1>2 DEF CheckpointOK, TokensDiffer, OwnerIsThere, CopiesOK
<1>6. RecordIsEntered /\ HandlerOnce
  BY <1>2 DEF RecordIsEntered, HandlerOnce, Claiming
<1>7. losses \in 0..MaxLosses
  BY <1>2 DEF StageAssumption
<1>. QED BY <1>2, <1>3, <1>4, <1>5, <1>6, <1>7, StageParts

LEMMA StageNextOK ==
    ASSUME StageAssumption, WorkerAssumption, WorkerInv, WorkerInv', StageInv,
           [StageNext]_stageVars
    PROVE  StageInv'
<1>1. ASSUME NEW r \in Runs, NEW m \in Copies, Deliver(r, m) PROVE StageInv'
  BY <1>1, DeliverOK
<1>2. ASSUME NEW r \in Runs, Dispatch(r) PROVE StageInv'
  BY <1>2, DispatchOK
<1>3. ASSUME NEW r \in Runs, StageStep(r) PROVE StageInv'
  BY <1>3, EnsureOK, ClaimOK, EnterWorkerOK, CompleteCheckpointOK, FailCheckpointOK, SettleOK
     DEF StageStep
<1>4. ASSUME NEW r \in Runs, WorkerStep(r) PROVE StageInv'
  BY <1>4, WorkerStepOK
<1>5. ASSUME NEW r \in Runs, CheckpointFails(r) PROVE StageInv'
  BY <1>5, CheckpointFailsOK
<1>6. CASE MarkAbandoned
  BY <1>6, MarkAbandonedOK
<1>7. ASSUME NEW p \in Processes, StageCrash(p) PROVE StageInv'
  BY <1>7, StageCrashOK
<1>8. ASSUME NEW p \in Processes, ChannelLost(p) PROVE StageInv'
  BY <1>8, ChannelLostOK
<1>9. CASE StageTick
  BY <1>9, StageIdles DEF StageTick, Tick, ownVars
<1>10. CASE UNCHANGED stageVars
  BY <1>10, StageIdles DEF stageVars, workerVars, ownVars
<1>. QED
  BY <1>1, <1>2, <1>3, <1>4, <1>5, <1>6, <1>7, <1>8, <1>9, <1>10 DEF StageNext

(* StageInv holds in every reachable state: deliveries, checkpoint, runs   *)
(* and idempotency record agree whatever is delivered, lost or restarted.  *)
THEOREM StageInvariance == StageSpec => []StageInv
<1>1. StageInit => StageInv
  BY StageInitOK, StageAssumption
<1>2. WorkerInv /\ WorkerInv' /\ StageInv /\ [StageNext]_stageVars => StageInv'
  BY StageNextOK, StageAssumption, WorkerAssumption
<1>3. StageSpec => []WorkerInv
  BY StageImplementsWorker, Invariance
<1>. QED BY <1>1, <1>2, <1>3, PTL DEF StageSpec

(* The variables of deliveries and checkpoint keep their types.            *)
THEOREM StageTypeCorrect == StageSpec => []StageTypeOK
<1>1. StageInv => StageTypeOK
  BY DEF StageInv
<1>. QED BY <1>1, StageInvariance, PTL

(* Without the recovery the handler of a job is never entered twice.       *)
THEOREM HandlerEntersOnce == StageSpec => []HandlerOnce
<1>1. StageInv => HandlerOnce
  BY DEF StageInv
<1>. QED BY <1>1, StageInvariance, PTL

(* Without the recovery a completed checkpoint has a completed record.     *)
THEOREM CompletedIsRecorded == StageSpec => []CompletedAgrees
<1>1. StageInv => CompletedAgrees
  BY DEF StageInv
<1>. QED BY <1>1, StageInvariance, PTL

(* A copy is acknowledged only for a job that a delivery has claimed.      *)
THEOREM AcknowledgedIsClaimed == StageSpec => []AckedIsAnswered
<1>1. StageInv => AckedIsAnswered
  <2>. SUFFICES ASSUME StageInv, NEW m \in Copies, copy[m] = "acked"
                PROVE  /\ checkpoint.token > 0
                       /\ ~ recovering /\ faults = 0 /\ losses = 0 =>
                            SettledCheckpoint \/ \E r \in Runs : OwnsCheckpoint(r)
    BY DEF AckedIsAnswered
  <2>1. checkpoint.token > 0 /\ CheckpointOK(checkpoint) /\ OwnerIsThere
    BY StageParts DEF CopiesOK
  <2>2. ~ recovering => checkpoint.status \in {"PROCESSING", "COMPLETED", "FAILED"}
    BY <2>1 DEF CheckpointOK, Checkpoints
  <2>. QED BY <2>1, <2>2 DEF OwnerIsThere, SettledCheckpoint
<1>. QED BY <1>1, StageInvariance, PTL

(* Which steps change the checkpoint.                                      *)
LEMMA CheckpointChanges ==
    ASSUME [StageNext]_stageVars, checkpoint' # checkpoint
    PROVE  \/ checkpoint.status \in {"ABSENT", "PENDING", "ABANDONED"}
           \/ Stale
           \/ \E s \in Runs : /\ OwnedCheckpoint(s)
                              /\ RunReturned(s) \/ RunThrew(s) \/ At(s, "failing")
                              /\ \E pc \in {"ack", "failing", "requeue", "reject"} :
                                    To(s, pc) /\ (At(s, "failing") => pc # "failing")
<1>1. CASE MarkAbandoned
  BY <1>1 DEF MarkAbandoned
<1>2. ASSUME NEW s \in Runs, Ensure(s) \/ Claim(s)
      PROVE  checkpoint.status \in {"ABSENT", "PENDING", "ABANDONED"}
  BY <1>2 DEF Ensure, Ensured, Claim, Claimable
<1>3. ASSUME NEW s \in Runs, CompleteCheckpoint(s)
      PROVE  OwnedCheckpoint(s) /\ RunReturned(s) /\ To(s, "ack") /\ ~ At(s, "failing")
  BY <1>3 DEF CompleteCheckpoint, RunReturned, At
<1>4. ASSUME NEW s \in Runs, FailCheckpoint(s)
      PROVE  /\ OwnedCheckpoint(s)
             /\ RunThrew(s) \/ At(s, "failing")
             /\ \E pc \in {"requeue", "reject"} : To(s, pc)
  BY <1>4 DEF FailCheckpoint, Rethrown
<1>5. ASSUME NEW s \in Runs, CheckpointFails(s)
      PROVE  \/ checkpoint.status \in {"ABSENT", "PENDING", "ABANDONED"}
             \/ OwnedCheckpoint(s) /\ RunReturned(s) /\ To(s, "failing") /\ ~ At(s, "failing")
  BY <1>5 DEF CheckpointFails, Ensured, Claimable, RunReturned, At
<1>6. \/ MarkAbandoned
      \/ \E s \in Runs : Ensure(s) \/ Claim(s) \/ CompleteCheckpoint(s) \/ FailCheckpoint(s)
                           \/ CheckpointFails(s)
  BY DEF StageNext, StageStep, Deliver, Dispatch, EnterWorker, WorkerStep, Settle, StageCrash,
         ChannelLost, StageTick, stageVars, ownVars
<1>. QED BY <1>1, <1>2, <1>3, <1>4, <1>5, <1>6

(* A checkpoint that was completed or failed stays as it is.               *)
THEOREM SettledStays == StageSpec => SettledIsKept
<1>1. ASSUME [StageNext]_stageVars, SettledCheckpoint PROVE checkpoint' = checkpoint
  BY <1>1, CheckpointChanges DEF SettledCheckpoint, Stale, OwnedCheckpoint
<1>. QED BY <1>1, PTL DEF StageSpec, SettledIsKept

(* No delivery loses a claim it has not settled before its lease expires.  *)
THEOREM LiveClaimStays == StageSpec => LiveClaimIsKept
<1>1. ASSUME StageInv, [StageNext]_stageVars, NEW r \in Runs, OwnsCheckpoint(r),
             stage'[r] = stage[r], checkpoint' # checkpoint
      PROVE  checkpoint.lease <= now
  <2>1. checkpoint.status = "PROCESSING" /\ checkpoint.token = stage[r].token
    BY <1>1 DEF OwnsCheckpoint, OwnedCheckpoint
  <2>2. CASE Stale
    BY <2>2 DEF Stale
  <2>3. ASSUME NEW s \in Runs, OwnedCheckpoint(s),
               RunReturned(s) \/ RunThrew(s) \/ At(s, "failing"),
               NEW pc \in {"ack", "failing", "requeue", "reject"}, To(s, pc),
               At(s, "failing") => pc # "failing"
        PROVE  FALSE
    <3>1. /\ stage[r].token > 0 /\ stage[s].token = stage[r].token
          /\ stage \in [Runs -> StageStates] /\ TokensDiffer
      BY <1>1, <2>1, <2>3, StageBefore DEF OwnsCheckpoint, OwnedCheckpoint, DeliveryOK
    <3>2. s = r
      BY <3>1 DEF TokensDiffer
    <3>3. stage'[s].pc = pc /\ stage[s].pc # pc
      BY <2>3, <3>1 DEF To, At, RunReturned, RunThrew, StageStates
    <3>. QED BY <1>1, <3>2, <3>3
  <2>4. checkpoint.status \notin {"ABSENT", "PENDING", "ABANDONED"}
    BY <2>1
  <2>5. Stale
    BY <1>1, <2>3, <2>4, CheckpointChanges
  <2>. QED BY <2>2, <2>5
<1>2. StageInv /\ [StageNext]_stageVars =>
        [\A r \in Runs : OwnsCheckpoint(r) /\ stage'[r] = stage[r] /\ checkpoint' # checkpoint
                           => checkpoint.lease <= now]_stageVars
  BY <1>1
<1>. QED BY <1>2, StageInvariance, PTL DEF StageSpec, LiveClaimIsKept

-----------------------------------------------------------------------------
(* The checkpoint is claimed under the fence.                              *)

OneDelivery == {r \in Runs : OwnsCheckpoint(r)} \in {{}} \cup {{r} : r \in Runs}

(* No two deliveries own the checkpoint: their tokens would be the same.   *)
LEMMA DeliveriesAreOne ==
    ASSUME StageInv
    PROVE  OneDelivery
<1>1. ASSUME NEW r \in Runs, NEW s \in Runs, OwnsCheckpoint(r), OwnsCheckpoint(s) PROVE r = s
  BY <1>1 DEF OwnsCheckpoint, OwnedCheckpoint, StageInv, ClaimsAreSound
<1>2. CASE \E r \in Runs : OwnsCheckpoint(r)
  <2>1. PICK r \in Runs : OwnsCheckpoint(r)
    BY <1>2
  <2>2. {s \in Runs : OwnsCheckpoint(s)} = {r}
    BY <1>1, <2>1
  <2>. QED BY <2>2 DEF OneDelivery
<1>. QED BY <1>2 DEF OneDelivery

(* Who holds a claim after a step that claims nothing had it before.       *)
NoDeliveryJoins ==
    \A r \in Runs : stage'[r].pc \in StageHolding =>
                       stage[r].pc \in StageHolding /\ stage'[r].token = stage[r].token

ClaimsCheckpoint(r) == Claimable /\ checkpoint' = Claimed(r)
SettlesCheckpoint(r) == OwnsCheckpoint(r) /\ checkpoint'.status \in {"COMPLETED", "FAILED"}

LEMMA MoveJoins ==
    ASSUME StageInv, NEW r \in Runs, NEW pc, To(r, pc),
           pc \in StageHolding => stage[r].pc \in StageHolding
    PROVE  NoDeliveryJoins
BY StageBefore DEF To, NoDeliveryJoins, StageStates

(* What the statements of a delivery do to the claim.                      *)
LEMMA DeliveryEffects ==
    ASSUME StageInv, NEW r \in Runs, StageStep(r) \/ CheckpointFails(r)
    PROVE  \/ checkpoint' = checkpoint /\ NoDeliveryJoins /\ now' = now
           \/ checkpoint.status = "ABSENT" /\ checkpoint' = Ensured
           \/ ClaimsCheckpoint(r)
           \/ SettlesCheckpoint(r)
<1>1. checkpoint \in Checkpoints /\ stage \in [Runs -> StageStates]
  BY StageBefore
<1>2. CASE Ensure(r)
  BY <1>2, MoveJoins DEF Ensure, Ensured, Statement, StageHolding, workerVars
<1>3. CASE Claim(r)
  BY <1>3, MoveJoins DEF Claim, ClaimsCheckpoint, Statement, StageHolding, workerVars
<1>4. CASE EnterWorker(r)
  BY <1>4, MoveJoins DEF EnterWorker, Start, At, StageHolding
<1>5. ASSUME OwnedCheckpoint(r), RunReturned(r) \/ RunThrew(r) \/ At(r, "failing"),
             \/ checkpoint' = CompletedCheckpoint
             \/ \E error : checkpoint' = FailedCheckpoint(error)
      PROVE  SettlesCheckpoint(r)
  <2>1. OwnsCheckpoint(r)
    BY <1>5 DEF OwnsCheckpoint, RunReturned, RunThrew, At, StageHolding
  <2>2. checkpoint'.status \in {"COMPLETED", "FAILED"}
    BY <1>1, <1>5 DEF CompletedCheckpoint, FailedCheckpoint, Freed, Checkpoints
  <2>. QED BY <2>1, <2>2 DEF SettlesCheckpoint
<1>6. CASE CompleteCheckpoint(r)
  <2>1. CASE OwnedCheckpoint(r)
    BY <1>5, <1>6, <2>1 DEF CompleteCheckpoint
  <2>2. CASE ~ OwnedCheckpoint(r)
    BY <1>6, <2>2, MoveJoins
       DEF CompleteCheckpoint, RunReturned, At, Statement, StageHolding, workerVars
  <2>. QED BY <2>1, <2>2
<1>7. CASE FailCheckpoint(r)
  <2>1. CASE OwnedCheckpoint(r)
    BY <1>5, <1>7, <2>1 DEF FailCheckpoint
  <2>2. CASE ~ OwnedCheckpoint(r)
    BY <1>7, <2>2, MoveJoins DEF FailCheckpoint, Rethrown, Statement, StageHolding, workerVars
  <2>. QED BY <2>1, <2>2
<1>8. CASE Settle(r)
  BY <1>1, <1>8 DEF Settle, NoDeliveryJoins, StageStates, StageHolding, workerVars
<1>9. CASE CheckpointFails(r)
  <2>1. CASE At(r, "ensure")
    BY <1>9, <2>1, MoveJoins
       DEF CheckpointFails, At, RunReturned, RunThrew, Ensured, Statement, StageHolding, workerVars
  <2>2. CASE At(r, "claim")
    BY <1>9, <2>2, MoveJoins
       DEF CheckpointFails, At, RunReturned, RunThrew, ClaimsCheckpoint, Statement, StageHolding, workerVars
  <2>3. CASE RunReturned(r)
    <3>1. CASE checkpoint' = CompletedCheckpoint /\ OwnedCheckpoint(r)
      BY <1>5, <2>3, <3>1
    <3>2. CASE checkpoint' = checkpoint
      BY <1>9, <2>3, <3>2, MoveJoins
         DEF CheckpointFails, At, RunReturned, RunThrew, Statement, StageHolding, workerVars
    <3>. QED
      BY <1>9, <2>3, <3>1, <3>2 DEF CheckpointFails, At, RunReturned, RunThrew
  <2>4. CASE RunThrew(r) \/ At(r, "failing")
    BY <1>9, <2>4, MoveJoins
       DEF CheckpointFails, At, RunReturned, RunThrew, Rethrown, Statement, StageHolding, workerVars
  <2>. QED BY <1>9, <2>1, <2>2, <2>3, <2>4 DEF CheckpointFails
<1>. QED BY <1>2, <1>3, <1>4, <1>6, <1>7, <1>8, <1>9 DEF StageStep

(* The steps of the stage, as they look to the claim.                      *)
LEMMA CheckpointEffects ==
    ASSUME StageInv, [StageNext]_stageVars
    PROVE  \/ checkpoint' = checkpoint /\ NoDeliveryJoins /\ (now' = now \/ stage' = stage)
           \/ checkpoint.status = "ABSENT" /\ checkpoint' = Ensured
           \/ \E r \in Runs : ClaimsCheckpoint(r) \/ SettlesCheckpoint(r)
           \/ MarkAbandoned
<1>1. checkpoint \in Checkpoints /\ stage \in [Runs -> StageStates]
  BY StageParts DEF CheckpointOK
<1>2. ASSUME NEW r \in Runs, NEW m \in Copies, Deliver(r, m)
      PROVE  checkpoint' = checkpoint /\ NoDeliveryJoins /\ now' = now
  BY <1>1, <1>2 DEF Deliver, NoDeliveryJoins, StageStates, StageHolding, workerVars
<1>3. ASSUME NEW r \in Runs, Dispatch(r)
      PROVE  checkpoint' = checkpoint /\ NoDeliveryJoins /\ now' = now
  BY <1>3, MoveJoins DEF Dispatch, StageHolding, workerVars
<1>4. ASSUME NEW p \in Processes, StageCrash(p)
      PROVE  checkpoint' = checkpoint /\ NoDeliveryJoins /\ now' = now
  BY <1>1, <1>4 DEF StageCrash, Crash, NoDeliveryJoins, StageStates, StageHolding, workerVars
<1>5. ASSUME NEW p \in Processes, ChannelLost(p)
      PROVE  checkpoint' = checkpoint /\ NoDeliveryJoins /\ now' = now
  BY <1>1, <1>5 DEF ChannelLost, NoDeliveryJoins, StageStates, StageHolding, workerVars
<1>6. ASSUME UNCHANGED ownVars
      PROVE  checkpoint' = checkpoint /\ NoDeliveryJoins /\ stage' = stage
  BY <1>6 DEF ownVars, NoDeliveryJoins
<1>. QED
  BY <1>2, <1>3, <1>4, <1>5, <1>6, DeliveryEffects DEF StageNext, WorkerStep, StageTick, stageVars

LEMMA CheckpointStepIsFenced ==
    ASSUME StageInv, OneDelivery, OneDelivery', [StageNext]_stageVars
    PROVE  [CheckpointFence!Next]_(CheckpointFence!vars)
<1>. DEFINE owners == {r \in Runs : OwnsCheckpoint(r)}
            lapsed == checkpoint.status = "PROCESSING" /\ checkpoint.lease <= now
            AtMostOne == {{}} \cup {{r} : r \in Runs}
<1>1. checkpoint \in Checkpoints /\ owners \in AtMostOne /\ owners' \in AtMostOne
  BY StageParts DEF CheckpointOK, OneDelivery
<1>2. checkpoint'.status # "PROCESSING" => owners' = {} /\ lapsed' = FALSE
  BY DEF OwnsCheckpoint, OwnedCheckpoint
<1>3. CASE checkpoint' = checkpoint /\ NoDeliveryJoins /\ now' = now
  <2>1. owners' \subseteq owners /\ CheckpointPhase' = CheckpointPhase /\ lapsed' = lapsed
    BY <1>3 DEF NoDeliveryJoins, OwnsCheckpoint, OwnedCheckpoint, CheckpointPhase, SettledCheckpoint
  <2>2. owners' = owners \/ (owners # {} /\ owners' = {})
    BY <1>1, <2>1
  <2>. QED BY <2>1, <2>2 DEF CheckpointFence!Next, CheckpointFence!Forget, CheckpointFence!vars
<1>4. CASE checkpoint' = checkpoint /\ stage' = stage
  <2>1. owners' = owners /\ CheckpointPhase' = CheckpointPhase
    BY <1>4 DEF OwnsCheckpoint, OwnedCheckpoint, CheckpointPhase, SettledCheckpoint
  <2>2. lapsed' = lapsed \/ (lapsed' = ~ lapsed /\ CheckpointPhase = "claimed")
    BY <1>4 DEF CheckpointPhase, SettledCheckpoint
  <2>. QED BY <2>1, <2>2 DEF CheckpointFence!Next, CheckpointFence!LeaseMoves, CheckpointFence!vars
<1>5. CASE checkpoint.status = "ABSENT" /\ checkpoint' = Ensured
  <2>1. checkpoint'.status = "PENDING"
    BY <1>1, <1>5 DEF Ensured, Checkpoints
  <2>2. owners = {} /\ lapsed = FALSE
    BY <1>5 DEF OwnsCheckpoint, OwnedCheckpoint
  <2>3. CheckpointPhase = "open" /\ CheckpointPhase' = "open"
    BY <1>5, <2>1 DEF CheckpointPhase, SettledCheckpoint
  <2>. QED BY <1>2, <2>1, <2>2, <2>3 DEF CheckpointFence!vars
<1>6. ASSUME NEW r \in Runs, ClaimsCheckpoint(r) PROVE CheckpointFence!Claim
  <2>1. checkpoint'.status = "PROCESSING"
    BY <1>1, <1>6 DEF ClaimsCheckpoint, Claimed, Checkpoints
  <2>2. CheckpointPhase = "open" /\ CheckpointPhase' = "claimed"
    BY <1>6, <2>1 DEF ClaimsCheckpoint, Claimable, CheckpointPhase, SettledCheckpoint
  <2>. QED BY <1>1, <2>2 DEF CheckpointFence!Claim, CheckpointFence!AtMostOne
<1>7. ASSUME NEW r \in Runs, SettlesCheckpoint(r) PROVE CheckpointFence!Settle
  <2>1. owners # {} /\ checkpoint.status = "PROCESSING"
    BY <1>7 DEF SettlesCheckpoint, OwnsCheckpoint, OwnedCheckpoint
  <2>2. CheckpointPhase = "claimed" /\ CheckpointPhase' = "closed"
    BY <1>7, <2>1 DEF SettlesCheckpoint, CheckpointPhase, SettledCheckpoint
  <2>. QED BY <1>2, <1>7, <2>1, <2>2 DEF SettlesCheckpoint, CheckpointFence!Settle
<1>8. CASE MarkAbandoned
  <2>1. lapsed /\ checkpoint'.status = "ABANDONED"
    BY <1>1, <1>8 DEF MarkAbandoned, Stale, Freed, Checkpoints
  <2>2. CheckpointPhase = "claimed" /\ CheckpointPhase' = "open"
    BY <2>1 DEF CheckpointPhase, SettledCheckpoint
  <2>. QED BY <1>2, <2>1, <2>2 DEF CheckpointFence!Next, CheckpointFence!Revoke
<1>. QED
  BY <1>3, <1>4, <1>5, <1>6, <1>7, <1>8, CheckpointEffects DEF CheckpointFence!Next

(* Deliveries, whatever becomes of them, and the runtime recovery share    *)
(* the checkpoint under the fence.                                         *)
THEOREM CheckpointIsClaimed == StageSpec => CheckpointImplementsClaim
<1>1. StageInit => CheckpointFence!Init
  <2>. SUFFICES ASSUME StageInit PROVE CheckpointFence!Init
    OBVIOUS
  <2>1. checkpoint.status = "ABSENT"
    BY DEF StageInit, NoCheckpoint
  <2>2. {r \in Runs : OwnsCheckpoint(r)} = {}
    BY <2>1 DEF OwnsCheckpoint, OwnedCheckpoint
  <2>. QED BY <2>1, <2>2 DEF CheckpointFence!Init, CheckpointPhase, SettledCheckpoint
<1>2. StageInv => OneDelivery
  BY DeliveriesAreOne
<1>3. StageInv /\ OneDelivery /\ OneDelivery' /\ [StageNext]_stageVars
        => [CheckpointFence!Next]_(CheckpointFence!vars)
  BY CheckpointStepIsFenced
<1>. QED
  BY <1>1, <1>2, <1>3, StageInvariance, PTL DEF StageSpec, CheckpointImplementsClaim, CheckpointFence!Spec

(* The fence again, with what is proved of it.                             *)
FencedCheckpoint == INSTANCE FencedClaimProofs WITH
    Holders <- Runs,
    phase   <- CheckpointPhase,
    holders <- {r \in Runs : OwnsCheckpoint(r)},
    lapsed  <- checkpoint.status = "PROCESSING" /\ checkpoint.lease <= now

(* So one delivery at a time owns the checkpoint, none is displaced before *)
(* its lease lapses, and a settled checkpoint is not claimed again.        *)
THEOREM CheckpointIsFenced ==
    StageSpec => []CheckpointFence!Exclusive /\ CheckpointFence!HeldIsKept /\ CheckpointFence!ClosedForGood
<1>1. CheckpointFence!Spec => FencedCheckpoint!Spec
  <2>1. CheckpointFence!Init => FencedCheckpoint!Init
    BY DEF CheckpointFence!Init, FencedCheckpoint!Init
  <2>2. [CheckpointFence!Next]_(CheckpointFence!vars) => [FencedCheckpoint!Next]_(FencedCheckpoint!vars)
    BY DEF CheckpointFence!Next, CheckpointFence!Claim, CheckpointFence!Settle,
           CheckpointFence!Revoke, CheckpointFence!Forget, CheckpointFence!LeaseMoves,
           CheckpointFence!AtMostOne, CheckpointFence!vars, FencedCheckpoint!Next,
           FencedCheckpoint!Claim, FencedCheckpoint!Settle, FencedCheckpoint!Revoke,
           FencedCheckpoint!Forget, FencedCheckpoint!LeaseMoves, FencedCheckpoint!AtMostOne,
           FencedCheckpoint!vars
  <2>. QED BY <2>1, <2>2, PTL DEF CheckpointFence!Spec, FencedCheckpoint!Spec
<1>. QED
  BY <1>1, CheckpointIsClaimed, FencedCheckpoint!Exclusion, FencedCheckpoint!Kept,
     FencedCheckpoint!Closed, PTL
     DEF CheckpointImplementsClaim, CheckpointFence!Exclusive, CheckpointFence!HeldIsKept,
         CheckpointFence!ClosedForGood, CheckpointFence!AtMostOne, CheckpointFence!vars,
         FencedCheckpoint!Exclusive, FencedCheckpoint!HeldIsKept, FencedCheckpoint!ClosedForGood,
         FencedCheckpoint!AtMostOne, FencedCheckpoint!vars

-----------------------------------------------------------------------------
(* What the worker guarantees on its own it guarantees within the stage,   *)
(* whose deliveries, redeliveries and recovery only ever start its runs:   *)
(* the operation is reported executed once, what runs return is what is    *)
(* recorded, the handler sees no payload but the recorded one, and neither *)
(* a delivery nor the recovery reopens or takes over the record against    *)
(* the fence. (processWithIdempotency)                                     *)
THEOREM StageKeepsWorker ==
    StageSpec => /\ [](OneCompletion /\ ReturnedIsRecorded /\ SamePayload)
                 /\ SettledIsFinal
                 /\ OvertakenWhenExpired
                 /\ ImplementsClaim
BY StageImplementsWorker, Completion, Returned, Payload, Final, Overtaken, WorkerImplementsClaim, PTL

=============================================================================
