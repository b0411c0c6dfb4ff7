# AIRA: a verification project

TLA+ models of the Autonomous Incident Recovery Agent (AIRA), the TLC runs that
check them on small instances and the theorems about them that TLAPS proves.
Paths below are relative to the repository's `backend/`.

## 1. The system

AIRA turns monitoring signals into incidents and drives each incident through
diagnosis, a recovery decision, policy and approval, protected execution,
verification and lifecycle closure. The stages do not call each other. A stage
that has finished records the next stage as an event in a durable **workflow
outbox**; outbox workers publish the events to RabbitMQ; consumers run the next
stage inside an **idempotent worker**. Several server processes run everything
concurrently against one database and one broker.

| Component (sources) | State it keeps | Operations | What is hard |
|---|---|---|---|
| Workflow outbox (`services/workflowOutbox`, `workers/workflowOutboxWorker.js`, `persistence/mongo/MongoWorkflowOutboxRepository.js`) | one record per event: status, owner, claim token, lease, attempt count, retry date | createOrGet, scan, claim, heartbeat, publish, markDelivered, markFailed, markDeadLetter | racing producers and publishers, crashes between store calls, stale clock readings and snapshots, unconfirmed publication |
| Outbox runtime and consumers (`workflowOutboxRuntimeController.js`, `workflowOutboxConsumerRegistry.js`, `services/infrastructure/queueService.js`) | running/stopping/processing flags, registrations, in-flight publications | start, tick, stop; register, handle, ack, nack | a stop that times out, redelivery, a channel that closes under its deliveries |
| Idempotency and ownership (`services/idempotency`) | one record per operation key: status, owner, token, lease, result | acquire, heartbeat, complete, fail, run | acquisition in several store calls, pauses longer than the lease, handlers run twice |
| Incident lifecycle (`services/lifecycle`, `services/incidents`) | incident state, retry budget, closure records | transition, retry, close, reopen, escalate | late verification results, reopening after closure |
| Stage workers (`workers/executionWorker.js`, verification, lifecycle, recovery decision) | none of their own: checkpoint and idempotency record | process: ensure, claim, run, complete or fail, answer the broker | copies and redeliveries of one job, a death between any two store calls |
| Runtime recovery (`services/recoveryRuntime`, `workers/runtimeRecoveryWorker.js`) | one checkpoint per stage of an operation: status, owner, token, lease, resume safety | ensure, claim, complete, fail; scan, mark abandoned, dispatch | abandoning what is still running, replaying what was interrupted |
| Protected execution (`services/execution`) | authorizations, execution leases, step records, kill switch | authorize, acquire, run steps, roll back | revocation and lease loss in the middle of a plan |
| Approval (`services/approval`) | approval requests and votes | request, vote, expire | expiry racing a vote |
| Human control (`services/humanOperations`, `PostgresHumanTakeoverRepository.js`, `PostgresControlReturnFenceRepository.js`, migrations 0088 and 0093) | takeover sessions, control leases, return fences, the current diagnosis and decision | request, authorize, acquire, heartbeat, release, expire, certify | leases that end while others act, evaluations that predate the return, transactions whose NOW() is old |
| Circuit breaker and dependency isolation (`services/infrastructure`) | state, failure and success counts, probe slots, next attempt time | execute, getState, reset | calls that outlive the state they were admitted in |
| Migration (`persistence/migration`) | lock, checkpoints | lock, backfill, cut over | two runners, a crash in a batch |
| Replay orchestration (`services/replayOrchestration`) | replay runs | start, step, finish | replays that must not touch the live system |

Everything else (human escalation, language-model agents, knowledge content, memory, billing,
identity, integrations, HTTP interface, frontend, labs) is listed with its
reason in `PROJECT.json`.

Interactions. Producers (recovery decision, execution, verification,
human-notification handoffs) call `createOrGet`. The runtime controller's timer
calls the worker's `processBatch`, which calls the delivery coordinator, the
dispatcher, the claim service and the queue service. RabbitMQ delivers to the
consumer registry, which calls a stage worker, which runs its service through
the idempotent worker and acks, or nacks with or without requeueing.

What makes the components correct: an event is recorded once and as asked; it
is published by at most one publisher at a time while leases run; what is
settled stays settled and was really published; attempts are bounded; no event
is forgotten. A protected operation is claimed by one delivery at a time, its
result is recorded once and never replaced, and an owner that was overtaken
settles nothing. Human control has one holder, and once it was returned the agent
does not act again before an evaluation. A dependency that fails is
left alone, and let in again once it has recovered.

## 2. Plan

| # | Module | Models | Status |
|---|---|---|---|
| 1 | `WorkflowOutbox` (with `WorkflowOutboxRetryPolicy`) | the outbox, store call by store call | done |
| 2 | `WorkflowHandoff` | what a stage may rely on; refined by 1 | done |
| 2a | `FencedClaim` | what a durable claim promises those who compete for one piece of work; refined by each event of 1, by the record of 3 and by the checkpoint of 4 | done |
| 3 | `IdempotentWorker` | acquire, heartbeat, handler, complete and fail | done |
| 4 | `ProtectedStage` | a stage worker whole: broker delivery, consumer registry, runtime checkpoint, idempotent worker (3, extended, not copied) and the runtime recovery beside it | done |
| 5 | `HumanControl`, with `ControlHandover` | takeover, control leases, return fences and the fresh evaluation; refines the abstract handover | done |
| 6 | `CircuitBreaker` | the breaker around a dependency | done |
| 7 | `...Docs` | documented promises the code does not keep | done for 1, 4 and 5 |
| 8 | `...Proofs` | inductive invariants and theorems of 1, 3, 4, 5 and 6, the refinements of 2, `FencedClaim` and `ControlHandover`, and what 2 and `FencedClaim` promise | all safety properties done |
| 9 | `IncidentLifecycle`, `ExecutionLease`, `ExecutionAuthorization` | the stages' own state machines | later |
| 10 | `ApprovalQueue`, `OutboxRuntime`, `MigrationLock`, replay | | later |
| 11 | PostgreSQL outbox repository | the same outbox guards on the other store, against `WorkflowOutbox` | later |

The order followed the weight of a mistake: losing or repeating an event, then
repeating an effect, then acting against a human, then locking a dependency
out. What is left starts with `ExecutionLease`, because a plan whose lease is
lost between two steps is the next thing that can do damage.

## 3. The workflow outbox

`WorkflowOutbox` has one action per store call, because every `await` of the
code is a point where other processes run; what is computed between two awaits
belongs to the action before them.

| State or action | Code |
|---|---|
| `outbox[k]` | the record of event key `k`: status, owner, claim token, lease expiry, `attempts.count`, next attempt date (`due`) |
| `producer[r]`, `Find`, `Insert`, `Reload` | one call of `createOrGet`: look up, insert, reload after a duplicate-key error, compare fingerprints |
| `publisher[p]`, `Scan` | the worker of one process, `processBatch`: **one** clock reading and the scanned snapshots for the whole batch |
| `Claim` | `claimService.claim` with that reading, and the routing that follows it outside the dispatcher's try block |
| `Heartbeat`, `Publish`, `TransportFails`, `RefuseMalformed` | `dispatchClaimed`: heartbeat, publication, the ways it fails |
| `Settle`, `Rejected` | `markDelivered`, `markFailed`, `markDeadLetter` going through or refused by the fence |
| `AfterFailure`, `Verdict` | `handleDispatchFailure` with the count of the *scanned* event, and the retry policy |
| `channel`, `broker`, `Flush`, `ConnectionLost` | `queueService.publishEvent`: `channel.publish` buffers, nothing awaits a confirm |
| `StoreFails`, `Crash` | a store call that errors before or after its effect; a process that dies |

`WorkflowHandoff` is the contract a stage relies on: an intent is recorded once
and never altered, sent at most `MaxAttempts` times and as recorded, closed once
and as delivered only after it was sent. `ImplementsHandoff` says that
`WorkflowOutbox` implements it (the statuses other than DELIVERED and
DEAD_LETTER map to "open").

**The fence.** AIRA writes the same protection three times: the claim of an
outbox event, of an idempotency record and of a stage checkpoint. `FencedClaim`
states once what all three are for. Work is open, claimed or closed; claiming it
opens a lease; a claim whose lease runs belongs to nobody else, whether or not its
holder is still alive; a lapsed one may be taken over or revoked; only the holder
settles the work, and what is closed stays closed. Each component is related
to it by a mapping of its record (`Phase`, `CheckpointPhase`), of those who have the
record's own token in hand (`HasClaim`, `Owns`, `OwnsCheckpoint`) and of its lease
against the real clock. The code compares leases with clock readings of the
past, so what the mapping asks is that a reading which calls a lease over was
never wrong about the present.

| `FencedClaim` | outbox event `k` (`Event(k)`) | idempotency record (`Fence`) | checkpoint (`CheckpointFence`) |
|---|---|---|---|
| open | ABSENT, PENDING, FAILED | absent, FAILED and retryable | absent, PENDING, ABANDONED |
| claimed | PROCESSING | PROCESSING | PROCESSING |
| closed | DELIVERED, DEAD_LETTER | COMPLETED, FAILED for good | COMPLETED, FAILED |
| `Claim` | `Claim`, `StoreFails` of a claim | `Insert`, `TakeOver` | `Claim` |
| `Settle` | `Settle` | `Complete`, `Fail` | `CompleteCheckpoint`, `FailCheckpoint` |
| `Revoke` | never | never | `MarkAbandoned` |
| `Forget` | `Crash`, `Rejected`, `StoreFails` | `Crash`, a lost answer, a lost lease | `StageCrash`, a lost answer |
| `LeaseMoves` | `Tick` | `Tick`, `BeatLands` | `StageTick` |

The control lease of an incident is related to it in the proofs alone (section 9).
An outbox has many events, so its statement is one fence for each of them:
`ImplementsClaim` says that all start as `FencedClaim` does and that every step is,
for every event, one of its steps or none.

## 4. The idempotent worker

`IdempotentWorker` models `idempotentWorkerService.run` and the claim,
completion and lease services on one idempotency record; no call touches two.

| State or action | Code |
|---|---|
| `record` | the row: status, owner, claim token (= `attemptCount`), fingerprint, lease, `failure.retryable`, result |
| `run[r]` | one delivery's call of `run`: program counter, fingerprint, the clock reading of its `acquire`, token, heartbeats in flight, `lost`, error, outcome |
| `Start`, `Insert`, `Find`, `TakeOver` | `acquire`: insert under the unique index, read, then the conditional update for a stale or a failed claim, all with the first clock reading |
| `Beat`, `BeatLands`, `BeatFails` | the timer of `startHeartbeat` and the conditional update of `heartbeat`; a slow beat is overtaken by later ones and outlives `stop()`, which awaits only the last |
| `HandlerEnds`, `Stopped` | the handler returns (pc `stop`) or throws (pc `catch`); after `heartbeat.stop()` a run that has lost its lease throws |
| `Complete`, `Fail` | the fenced updates; a refused completion names its reason from a second read: another owner is rethrown, a settled record goes through the catch block to `fail` |
| `StoreFails`, `Crash` | as above; `Crash` kills every run of a process |

Two calls of one action merge where the second only reads for the answer: the
duplicate counter of `markDuplicate`, the read after a lost race, and the read
after a refused completion. The status `EXPIRED` is written by no code and
records are never deleted, so the branches for them are left out.

## 5. A protected stage

`ProtectedStage` EXTENDS `IdempotentWorker` and puts around it what
`executionWorker`, `verificationWorker`, `lifecycleWorker` and
`recoveryDecisionWorker` share. A run of the worker is one delivery, or one
dispatch of the recovery; its steps appear as `WorkerStep`, unchanged.

| State or action | Code |
|---|---|
| `copy[m]`, `listening`, `Deliver`, `Settle` | the copies of a job's message, the subscribed processes, `consumeEvents` and the acknowledgement: a result is acknowledged, an error requeues the copy unless it is marked `retryable: false` |
| `checkpoint`, `Ensure`, `Claim` | `ensureCheckpoint` and `claim`: PENDING and ABANDONED are claimed, everything else is answered as a duplicate and acknowledged |
| `EnterWorker`, `CompleteCheckpoint`, `FailCheckpoint` | `process` of a worker: the idempotent run, `complete` on whatever it returned, `fail` in the catch block, both under the claim token |
| `CheckpointFails` | a statement that fails before or after its effect; ensuring and claiming stand outside the try block |
| `recovering`, `MarkAbandoned`, `Dispatch` | whether the recovery coordinator is deployed; its scan for expired leases; the decisions START, RESUME and RETRY_SAFE, given to the same workers |
| `StageCrash`, `ChannelLost` | a process that dies and restarts; a channel that closes, is opened again and never subscribed again |

No production code starts the recovery coordinator, so `recovering` is chosen
once: the strong properties (`HandlerOnce`, `CompletedAgrees`, the second half
of `AckedIsAnswered`) are about the system without it, the others about both.
Facts the model makes visible: a retryable failure is requeued and then
acknowledged as a duplicate, never retried, because the checkpoint stays FAILED;
a worker that dies leaves a checkpoint nobody takes up without the recovery; with
the recovery, a delivery that meets a slow owner completes the checkpoint on the
answer DUPLICATE_PROCESSING.

## 6. Human control

`HumanControl` models one incident (every index, lease and fence of the code is
per incident). A repository method is one PostgreSQL transaction and one action,
at its commit; what a service reads before it is an action of its own (`Ask...`),
so that anything may happen between the two. A heartbeat that finds its lease live
takes two actions, because the clock may pass the expiry between the check and the
commit and readers do not wait for its row lock.

| State or action | Code |
|---|---|
| `session`, `CreateSession`, `Authorize` | takeover sessions and the partial unique index that admits one AUTHORIZED or ACTIVE session |
| `lease`, `AcquireLease`, `Release`, `ExpireControl` | control leases: acquisition under the lock of the session's row, release and expiry whatever the clock says |
| `FindLeaseLive`, `Renew`, `FindLeaseOver`, `Locked` | `heartbeatLease`: the check under the row lock, then the commit of the renewal, during which nobody else ends or renews the lease; or the durable expiry |
| `fence`, `End`, `Fenced` | the trigger of migration 0093: in the transaction that ends a lease it supersedes the pending fence and inserts a new one, with that transaction's NOW() as its boundary |
| `diagnosis`, `decision`, `deciding` | the current diagnosis, the current recovery decision and the run that is computing one |
| `Certify`, `Fresh` | `certifyFreshEvaluation`: diagnosis and decision are current, belong together and were made after the boundary |
| `call[c]`, `Times` | a call under way and when it began: NOW() lies anywhere between then and the statement |

A lease whose time is up is over for every reader (`Live`), while its row is still
ACTIVE (`Lapsed`). Such a lease can come back: a heartbeat that found it live may
commit after it ran out. `NoLateRevival` says that this is the only way back, that
the heartbeat began before the lease ran out, and that nothing brings back a lease
or a session that was ended. What the agent did while the lease was lapsed is not
undone by the renewal.

`ControlHandover` states what human control leaves behind, with two variables: who
is in control (a human, a lapsed lease, nobody) and whether an evaluation is owed.
Every return leaves an evaluation owed; neither taking control again nor time pays
it. The fences let the agent act while no human is in control and no evaluation is
owed (`FencesPass` in `HumanControlDocs`), which includes lapsed control: the
contract does not promise that a lease that merely runs out holds the agent, because
the code does not (run `human_expired`). `ImplementsHandover` says that
`HumanControl` implements it, with control read as the fences read it. Operators'
identities are left out (they only refuse calls); the session's own expiry is
enforced by no code, and REVOKED and DENIED are written by none.

## 7. The circuit breaker

`CircuitBreaker` models `circuitBreakerService` for one dependency in one
process. What JavaScript runs between two awaits is one action, so `Execute` is
the refresh, the admission and the start of the operation, and `Succeeds`,
`Fails` and `FailsUncounted` are its end, the accounting and the finally block.
Between them any number of other calls may open, half open and close the
circuit. Time is the rest of the cooldown. The field `stale` of a call is a
history variable: the circuit has opened since the call was admitted.

Two facts are allowed by the properties and worth knowing: a success of a call
from before the outage counts towards closing a half-open circuit, because a
call carries no mark of the phase it was admitted in; and an operation without a
timeout that never returns keeps its probe slot, hence the fairness below.

## 8. What the runs check

| Run | Question | Instance |
|---|---|---|
| `outbox_race` | do creation, attempts, ownership and publication agree, are leases exclusive, and are the handoff and, for every event, the fence implemented, when everything races and a whole batch uses one clock reading? | 2 keys, 2 payloads (one malformed), 2 producers, 2 publishers, batches of 2, budget 2, lease 2, clock to 3, 1 fault |
| `outbox_live` | does every event settle, is every retryable failure tried again, and can failing or unroutable events keep another one from being claimed? | 2 keys (one without a route), batches of 1, budget 2, clock to 5, 1 fault, fair |
| `idem_race` | do racing deliveries agree on one execution and one result, and is the record claimed under the fence? | 3 runs in 2 processes, 2 payloads, lease 2, clock to 4, 1 fault |
| `idem_beats` | can late or reordered heartbeats revive a settled record, lose a valid claim or keep a run from ending? | 2 runs, 2 beats in flight each, lease 2, clock to 4, 1 fault, fair |
| `stage` | is a job entered once, does its checkpoint tell the truth, is the broker answered for claimed work only, is a live claim kept and the checkpoint claimed under the fence, and does every delivery end? | 2 copies, 2 deliveries in 2 processes, with and without recovery, 1 fault in a run and 1 outside, fair |
| `human_control` | is there one controller, does every return wait for an evaluation no older than itself, can a lapsed lease come back by a late heartbeat or an ended one at all, and is the handover implemented? | 2 sessions, 2 leases, 2 calls, 2 diagnoses, lease 2, clock to 3 |
| `breaker` | do probes give their slots back, is an open circuit quiet, do late answers leave the cooldown alone and is nothing sent during it, and is a recovered dependency let in again? | 4 calls, thresholds 2 and 2, 1 probe at a time, cooldown 2, fair |

Five further runs end in a counterexample, one for each documented promise the
code does not keep:

| Run | Promise | What the code does |
|---|---|---|
| `outbox_takeover` | another publisher takes over after a crash | scans never return PROCESSING records |
| `outbox_lost` | a broker outage does not lose intent | DELIVERED is written while the message is still in the client's buffer |
| `stage_forgotten` | an interrupted verification is abandoned, found safe and resumed | no checkpoint says SAFE before it is settled, so the resolver blocks it |
| `stage_replayed` | an execution is never replayed after an ambiguous interruption | a redelivery claims the ABANDONED checkpoint whatever its resume safety |
| `human_expired` | the expiry of a lease requires a fresh evaluation | a lease that merely runs out ends no row, so no fence arises, and both fences let the agent continue |

Smaller divergences, seen while modelling and not kept as runs: with a budget of
two or more, the last attempt's retryable failure is judged by the count the scan
saw, one behind, and stays FAILED instead of being dead-lettered; an event whose
type has no route stays PROCESSING; the idempotency fence looks at status, owner
and token but not at the lease; the loser of a reclaim race answers "processing"
whatever it reads.

**Bounds.** `MaxNow` bounds the clock, `MaxFaults` the crashes, lost calls and
dropped connections, `MaxLosses` the faults of a stage outside a run,
`MaxDiagnoses` the diagnoses, `MaxBeats` the heartbeats in flight of one run, and a retry
date lies within the clock.
The stage run has no heartbeat in flight: heartbeats are steps of the worker, which
`idem_beats` checks, and `StageImplementsWorker` carries what is proved of the worker
into a stage with any number of them. A lease of 2 and a clock of 4 or 5 let a claim
expire, be taken over and expire again; two payloads are enough for any
mismatch; two processes give every race of a stale with a current owner, and a
third run lets a record be failed, retried and settled behind a run that read
it before. Two sessions with two leases are the least in which one return
supersedes another; a clock to 3 lets a lease expire, a renewal commit
after that, and a boundary lie behind the moment of its commit. Four calls let two late answers meet two probes of a
circuit with a threshold of two. The breaker needs no bound on time: its cooldown
is bounded by the code. One fault suffices for each scenario in which the code mishandles a
crash or a lost answer; `stage` has one inside a run and one outside, to combine. Symmetry is used only in
runs without liveness; `outbox_race` also exchanges the keys, both of which are
routed there.

**Deadlock** is not checked: at the bound of the clock with every run ended
nothing is left to do.

**Fairness.** The runtime's timer ticks for ever and every await of a store call
or of the transport settles, so a publisher's next step, a producer's insert or
reload, the flushing of the socket and the clock are weakly fair. In the idempotent worker the next
step of a started run, the end of its handler and the landing of its heartbeats
are weakly fair; deliveries and the start of heartbeats are not, and no fault is
ever owed. In a stage the broker delivers what is ready, a
delivery that was taken goes on (every await settles, because store and broker
clients time out), and the recovery's scan repeats. For the breaker, operations
return, requests keep coming and time passes. The protected operations of the code
have no timeout of their own, so `Recovers` assumes of them what the drivers
provide.

## 9. What is proved

The theorems hold for all values of the constants under the named assumptions
`OutboxAssumption`, `WorkerAssumption`, `StageAssumption`, `ControlAssumption`
and `BreakerAssumption` (finite sets of events and of runs,
positive leases, budgets and batches, a null value that is no process, key or
payload).

*Outbox* (`WorkflowOutboxProofs`). None of the properties is inductive by
itself. `OutboxInv` adds what they rest on: `AttemptsCounted` (the record
carries the last token and one attempt per token), `Fenced` (a publisher with
the last token has the record in processing under the lease it computed; one
with an older token holds a lease that is over), `Published` (a publisher about
to report success has sent its message) and `MessagesFaithful`. The proof goes
action by action (`StepInv`); for `Claim` the point is that `batchNow <= now`, so a
lease that is over at a stale reading is over now.

* `Invariance`, `TypeCorrect`: `OutboxInv` and the types hold.
* `Exclusive`: while a publisher's lease runs nobody has its event.
* `DeliveredPublished`: DELIVERED means published under that very claim.
* `Final`: settled records do not change.
* `WithinBudget`: publications are attempts, and attempts stay within the budget;
  a publisher that is about to publish has an attempt no message was sent for.
* `CallersAgree`: the answers of `createOrGet` agree with the record, from the
  inductive `AnswersAgree` (what a call has read of the record is still there,
  because an event's key, payload and fingerprint never change).
* `HandsOff`: every step is a step of `WorkflowHandoff` under the refinement
  mapping, or a stutter.
* `StagesMayRely`: so the outbox has what the handoff promises. `WorkflowHandoffProofs`
  proves that once of the abstract module (`Promised`, `Kept`): transmissions are as
  recorded and within the budget, delivered means transmitted, and no intent,
  outcome or transmission is taken back.
* `EventsAreClaimed`: every step is, for every event, a step of `FencedClaim` or a
  stutter. The argument rests on `ClaimantsAreOne` (by `Fenced` the publishers with an
  event's last token are one at most) and on three lemmas on what a step does to
  one event: it is taken, settled by its claimant, or left alone while claimants
  can only drop out (`StepEffect`). `EventsAreFenced` draws the consequences: one
  claimant, and none displaced under its lease.
* `RetriesAreNear`: a failed event comes up again at the earliest at its failure and
  at the latest the jittered cap after it. `DelayIsCapped` and `PercentGrows` are the
  arithmetic (no run could vary the policy without growing out of bounds); the invariant
  is `FailureIsNear`, about publishers that are about to record a failure. The cap alone
  is no bound: the code applies the jitter after it.

*The fence* (`FencedClaimProofs`). `Exclusion`, `Kept` and `Closed` prove of the abstract
module that one holder at most has the claim, that a running lease protects it and
that closed work stays closed. A component gets them by implementing it.

*Idempotent worker* (`IdempotentWorkerProofs`). `WorkerInv` is inductive as it
stands: tokens are drawn from the record's counter, each by one run
(`TokensAreUnique`, `TokensAreHeld`), a completed record names the token that
completed it (`RecordIsSound`), and runs agree with it. `RunOK` states the part
that concerns one run, `Follows` what every accepted store call keeps of the
record, and the lemma `Frame` reduces each action to its own run and the record.

* `Invariance`, `TypeCorrect`; `Returned` and `Payload`, its parts a caller sees.
* `Completion`: at most one run reports EXECUTED; two would have recorded their
  tokens as one result, and tokens are unique.
* `Final`: a completed record and a permanent failure never change.
* `Overtaken`: a claim passes on only when its lease has expired, because the
  reclaim tests the stored lease against a reading of the past.

* `WorkerImplementsClaim`: every step is a step of `FencedClaim` or a stutter;
  `WorkerIsFenced` reads the fence's promises off it. The lemmas follow what can
  happen to the record: claimed, settled, renewed, or left alone (`Effects`).

A handler is not stopped when its lease is lost, so two handlers of one
operation can run at once; what is proved is that an overtaken one leaves no trace
on the record and reports no execution.

*Protected stage* (`ProtectedStageProofs`). `StageImplementsWorker` proves that a
behaviour of `ProtectedStage` is one of `IdempotentWorker`, so the worker's
invariant and theorems may be used inside a stage. `StageInv` adds which
deliveries have claimed under which token (`ClaimsAreSound`), that the worker's
run of a delivery lives within its claim (`RunsAreEntered`), and what checkpoint,
copies and record say of each other. Without the recovery a checkpoint is claimed
once (`checkpoint.token <= 1`); this, and not the idempotency record, is what
keeps the handler from being entered twice.

* `StageInvariance`, `StageTypeCorrect`, `HandlerEntersOnce`,
  `CompletedIsRecorded`, `AcknowledgedIsClaimed`: its parts.
* `SettledStays`, `LiveClaimStays`: its action properties.
* `CheckpointIsClaimed`: deliveries and recovery do to the checkpoint only what
  `FencedClaim` allows, `MarkAbandoned` being its `Revoke`; `CheckpointIsFenced` draws
  the consequences.
* `StageKeepsWorker`: what the worker guarantees alone it guarantees in a stage,
  whatever the broker, the checkpoint and the recovery do, by `StageImplementsWorker`.

*Human control* (`HumanControlProofs`). The point of `ControlInv` is
`BoundariesAreOrdered`: whoever is about to end the active lease began after
every boundary so far, so the pending fence has the latest one, although a
boundary may be older than its commit. Superseding a fence then never lowers
what an evaluation has to pass, which gives `NoReturnForgotten`.

* `ControlInvariance`, `ControlTypeCorrect`, `ControllerIsOne`,
  `ReturnsAreRemembered`: its parts.
* `RevivalIsInTime`: the action property `NoLateRevival`. It rests on
  `RenewalsHoldTheirRow`: while a renewal is under way its row stays active with the
  expiry its heartbeat saw, which lies after the heartbeat's beginning.
* `ControlIsHandedOver`: every step is a step of `ControlHandover` or a stutter.
* `ControlIsFenced`: control of the incident is a fenced claim too, its holder the
  active lease. Ends before the expiry and after it are both `Settle`, because the
  repository ends a row whatever the clock says. No run states this one:
  `OneController` is what TLC checks of it.

*Circuit breaker* (`CircuitBreakerProofs`). `BreakerInv` is inductive as it
stands. Every function of the breaker keeps the part that concerns its fields;
the rest counts the running probes, for which the set of calls is finite.

* `BreakerInvariance`, `BreakerTypeCorrect`, `ProbesHoldTheirSlots`,
  `QuietWhenOpen`, `ClosedHasFailuresLeft`; `CooldownStands`: the action property.

`TerminalIsFinal` and `SettledIsKept` are stated by theorems (`Final`, `SettledStays`) and
by no run: `ImplementsClaim` and `CheckpointImplementsClaim`, which runs check, say
more about who may change a record when.

Only model-checked is liveness (`EventsSettle`, `FailedIsRetried`,
`PendingIsClaimed`, `EveryRunEnds`, `EveryDeliveryEnds`, `Recovers`): fairness and
ENABLED are beyond the prover. Every safety property of every passing run is a
theorem.

## 10. Assumptions and what is not modelled

* All processes read one clock; drift between hosts is not modelled.
* The outbox is the one on MongoDB, which the server's global dispatcher uses.
* A scan and the clock reading just before it are one action, and the gate that
  skips ticks while the transport is down is not modelled (a tick that does
  nothing).
* Delays are whole clock units: `WorkflowOutboxRetryPolicy` keeps the doubling,
  the cap and the jitter, which is applied after the cap.
* Error objects are reduced to what the retry decisions read of them: a flag and
  a class of code.
* Keys and fingerprints are values; hashing and canonical serialization are not
  modelled.
* A stage worker is modelled with one job, so one checkpoint and one record; the
  recovery's plan over several checkpoints of an incident is not. What the stage
  services compute is the handler's outcome.
* The runtime controller's start and stop, the task operations of human
  operations, and the registration of a dependency again, which replaces its
  breaker while calls of the old one run, are not modelled.
* One variable (`deciding`) stands for all decision runs under way, with the
  diagnosis any of them read last; a run that read an older one would save a
  decision that `Fresh` refuses. The breaker's `onStateChange` callback is taken
  not to throw.
* The check that lets the agent act (`assertAllowed`) is read-only and appears as
  `FencesPass` in `HumanControlDocs`; the actions it guards belong to components
  that are not modelled yet.
* Most of the repository (language-model agents, content, HTTP, frontend,
  certification scripts, superseded copies of the server) has no protocol to
  model, so the modelled share of the code is small by construction.
* Components without a module are listed with their reason in `PROJECT.json`.
