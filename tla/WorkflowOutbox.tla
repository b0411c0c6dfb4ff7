--------------------------- MODULE WorkflowOutbox ---------------------------
(***************************************************************************)
(* The durable workflow outbox of AIRA on its MongoDB store: stage         *)
(* handlers (producers) record the next stage as an event, and the outbox  *)
(* worker of every server process (publishers) scans the store, claims     *)
(* events under a lease and a fencing token, publishes them to RabbitMQ    *)
(* and settles the record as DELIVERED, FAILED (to be retried) or          *)
(* DEAD_LETTER.                                                            *)
(*                                                                         *)
(* Every await of the code is a point where other processes may run, so    *)
(* each store call and the publication are actions of their own, and what  *)
(* the code computes between two awaits belongs to the action before them. *)
(* A store call is atomic (findOneAndUpdate).                              *)
(***************************************************************************)
EXTENDS WorkflowOutboxRetryPolicy, FiniteSets

CONSTANTS
    Keys,         \* deterministic event keys; a key fixes the event type
    Payloads,     \* payload fingerprints
    Producers,    \* calls of createOrGet
    Publishers,   \* server processes, each with one outbox worker
    NoOne,        \* null, as an owner, a key or a payload
    Routed,       \* keys whose event type has a publisher configured
    Malformed,    \* payloads the routing registry refuses to make a job of
    MaxAttempts,  \* attempts.maxAttempts
    LeaseMs,      \* length of a publisher's lease
    BatchSize,    \* events per scan
    MaxNow,       \* bound on the clock
    MaxFaults     \* bound on crashes, lost answers and dropped connections

ASSUME OutboxAssumption ==
    /\ IsFiniteSet(Keys)
    /\ Routed \subseteq Keys
    /\ Malformed \subseteq Payloads
    /\ NoOne \notin Keys \cup Payloads \cup Publishers
    /\ MaxAttempts \in Nat \ {0}
    /\ LeaseMs \in Nat \ {0}
    /\ BatchSize \in Nat \ {0}
    /\ MaxNow \in Nat
    /\ MaxFaults \in Nat

VARIABLES
    now,        \* the clock every process reads
    outbox,     \* the collection: a record for every key, Absent until inserted
    tokens,     \* claim tokens drawn for each event; a token is its number
    producer,   \* where each call of createOrGet stands
    publisher,  \* where each outbox worker stands
    channel,    \* messages in the AMQP client buffer of each process
    broker,     \* messages RabbitMQ has
    lost,       \* messages that left a buffer with the connection
    faults      \* how many faults have happened

vars == <<now, outbox, tokens, producer, publisher, channel, broker, lost, faults>>

-----------------------------------------------------------------------------
(* The record.                                                             *)

Terminal == {"DELIVERED", "DEAD_LETTER"}
Statuses == {"ABSENT", "PENDING", "PROCESSING", "FAILED"} \cup Terminal

NoLease == 0      \* a null lease expiry is past at every clock reading

Absent == [status |-> "ABSENT", payload |-> NoOne, owner |-> NoOne, token |-> 0,
           lease |-> NoLease, count |-> 0, due |-> 0]

(* Mutant: the status is stored in lower case.                             *)
NewRecordLowerCase(payload, t) ==
    [status |-> "pending", payload |-> payload, owner |-> NoOne, token |-> 0,
     lease |-> NoLease, count |-> 0, due |-> t]

NewRecord(payload, t) ==
    [status |-> "PENDING", payload |-> payload, owner |-> NoOne, token |-> 0,
     lease |-> NoLease, count |-> 0, due |-> t]

(* Mutant: only new events are scanned.                                    *)
DeliverablePending(t) ==
    {k \in Keys : outbox[k].status = "PENDING" /\ outbox[k].due <= t}

(* Mutant: the scan forgets the attempt budget.                            *)
DeliverableUnbounded(t) ==
    {k \in Keys : /\ outbox[k].status \in {"PENDING", "FAILED"}
                  /\ outbox[k].due <= t
                  /\ outbox[k].lease <= t}

(* findDeliverable: what a scan at time t may return.                      *)
Deliverable(t) ==
    {k \in Keys : /\ outbox[k].status \in {"PENDING", "FAILED"}
                  /\ outbox[k].due <= t
                  /\ outbox[k].lease <= t
                  /\ outbox[k].count < MaxAttempts}

(* Mutants: a claim that does not look at the lease, at the status, or     *)
(* that never takes a FAILED event.                                        *)
ClaimableUnderLease(rec, t) ==
    /\ rec.status \in {"PENDING", "FAILED", "PROCESSING"}
    /\ rec.count < MaxAttempts

ClaimableAnyStatus(rec, t) ==
    /\ rec.status # "ABSENT"
    /\ rec.lease <= t
    /\ rec.count < MaxAttempts

ClaimableOnce(rec, t) ==
    /\ rec.status \in {"PENDING", "PROCESSING"}
    /\ rec.lease <= t

(* claim: what the store tests, and what it writes.                        *)
Claimable(rec, t) ==
    /\ rec.status \in {"PENDING", "FAILED", "PROCESSING"}
    /\ rec.lease <= t
    /\ rec.count < MaxAttempts

(* Mutant: the attempt is not counted.                                     *)
ClaimedUncounted(rec, p, token, t) ==
    [rec EXCEPT !.status = "PROCESSING", !.owner = p, !.token = token,
                !.lease = t + LeaseMs]

Claimed(rec, p, token, t) ==
    [rec EXCEPT !.status = "PROCESSING", !.owner = p, !.token = token,
                !.lease = t + LeaseMs, !.count = rec.count + 1]

(* Mutant: any publisher may settle a record in processing.                *)
OwnedByAnyone(rec, p, token, t) == rec.status = "PROCESSING"

(* The fence every later update of a publisher passes through.             *)
Owned(rec, p, token, t) ==
    /\ rec.status = "PROCESSING"
    /\ rec.owner = p
    /\ rec.token = token
    /\ rec.lease > t

-----------------------------------------------------------------------------
(* Processes.                                                              *)

Snapshots == [key : Keys, count : Nat, due : Nat]

OwnedCalls == {"heartbeat", "markDelivered", "markFailed", "markDeadLetter"}
PublisherPCs == {"idle", "claim", "publish"} \cup OwnedCalls

(* A publisher holds the scanned snapshots still to deliver, the clock     *)
(* reading of the whole batch, the event it is delivering (its key, the    *)
(* count the SCAN saw, the payload and token of its claim), the clock      *)
(* reading of its last store call and the retry date it has computed.      *)
Idle == [pc |-> "idle", batch |-> {}, batchNow |-> 0, key |-> NoOne, seen |-> 0,
         payload |-> NoOne, token |-> 0, callNow |-> 0, due |-> 0]

ProducerPCs == {"idle", "insert", "reload", "done"}
Results == {"none", "created", "duplicate", "conflict"}

NotStarted == [pc |-> "idle", key |-> NoOne, payload |-> NoOne, callNow |-> 0,
               result |-> "none"]

Messages == [key : Keys, payload : Payloads, token : Nat]

(* Every message a publisher has handed to its AMQP channel.               *)
Sent == broker \cup lost \cup UNION {channel[p] : p \in Publishers}

Init ==
    /\ now = 1
    /\ outbox = [k \in Keys |-> Absent]
    /\ tokens = [k \in Keys |-> 0]
    /\ producer = [r \in Producers |-> NotStarted]
    /\ publisher = [p \in Publishers |-> Idle]
    /\ channel = [p \in Publishers |-> {}]
    /\ broker = {}
    /\ lost = {}
    /\ faults = 0

-----------------------------------------------------------------------------
(* Producers: workflowOutboxPersistenceService.createOrGet.                *)

(* Mutant: an existing record always passes for a duplicate.               *)
CompareByKey(rec, payload) == "duplicate"

(* assertCompatibleExistingEvent: the key is deterministic, so only the    *)
(* payload fingerprint can differ.                                         *)
CompareWith(rec, payload) == IF rec.payload = payload THEN "duplicate" ELSE "conflict"

(* Look the key up; without a record, go on to insert one.                 *)
Find(r, k, payload) ==
    /\ producer[r].pc = "idle"
    /\ producer' = [producer EXCEPT ![r] =
         IF outbox[k].status = "ABSENT"
         THEN [NotStarted EXCEPT !.pc = "insert", !.key = k, !.payload = payload,
                                 !.callNow = now]
         ELSE [NotStarted EXCEPT !.pc = "done", !.key = k, !.payload = payload,
                                 !.result = CompareWith(outbox[k], payload)]]
    /\ UNCHANGED <<now, outbox, tokens, publisher, channel, broker, lost, faults>>

(* The unique index on the key lets one insert through; the other calls    *)
(* get a duplicate-key error and reload.                                   *)
Insert(r) ==
    LET me == producer[r] IN
    /\ me.pc = "insert"
    /\ \/ /\ outbox[me.key].status = "ABSENT"
          /\ outbox' = [outbox EXCEPT ![me.key] = NewRecord(me.payload, me.callNow)]
          /\ producer' = [producer EXCEPT ![r].pc = "done", ![r].result = "created"]
       \/ /\ outbox[me.key].status # "ABSENT"
          /\ producer' = [producer EXCEPT ![r].pc = "reload"]
          /\ UNCHANGED outbox
    /\ UNCHANGED <<now, tokens, publisher, channel, broker, lost, faults>>

Reload(r) ==
    LET me == producer[r] IN
    /\ me.pc = "reload"
    /\ producer' = [producer EXCEPT ![r].pc = "done",
                                    ![r].result = CompareWith(outbox[me.key], me.payload)]
    /\ UNCHANGED <<now, outbox, tokens, publisher, channel, broker, lost, faults>>

-----------------------------------------------------------------------------
(* Publishers: workflowOutboxWorker.processBatch and what it calls.        *)

(* processEvent swallows every error, and the loop takes the next snapshot *)
(* of the batch: the state of a publisher that is done with its event.     *)
NextEvent(me) ==
    IF me.batch = {} THEN Idle
    ELSE [Idle EXCEPT !.pc = "claim", !.batch = me.batch, !.batchNow = me.batchNow]

Goto(p, next) == publisher' = [publisher EXCEPT ![p] = next]

(* The snapshots a scan returns: at most BatchSize, those due first.       *)
Scans(t) ==
    {B \in SUBSET Deliverable(t) :
        /\ B # {}
        /\ Cardinality(B) <= BatchSize
        /\ \A a \in B : \A b \in Deliverable(t) \ B :
              /\ outbox[a].due <= outbox[b].due
              /\ Cardinality(B) = BatchSize}

(* One tick of the runtime's timer: read the clock once for the batch and  *)
(* scan. A scan that finds nothing changes nothing.                        *)
Scan(p) ==
    /\ publisher[p].pc = "idle"
    /\ \E B \in Scans(now) :
         Goto(p, [Idle EXCEPT
                    !.pc = "claim", !.batchNow = now,
                    !.batch = {[key |-> k, count |-> outbox[k].count,
                                due |-> outbox[k].due] : k \in B}])
    /\ UNCHANGED <<now, outbox, tokens, producer, channel, broker, lost, faults>>

(* The batch is processed in the order of the scan, which sorts by date.   *)
First(batch) == {s \in batch : \A other \in batch : s.due <= other.due}

(* The store hands event k to p under a fresh claim token.                 *)
Take(p, k, t) ==
    /\ tokens' = [tokens EXCEPT ![k] = @ + 1]
    /\ outbox' = [outbox EXCEPT ![k] = Claimed(outbox[k], p, tokens'[k], t)]

(* claim with the clock reading of the batch. A claimed event is routed at *)
(* once: without a route the error carries no outboxContext, so it is      *)
(* rethrown and swallowed, and the record stays as the claim left it.      *)
Claim(p) ==
    LET me == publisher[p] IN
    /\ me.pc = "claim"
    /\ \E s \in First(me.batch) :
         LET rec  == outbox[s.key]
             rest == [me EXCEPT !.batch = me.batch \ {s}]
         IN  \/ /\ Claimable(rec, me.batchNow)
                /\ Take(p, s.key, me.batchNow)
                /\ Goto(p, IF s.key \in Routed
                           THEN [rest EXCEPT !.pc = "heartbeat", !.key = s.key,
                                             !.seen = s.count, !.payload = rec.payload,
                                             !.token = tokens'[s.key],
                                             !.callNow = me.batchNow]
                           ELSE NextEvent(rest))
             \/ /\ ~ Claimable(rec, me.batchNow)
                /\ Goto(p, NextEvent(rest))
                /\ UNCHANGED <<outbox, tokens>>
    /\ UNCHANGED <<now, producer, channel, broker, lost, faults>>

(* What the store makes of a record in the owned call a publisher has      *)
(* pending.                                                                *)
Updated(rec, me) ==
    CASE me.pc = "heartbeat"      -> [rec EXCEPT !.lease = me.callNow + LeaseMs]
      [] me.pc = "markDelivered"  -> [rec EXCEPT !.status = "DELIVERED",
                                                 !.lease = me.callNow, !.due = 0]
      [] me.pc = "markFailed"     -> [rec EXCEPT !.status = "FAILED",
                                                 !.lease = me.callNow, !.due = me.due]
      [] me.pc = "markDeadLetter" -> [rec EXCEPT !.status = "DEAD_LETTER",
                                                 !.lease = me.callNow, !.due = 0]

HoldsFence(p) ==
    LET me == publisher[p] IN
    me.pc \in OwnedCalls /\ Owned(outbox[me.key], p, me.token, me.callNow)

ApplyOwned(p) ==
    LET me == publisher[p] IN
    outbox' = [outbox EXCEPT ![me.key] = Updated(outbox[me.key], me)]

(* The heartbeat before publication, with the batch's clock reading again. *)
Heartbeat(p) ==
    /\ publisher[p].pc = "heartbeat"
    /\ HoldsFence(p)
    /\ ApplyOwned(p)
    /\ Goto(p, [publisher[p] EXCEPT !.pc = "publish"])
    /\ UNCHANGED <<now, tokens, producer, channel, broker, lost, faults>>

(* markDelivered, markFailed or markDeadLetter goes through.               *)
Settle(p) ==
    /\ publisher[p].pc \in OwnedCalls \ {"heartbeat"}
    /\ HoldsFence(p)
    /\ ApplyOwned(p)
    /\ Goto(p, NextEvent(publisher[p]))
    /\ UNCHANGED <<now, tokens, producer, channel, broker, lost, faults>>

(* The fence refuses the update: OUTBOX_CLAIM_TOKEN_MISMATCH is thrown     *)
(* where no outboxContext is attached, and the event is given up.          *)
Rejected(p) ==
    /\ publisher[p].pc \in OwnedCalls
    /\ ~ HoldsFence(p)
    /\ Goto(p, NextEvent(publisher[p]))
    /\ UNCHANGED <<now, outbox, tokens, producer, channel, broker, lost, faults>>

MessageOf(me) == [key |-> me.key, payload |-> me.payload, token |-> me.token]

(* channel.publish: the message is in the client's buffer, no confirm is   *)
(* awaited, and the clock is read for markDelivered.                       *)
Publish(p) ==
    LET me == publisher[p] IN
    /\ me.pc = "publish"
    /\ me.payload \notin Malformed
    /\ channel' = [channel EXCEPT ![p] = @ \cup {MessageOf(me)}]
    /\ Goto(p, [me EXCEPT !.pc = "markDelivered", !.callNow = now])
    /\ UNCHANGED <<now, outbox, tokens, producer, broker, lost, faults>>

(* resolveAttemptCount: the count of the event object the SCAN returned,   *)
(* not of the claimed one.                                                 *)
AttemptOf(me) == IF me.seen >= 1 THEN me.seen ELSE 1

(* The states a publisher goes to once the retry policy has judged error.  *)
AfterFailure(me, error) ==
    IF Verdict(error, AttemptOf(me), MaxAttempts) = "retry"
    THEN {[me EXCEPT !.pc = "markFailed", !.callNow = now, !.due = d] :
              d \in {t \in now .. MaxNow : t - now \in Delays(AttemptOf(me))}}
    ELSE {[me EXCEPT !.pc = "markDeadLetter", !.callNow = now]}

(* The two ways publication fails. createStagePublisher flags every        *)
(* transport failure as retryable; the routing registry's refusal of a     *)
(* malformed job has neither a flag nor a code the policy knows.           *)
TransportError == [flag |-> "true", code |-> "transient"]
MalformedError == [flag |-> "unset", code |-> "unknown"]

(* The transport fails before the message is taken, or after (the write    *)
(* buffer does not drain in time).                                         *)
TransportFails(p) ==
    LET me == publisher[p] IN
    /\ me.pc = "publish"
    /\ me.payload \notin Malformed
    /\ \E next \in AfterFailure(me, TransportError) : Goto(p, next)
    /\ \/ UNCHANGED channel
       \/ channel' = [channel EXCEPT ![p] = @ \cup {MessageOf(me)}]
    /\ UNCHANGED <<now, outbox, tokens, producer, broker, lost, faults>>

RefuseMalformed(p) ==
    LET me == publisher[p] IN
    /\ me.pc = "publish"
    /\ me.payload \in Malformed
    /\ \E next \in AfterFailure(me, MalformedError) : Goto(p, next)
    /\ UNCHANGED <<now, outbox, tokens, producer, channel, broker, lost, faults>>

-----------------------------------------------------------------------------
(* The environment.                                                        *)

(* The client's buffer reaches the broker.                                 *)
Flush(p) ==
    /\ channel[p] # {}
    /\ broker' = broker \cup channel[p]
    /\ channel' = [channel EXCEPT ![p] = {}]
    /\ UNCHANGED <<now, outbox, tokens, producer, publisher, lost, faults>>

Tick ==
    /\ now < MaxNow
    /\ now' = now + 1
    /\ UNCHANGED <<outbox, tokens, producer, publisher, channel, broker, lost, faults>>

DropBuffer(p) ==
    /\ lost' = lost \cup channel[p]
    /\ channel' = [channel EXCEPT ![p] = {}]

Fault == faults < MaxFaults /\ faults' = faults + 1

(* A store call of a publisher errors, after or before it took effect.     *)
StoreFails(p) ==
    LET me == publisher[p] IN
    /\ Fault
    /\ \/ /\ me.pc = "claim"
          /\ \E s \in First(me.batch) :
               /\ Goto(p, NextEvent([me EXCEPT !.batch = me.batch \ {s}]))
               /\ \/ UNCHANGED <<outbox, tokens>>
                  \/ /\ Claimable(outbox[s.key], me.batchNow)
                     /\ Take(p, s.key, me.batchNow)
       \/ /\ me.pc \in OwnedCalls
          /\ Goto(p, NextEvent(me))
          /\ \/ UNCHANGED outbox
             \/ HoldsFence(p) /\ ApplyOwned(p)
          /\ UNCHANGED tokens
    /\ UNCHANGED <<now, producer, channel, broker, lost>>

ConnectionLost(p) ==
    /\ Fault
    /\ channel[p] # {}
    /\ DropBuffer(p)
    /\ UNCHANGED <<now, outbox, tokens, producer, publisher, broker>>

(* The process dies; its worker starts again with nothing in memory.       *)
Crash(p) ==
    /\ Fault
    /\ publisher[p] # Idle
    /\ Goto(p, Idle)
    /\ DropBuffer(p)
    /\ UNCHANGED <<now, outbox, tokens, producer, broker>>

-----------------------------------------------------------------------------

ProducerStep(r) ==
    \/ \E k \in Keys, payload \in Payloads : Find(r, k, payload)
    \/ Insert(r)
    \/ Reload(r)

PublisherStep(p) ==
    \/ Scan(p)
    \/ Claim(p)
    \/ Heartbeat(p)
    \/ Publish(p)
    \/ TransportFails(p)
    \/ RefuseMalformed(p)
    \/ Settle(p)
    \/ Rejected(p)

Environment ==
    \/ Tick
    \/ \E p \in Publishers : Flush(p) \/ StoreFails(p) \/ ConnectionLost(p) \/ Crash(p)

Next ==
    \/ \E r \in Producers : ProducerStep(r)
    \/ \E p \in Publishers : PublisherStep(p)
    \/ Environment

Spec == Init /\ [][Next]_vars

(* The runtime's timer keeps calling the worker and every await settles;   *)
(* time passes; the socket is written. Faults are never owed.              *)
Fairness ==
    /\ \A r \in Producers : WF_vars(Insert(r) \/ Reload(r))
    /\ \A p \in Publishers : WF_vars(PublisherStep(p))
    /\ \A p \in Publishers : WF_vars(Flush(p))
    /\ WF_vars(Tick)

FairSpec == Spec /\ Fairness

-----------------------------------------------------------------------------
(* Invariants.                                                             *)

Records == [status : Statuses, payload : Payloads \cup {NoOne},
            owner : Publishers \cup {NoOne}, token : Nat, lease : Nat,
            count : Nat, due : Nat]

Calls == [pc : ProducerPCs, key : Keys \cup {NoOne}, payload : Payloads \cup {NoOne},
          callNow : Nat, result : Results]

Workers == [pc : PublisherPCs, batch : SUBSET Snapshots, batchNow : Nat,
            key : Keys \cup {NoOne}, seen : Nat, payload : Payloads \cup {NoOne},
            token : Nat, callNow : Nat, due : Nat]

(* Type correctness: what each variable may hold.                          *)
TypeOK ==
    /\ now \in Nat
    /\ outbox \in [Keys -> Records]
    /\ tokens \in [Keys -> Nat]
    /\ producer \in [Producers -> Calls]
    /\ publisher \in [Publishers -> Workers]
    /\ channel \in [Publishers -> SUBSET Messages]
    /\ broker \in SUBSET Messages
    /\ lost \in SUBSET Messages
    /\ faults \in Nat

(* Publisher p is delivering an event, and by its own clock reading its    *)
(* lease has not run out.                                                  *)
Delivering(p) == publisher[p].pc \in OwnedCalls \cup {"publish"}
LeaseRuns(p) == Delivering(p) /\ publisher[p].batchNow + LeaseMs > now

(* Lease exclusivity: as long as the lease a publisher computed for itself *)
(* runs, no other publisher has taken its event over, although claims are  *)
(* made with the stale clock reading of a whole batch. (claim)             *)
LeaseExclusive ==
    \A p \in Publishers : LeaseRuns(p) =>
        /\ outbox[publisher[p].key].status = "PROCESSING"
        /\ outbox[publisher[p].key].owner = p
        /\ outbox[publisher[p].key].token = publisher[p].token

(* A DELIVERED record was published, with the recorded payload, under the  *)
(* very claim that settled it: no publisher marks an event it has not      *)
(* published, and none settles another's claim. (dispatchClaimed)          *)
DeliveredWasPublished ==
    \A k \in Keys : outbox[k].status = "DELIVERED" =>
        [key |-> k, payload |-> outbox[k].payload, token |-> outbox[k].token] \in Sent

(* Each publication has spent an attempt of its own: however crashes,      *)
(* takeovers and ambiguous failures interleave, an event is never sent     *)
(* more often than it was claimed, nor than its budget allows. (claim)     *)
PublicationsWithinBudget ==
    \A k \in Keys :
        /\ Cardinality({m \in Sent : m.key = k}) <= outbox[k].count
        /\ outbox[k].count <= MaxAttempts

(* Two createOrGet calls that race on a key agree: at most one creates the *)
(* record, every call told "created" or "duplicate" asked for the payload  *)
(* the record has, and nothing else is ever sent for the key.              *)
CreationAgrees ==
    \A r \in Producers : producer[r].pc = "done" =>
        LET k == producer[r].key IN
        /\ outbox[k].status # "ABSENT"
        /\ producer[r].result # "conflict" <=> producer[r].payload = outbox[k].payload
        /\ producer[r].result = "created" =>
             \A other \in Producers \ {r} :
                 producer[other].key = k => producer[other].result # "created"
        /\ \A m \in Sent : m.key = k => m.payload = outbox[k].payload

(* Action property: a DELIVERED or DEAD_LETTER record never changes again, *)
(* whichever stale publisher wakes up.                                     *)
TerminalIsFinal ==
    [][\A k \in Keys : outbox[k].status \in Terminal => outbox'[k] = outbox[k]]_vars

(* The inductive invariant behind the ones above.                          *)

(* A started call has a key and a payload, and past its search it has a    *)
(* record to compare with.                                                 *)
CallsNamed ==
    \A r \in Producers : producer[r].pc # "idle" =>
        /\ producer[r].key \in Keys
        /\ producer[r].payload \in Payloads
        /\ producer[r].pc # "insert" => outbox[producer[r].key].status # "ABSENT"

(* The store has given away exactly one token per attempt, and the record  *)
(* carries the latest.                                                     *)
AttemptsCounted ==
    \A k \in Keys :
        /\ outbox[k].token = tokens[k]
        /\ outbox[k].count = tokens[k]
        /\ tokens[k] <= MaxAttempts
        /\ IF outbox[k].status = "ABSENT" THEN outbox[k] = Absent
                                         ELSE outbox[k].payload \in Payloads

(* A publisher that is delivering an event either has its latest token --  *)
(* then the record is in its hands, under the lease it computed -- or an   *)
(* older one, and then that lease has run out.                             *)
Fenced(p) ==
    LET me == publisher[p] IN
    /\ me.batchNow <= now
    /\ Delivering(p) =>
         /\ me.key \in Keys
         /\ me.payload \in Payloads
         /\ me.payload = outbox[me.key].payload
         /\ me.token \in 1 .. tokens[me.key]
         /\ me.token = tokens[me.key] =>
               /\ outbox[me.key].status = "PROCESSING"
               /\ outbox[me.key].owner = p
               /\ outbox[me.key].lease = me.batchNow + LeaseMs
         /\ me.token < tokens[me.key] => me.batchNow + LeaseMs <= now
         /\ me.pc = "heartbeat" => me.callNow = me.batchNow

(* A publisher about to report success has published.                      *)
Published(p) == publisher[p].pc = "markDelivered" => MessageOf(publisher[p]) \in Sent

(* A message is a faithful copy of its record, sent under one of its claims.*)
MessagesFaithful ==
    \A m \in Sent : /\ m.payload = outbox[m.key].payload
                    /\ m.token \in 1 .. tokens[m.key]

(* What every step preserves: ownership, attempts and publications agree.  *)
(* (claim, heartbeat, markDelivered, markFailed, markDeadLetter)           *)
OutboxInv ==
    /\ TypeOK
    /\ CallsNamed
    /\ AttemptsCounted
    /\ \A p \in Publishers : Fenced(p) /\ Published(p)
    /\ MessagesFaithful
    /\ DeliveredWasPublished

-----------------------------------------------------------------------------
(* Refinement. The outbox implements the handoff a stage relies on.        *)

Outcome(status) ==
    CASE status = "DELIVERED"   -> "delivered"
      [] status = "DEAD_LETTER" -> "dead"
      [] OTHER                  -> "open"

Handoff == INSTANCE WorkflowHandoff WITH
    intent  <- [k \in Keys |-> outbox[k].payload],
    outcome <- [k \in Keys |-> Outcome(outbox[k].status)],
    sent    <- Sent

(* Every step of the outbox is a step of the abstract handoff or a stutter:*)
(* no lost answer, crash or takeover shows through to a stage except as a  *)
(* repeated transmission. (createOrGet, deliver)                           *)
ImplementsHandoff == Handoff!Spec

(* Refinement. Each event is claimed under a fence.                        *)

HasClaim(p, k) ==
    /\ Delivering(p)
    /\ publisher[p].key = k
    /\ publisher[p].token = outbox[k].token

Phase(status) ==
    CASE status = "PROCESSING" -> "claimed"
      [] status \in Terminal   -> "closed"
      [] OTHER                 -> "open"

Event(k) == INSTANCE FencedClaim WITH
    Holders <- Publishers,
    phase   <- Phase(outbox[k].status),
    holders <- {p \in Publishers : HasClaim(p, k)},
    lapsed  <- outbox[k].status = "PROCESSING" /\ outbox[k].lease <= now

(* Every step does to each event's claim what the fence allows, however    *)
(* stale the publishers' clock readings are: no two publishers have it in  *)
(* hand, only the one that has it settles it, none takes it under a lease  *)
(* that runs, and nobody claims it again once settled for good. (claim,    *)
(* heartbeat, markDelivered, markFailed, markDeadLetter)                   *)
ImplementsClaim ==
    /\ \A k \in Keys : Event(k)!Init
    /\ [][\A k \in Keys : [Event(k)!Next]_(Event(k)!vars)]_vars

-----------------------------------------------------------------------------
(* Progress.                                                               *)

Exhausted(k) == outbox[k].status = "FAILED" /\ outbox[k].count = MaxAttempts

(* The record says PROCESSING but no publisher has its claim in hand.      *)
Abandoned(k) ==
    /\ outbox[k].status = "PROCESSING"
    /\ \A p \in Publishers : ~ HasClaim(p, k)

(* Every recorded event settles: in the end it is delivered, dead-lettered,*)
(* out of attempts, or left behind by a claim nobody pursues. (tick)       *)
EventsSettle ==
    \A k \in Keys : outbox[k].status # "ABSENT" ~>
        \/ outbox[k].status \in Terminal
        \/ Exhausted(k)
        \/ Abandoned(k)

(* A retryable failure is tried again: a FAILED event with budget left is  *)
(* claimed once more. (findDeliverable)                                    *)
FailedIsRetried ==
    \A k \in Keys : \A n \in 1 .. MaxAttempts - 1 :
        outbox[k].status = "FAILED" /\ outbox[k].count = n ~> outbox[k].count > n

(* No starvation: a recorded event is claimed at least once, however many  *)
(* failing, exhausted or unroutable events compete for the places of a     *)
(* scan. (findDeliverable)                                                 *)
PendingIsClaimed ==
    \A k \in Keys : outbox[k].status = "PENDING" ~> outbox[k].count > 0
=============================================================================
