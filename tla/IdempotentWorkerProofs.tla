----------------------- MODULE IdempotentWorkerProofs -----------------------
(***************************************************************************)
(* Theorems about the idempotent worker, for every set of runs, processes  *)
(* and fingerprints, every lease and every bound. WorkerInv is inductive   *)
(* as it stands; the other results follow from it.                         *)
(*                                                                         *)
(* Every action but Tick and Crash changes one run and perhaps the record. *)
(* RunOK is what WorkerInv says of one run, Follows what every accepted    *)
(* store call keeps of the record, and Frame that a step between two such  *)
(* states preserves WorkerInv; each action then has to show no more than   *)
(* what it does to its own run and to the record.                          *)
(***************************************************************************)
EXTENDS IdempotentWorker, TLAPS

(* The part of WorkerInv that speaks of one run.                           *)
RunOK(me, rec, t) ==
    /\ me.callNow <= t
    /\ me.token <= rec.token
    /\ me.pc \in {"idle", "crashed"} \cup Claiming => me.token = 0
    /\ me.pc \in Claiming => me.print \in Prints
    /\ me.pc \in Holding => me.token > 0
    /\ me.outcome # "none" => me.pc = "done"
    /\ me.outcome = "EXECUTED" => me.result = me.token /\ me.token > 0
    /\ me.outcome \in {"EXECUTED", "DUPLICATE_COMPLETED"} =>
          rec.status = "COMPLETED" /\ me.result = rec.result
    /\ me.pc \in {"reclaim", "retry"} \cup Holding => me.print = rec.print

(* The part that speaks of the record.                                     *)
RecordOK(rec) ==
    /\ rec \in Records
    /\ rec.status = "ABSENT" <=> rec.token = 0
    /\ rec.status = "ABSENT" => rec = Absent
    /\ rec.status = "COMPLETED" => rec.result = rec.token

(* How the record may change.                                              *)
Follows(old, new) ==
    /\ old.token <= new.token
    /\ old.status = "COMPLETED" => new = old
    /\ old.status # "ABSENT" => new.print = old.print

(* WorkerInv, taken apart.                                                 *)
LEMMA Parts ==
    WorkerInv <=>
       /\ now \in Nat
       /\ RecordOK(record)
       /\ run \in [Runs -> RunStates]
       /\ faults \in 0..MaxFaults
       /\ \A r \in Runs : RunOK(run[r], record, now)
       /\ \A r, s \in Runs : run[r].token = run[s].token /\ run[r].token > 0 => r = s
BY DEF WorkerInv, TypeOK, ReadingsArePast, TokensAreUnique, TokensAreHeld, RecordIsSound,
       OutcomesAreSound, ReturnedIsRecorded, SamePayload, RunOK, RecordOK

(* A run that does nothing keeps what is said of it.                       *)
LEMMA Others ==
    ASSUME WorkerAssumption,
           NEW me \in RunStates, NEW old, NEW new, NEW t,
           RecordOK(old), RecordOK(new), Follows(old, new), RunOK(me, old, t)
    PROVE  RunOK(me, new, t)
<1>1. old \in Records /\ new \in Records
  BY DEF RecordOK
<1>2. me.token <= new.token
  BY <1>1 DEF RunOK, Follows, Records, RunStates
<1>3. ASSUME me.pc \in {"reclaim", "retry"} \cup Holding
      PROVE  me.print = new.print
  <2>1. old.status # "ABSENT"
    <3>1. CASE me.pc \in Holding
      BY <3>1, <1>1 DEF RunOK, RecordOK, Records, RunStates
    <3>2. CASE me.pc \in {"reclaim", "retry"}
      <4>1. me.print \in Prints /\ me.print = old.print
        BY <3>2 DEF RunOK, Claiming
      <4>. QED BY <4>1 DEF RecordOK, Absent, WorkerAssumption
    <3>. QED BY <1>3, <3>1, <3>2
  <2>. QED BY <2>1, <1>3 DEF RunOK, Follows
<1>. QED
  BY <1>2, <1>3 DEF RunOK, Follows

(* A step of one run.                                                      *)
LEMMA Frame ==
    ASSUME WorkerAssumption, WorkerInv,
           NEW r \in Runs, NEW next \in RunStates,
           run' = [run EXCEPT ![r] = next],
           now' = now,
           faults' \in 0..MaxFaults,
           RecordOK(record'), Follows(record, record'),
           RunOK(next, record', now),
           next.token = 0 \/ next.token = run[r].token \/ next.token > record.token
    PROVE  WorkerInv'
<1>. USE Parts
<1>1. run' \in [Runs -> RunStates]
  OBVIOUS
<1>2. \A s \in Runs : RunOK(run'[s], record', now')
  <2>. SUFFICES ASSUME NEW s \in Runs PROVE RunOK(run'[s], record', now)
    OBVIOUS
  <2>1. CASE s = r
    BY <2>1
  <2>2. CASE s # r
    BY <2>2, Others
  <2>. QED BY <2>1, <2>2
<1>3. \A q, s \in Runs : run'[q].token = run'[s].token /\ run'[q].token > 0 => q = s
  <2>. SUFFICES ASSUME NEW q \in Runs, NEW s \in Runs, q # s,
                       run'[q].token = run'[s].token, run'[q].token > 0
                PROVE  FALSE
    OBVIOUS
  <2>1. \A x \in Runs : run[x].token \in Nat /\ run[x].token <= record.token
    BY DEF RunOK, RunStates
  <2>2. record.token \in Nat /\ next.token \in Nat
    BY DEF RecordOK, Records, RunStates
  <2>3. CASE q = r
    BY <2>1, <2>2, <2>3
  <2>4. CASE s = r
    BY <2>1, <2>2, <2>4
  <2>5. CASE q # r /\ s # r
    BY <2>5
  <2>. QED BY <2>3, <2>4, <2>5
<1>4. now' \in Nat
  OBVIOUS
<1>. QED
  BY <1>1, <1>2, <1>3, <1>4 DEF WorkerInv, TypeOK, ReadingsArePast, TokensAreUnique,
     TokensAreHeld, RecordIsSound, OutcomesAreSound, ReturnedIsRecorded, SamePayload,
     RunOK, RecordOK

-----------------------------------------------------------------------------
(* What an accepted store call makes of the record.                        *)

LEMMA InsertedRecord ==
    ASSUME WorkerAssumption, NEW p \in Processes, NEW print \in Prints, NEW t \in Nat
    PROVE  /\ RecordOK(Inserted(p, print, t)) /\ Follows(Absent, Inserted(p, print, t))
           /\ Inserted(p, print, t).token = 1 /\ Inserted(p, print, t).print = print
<1>. DEFINE new == Inserted(p, print, t)
<1>1. new = [status |-> "PROCESSING", owner |-> p, token |-> 1, print |-> print,
             lease |-> t + LeaseMs, retryable |-> FALSE, result |-> 0]
  BY DEF Inserted
<1>2. t + LeaseMs \in Nat
  BY DEF WorkerAssumption
<1>3. new \in Records
  BY <1>1, <1>2 DEF Records
<1>4. new.status = "PROCESSING" /\ new.token = 1 /\ new.print = print
  BY <1>1
<1>5. Absent.token = 0 /\ Absent.status = "ABSENT"
  BY DEF Absent
<1>. HIDE DEF new
<1>6. RecordOK(new) /\ Follows(Absent, new)
  BY <1>3, <1>4, <1>5 DEF RecordOK, Follows
<1>. QED BY <1>4, <1>6 DEF new

LEMMA TakenRecord ==
    ASSUME WorkerAssumption, NEW rec, RecordOK(rec), NEW p \in Processes, NEW t \in Nat,
           rec.status \in {"PROCESSING", "FAILED"}
    PROVE  /\ RecordOK(Taken(rec, p, t)) /\ Follows(rec, Taken(rec, p, t))
           /\ Taken(rec, p, t).token > rec.token /\ Taken(rec, p, t).print = rec.print
<1>. DEFINE new == Taken(rec, p, t)
<1>1. rec \in Records /\ t + LeaseMs \in Nat
  BY DEF RecordOK, WorkerAssumption
<1>2. new \in Records
  BY <1>1 DEF Taken, Records
<1>3. /\ new.status = "PROCESSING" /\ new.token = rec.token + 1
      /\ new.print = rec.print
  BY <1>1 DEF Taken, Records
<1>4. rec.token \in Nat /\ rec.token + 1 # 0 /\ rec.token + 1 > rec.token
  BY <1>1 DEF Records
<1>. HIDE DEF new
<1>5. RecordOK(new)
  BY <1>2, <1>3, <1>4 DEF RecordOK
<1>6. Follows(rec, new)
  BY <1>3, <1>4 DEF Follows
<1>. QED BY <1>3, <1>4, <1>5, <1>6 DEF new

LEMMA EndedRecord ==
    ASSUME NEW rec, RecordOK(rec), rec.status = "PROCESSING", NEW retryable \in BOOLEAN
    PROVE  /\ RecordOK(Completed(rec, rec.token)) /\ Follows(rec, Completed(rec, rec.token))
           /\ RecordOK(Failed(rec, retryable)) /\ Follows(rec, Failed(rec, retryable))
           /\ Completed(rec, rec.token).token = rec.token
           /\ Completed(rec, rec.token).status = "COMPLETED"
           /\ Completed(rec, rec.token).result = rec.token
           /\ Completed(rec, rec.token).print = rec.print
           /\ Failed(rec, retryable).token = rec.token
           /\ Failed(rec, retryable).print = rec.print
<1>. DEFINE done == Completed(rec, rec.token)
            failed == Failed(rec, retryable)
<1>1. rec \in Records /\ rec.token \in Nat /\ rec.token # 0
  BY DEF RecordOK, Records
<1>2. done \in Records /\ failed \in Records
  BY <1>1 DEF Completed, Failed, Records, NoLease
<1>3. /\ done.status = "COMPLETED" /\ done.token = rec.token /\ done.result = rec.token
      /\ done.print = rec.print
  BY <1>1 DEF Completed, Records
<1>4. failed.status = "FAILED" /\ failed.token = rec.token /\ failed.print = rec.print
  BY <1>1 DEF Failed, Records
<1>. HIDE DEF done, failed
<1>5. RecordOK(done) /\ Follows(rec, done)
  BY <1>1, <1>2, <1>3 DEF RecordOK, Follows
<1>6. RecordOK(failed) /\ Follows(rec, failed)
  BY <1>1, <1>2, <1>4 DEF RecordOK, Follows
<1>. QED BY <1>3, <1>4, <1>5, <1>6 DEF done, failed

LEMMA StoredClaim ==
    ASSUME WorkerAssumption, WorkerInv, NEW r \in Runs,
           run[r].pc \in Claiming, Accepts(r)
    PROVE  /\ RecordOK(Stored(r)) /\ Follows(record, Stored(r))
           /\ Stored(r).token > record.token
           /\ Stored(r).print = run[r].print
<1>. DEFINE me == run[r]
<1>1. /\ RecordOK(record) /\ record \in Records
      /\ RunOK(me, record, now) /\ me \in RunStates /\ me.print \in Prints
  BY Parts DEF RunOK, RecordOK
<1>2. ProcessOf[r] \in Processes /\ me.callNow + LeaseMs \in Nat
  BY <1>1 DEF WorkerAssumption, RunStates
<1>3. CASE me.pc = "insert"
  <2>1. Stored(r) = Inserted(ProcessOf[r], me.print, me.callNow)
    BY <1>3 DEF Stored
  <2>2. record.status = "ABSENT" /\ record = Absent
    BY <1>3, <1>1 DEF Accepts, RecordOK
  <2>3. me.callNow \in Nat /\ record.token = 0
    BY <2>2, <1>1 DEF RunStates, Absent
  <2>. QED BY <2>1, <2>2, <2>3, <1>1, <1>2, InsertedRecord
<1>4. CASE me.pc \in {"reclaim", "retry"}
  <2>1. Stored(r) = Taken(record, ProcessOf[r], me.callNow)
    BY <1>4 DEF Stored
  <2>2. record.status \in {"PROCESSING", "FAILED"}
    BY <1>4 DEF Accepts, Reclaimable, Retriable
  <2>3. me.print = record.print
    BY <1>1, <1>4 DEF RunOK
  <2>4. me.callNow \in Nat
    BY <1>1 DEF RunStates
  <2>. QED BY <2>1, <2>2, <2>3, <2>4, <1>1, <1>2, TakenRecord
<1>5. me.pc # "find"
  BY DEF Accepts
<1>. QED BY <1>3, <1>4, <1>5 DEF Claiming

LEMMA StoredEnd ==
    ASSUME WorkerAssumption, WorkerInv, NEW r \in Runs,
           run[r].pc \in {"complete", "fail"}, Accepts(r)
    PROVE  /\ RecordOK(Stored(r)) /\ Follows(record, Stored(r))
           /\ Stored(r).token = record.token /\ run[r].token = record.token
           /\ Stored(r).print = record.print
           /\ run[r].pc = "complete" => Stored(r).status = "COMPLETED" /\ Stored(r).result = run[r].token
<1>. DEFINE me == run[r]
<1>1. /\ RecordOK(record) /\ record \in Records
      /\ RunOK(me, record, now) /\ me \in RunStates
  BY Parts DEF RecordOK
<1>2. Owned(record, ProcessOf[r], me.token)
  BY DEF Accepts
<1>3. CASE me.pc = "complete"
  <2>1. Stored(r) = Completed(record, me.token)
    BY <1>3 DEF Stored
  <2>2. record.status = "PROCESSING" /\ me.token = record.token
    BY <1>2 DEF Owned
  <2>. QED BY <2>1, <2>2, <1>1, EndedRecord
<1>4. CASE me.pc = "fail"
  <2>1. Stored(r) = Failed(record, me.error = "transient")
    BY <1>4 DEF Stored
  <2>2. (me.error = "transient") \in BOOLEAN
    OBVIOUS
  <2>3. record.status = "PROCESSING" /\ me.token = record.token
    BY <1>2 DEF Owned
  <2>. QED BY <2>1, <2>2, <2>3, <1>1, <1>4, EndedRecord
<1>. QED BY <1>3, <1>4

LEMMA StoredBeat ==
    ASSUME WorkerAssumption, WorkerInv, NEW r \in Runs,
           NEW beat \in Nat, Owned(record, ProcessOf[r], run[r].token)
    PROVE  /\ RecordOK(Renewed(beat)) /\ Follows(record, Renewed(beat))
           /\ Renewed(beat).token = record.token /\ Renewed(beat).print = record.print
<1>1. RecordOK(record) /\ record \in Records
  BY Parts DEF RecordOK
<1>2. beat + LeaseMs \in Nat
  BY DEF WorkerAssumption
<1>. QED
  BY <1>1, <1>2 DEF Owned, Renewed, RecordOK, Records, Follows

LEMMA SameRecord == WorkerInv => RecordOK(record) /\ Follows(record, record)
BY Parts DEF RecordOK, Records, Follows

-----------------------------------------------------------------------------
(* The actions.                                                            *)

(* What holds before every step of one run.                                *)
LEMMA Before ==
    ASSUME WorkerInv, NEW r \in Runs
    PROVE  /\ run[r] \in RunStates /\ RunOK(run[r], record, now)
           /\ RecordOK(record) /\ Follows(record, record) /\ record \in Records
           /\ run \in [Runs -> RunStates] /\ now \in Nat /\ faults \in 0..MaxFaults
BY Parts, SameRecord DEF RecordOK

(* A run that returns from outside the claim, or gives its claim up.       *)
LEMMA ReturnOK ==
    ASSUME WorkerInv, NEW r \in Runs, NEW outcome \in Outcomes \ {"EXECUTED", "DUPLICATE_COMPLETED"},
           NEW rec, RecordOK(rec), RunOK(run[r], rec, now)
    PROVE  LET next == [run[r] EXCEPT !.pc = "done", !.outcome = outcome]
           IN  next \in RunStates /\ RunOK(next, rec, now) /\ next.token = run[r].token
<1>. DEFINE next == [run[r] EXCEPT !.pc = "done", !.outcome = outcome]
<1>1. run[r] \in RunStates
  BY Before
<1>2. next \in RunStates
  BY <1>1 DEF RunStates, PCs, Ended
<1>3. /\ next.pc = "done" /\ next.outcome = outcome /\ next.token = run[r].token
      /\ next.callNow = run[r].callNow
  BY <1>1 DEF RunStates
<1>. HIDE DEF next
<1>4. RunOK(next, rec, now)
  BY <1>3 DEF RunOK, Claiming, Holding
<1>. QED BY <1>2, <1>3, <1>4 DEF next

LEMMA IdleState ==
    /\ Idle \in RunStates
    /\ Idle.pc = "idle" /\ Idle.callNow = 0 /\ Idle.token = 0
    /\ Idle.outcome = "none"
BY DEF Idle, RunStates, PCs, Errors, Outcomes, NoBeat

LEMMA StartOK ==
    ASSUME WorkerAssumption, WorkerInv, NEW r \in Runs, NEW print \in Prints, Start(r, print)
    PROVE  WorkerInv'
<1>. DEFINE next == [Idle EXCEPT !.pc = "insert", !.print = print, !.callNow = now]
<1>1. /\ run' = [run EXCEPT ![r] = next] /\ now' = now /\ faults' = faults /\ record' = record
  BY DEF Start, Go
<1>2. /\ next.pc = "insert" /\ next.print = print /\ next.callNow = now
      /\ next.token = 0 /\ next.outcome = "none"
  BY IdleState DEF RunStates
<1>3. next \in RunStates
  BY IdleState, Before DEF RunStates, PCs, Claiming
<1>. HIDE DEF next
<1>4. RunOK(next, record, now)
  BY <1>2, Before DEF RunOK, Claiming, Holding, Records
<1>. QED BY <1>1, <1>2, <1>3, <1>4, Before, Frame

(* A claim is acquired, with or without an answer.                         *)
LEMMA AcquiredOK ==
    ASSUME WorkerAssumption, WorkerInv, NEW r \in Runs, run[r].pc \in Claiming,
           Acquired(r), now' = now, faults' = faults
    PROVE  WorkerInv'
<1>. DEFINE me == run[r]
            next == [run[r] EXCEPT !.pc = "handler", !.token = record'.token]
<1>1. /\ run' = [run EXCEPT ![r] = next] /\ record' = Stored(r) /\ Accepts(r)
  BY DEF Acquired, Go
<1>2. /\ RecordOK(record') /\ Follows(record, record')
      /\ record'.token > record.token /\ record'.print = me.print
  BY <1>1, StoredClaim
<1>3. me \in RunStates /\ RunOK(me, record, now)
  BY Before
<1>4. record'.token \in Nat /\ record'.token > 0
  BY <1>2, Before DEF RecordOK, Records
<1>5. next \in RunStates
  BY <1>3, <1>4 DEF RunStates, PCs, Holding
<1>6. /\ next.pc = "handler" /\ next.token = record'.token /\ next.print = me.print
      /\ next.callNow = me.callNow /\ next.outcome = me.outcome
  BY <1>3 DEF RunStates
<1>7. me.outcome = "none"
  BY <1>3 DEF RunOK, Claiming
<1>. HIDE DEF next
<1>8. RunOK(next, record', now)
  BY <1>2, <1>3, <1>4, <1>6, <1>7 DEF RunOK, Claiming, Holding
<1>. QED BY <1>1, <1>2, <1>5, <1>6, <1>8, Before, Frame

LEMMA InsertOK ==
    ASSUME WorkerAssumption, WorkerInv, NEW r \in Runs, Insert(r)
    PROVE  WorkerInv'
<1>. DEFINE next == [run[r] EXCEPT !.pc = "find"]
<1>1. CASE Acquired(r)
  BY <1>1, AcquiredOK DEF Insert, Claiming
<1>2. CASE run' = [run EXCEPT ![r] = next] /\ record' = record
  <2>1. run[r] \in RunStates /\ RunOK(run[r], record, now) /\ run[r].pc = "insert"
    BY Before DEF Insert
  <2>2. next \in RunStates
    BY <2>1 DEF RunStates, PCs, Claiming
  <2>3. /\ next.pc = "find" /\ next.token = run[r].token /\ next.print = run[r].print
        /\ next.callNow = run[r].callNow
        /\ next.outcome = run[r].outcome
    BY <2>1 DEF RunStates
  <2>. HIDE DEF next
  <2>4. RunOK(next, record, now)
    BY <2>1, <2>3 DEF RunOK, Claiming, Holding
  <2>. QED BY <1>2, <2>2, <2>3, <2>4, Before, Frame DEF Insert
<1>. QED BY <1>1, <1>2 DEF Insert, Go

LEMMA FindOK ==
    ASSUME WorkerAssumption, WorkerInv, NEW r \in Runs, Find(r)
    PROVE  WorkerInv'
<1>. DEFINE me == run[r]
            next == Resolved(me)
<1>1. /\ run' = [run EXCEPT ![r] = next] /\ record' = record /\ me.pc = "find"
      /\ now' = now /\ faults' = faults
  BY DEF Find, Go
<1>2. me \in RunStates /\ RunOK(me, record, now) /\ record \in Records
  BY Before
<1>3. ASSUME ~ Mismatched(record, me.print), NEW pc \in {"reclaim", "retry"},
             next = [me EXCEPT !.pc = pc]
      PROVE  next \in RunStates /\ RunOK(next, record, now) /\ next.token = me.token
  <2>1. next \in RunStates
    BY <1>2, <1>3 DEF RunStates, PCs, Claiming
  <2>2. /\ next.pc = pc /\ next.token = me.token /\ next.print = me.print
        /\ next.callNow = me.callNow /\ next.outcome = me.outcome
    BY <1>2, <1>3 DEF RunStates
  <2>3. me.print = record.print
    BY <1>3 DEF Mismatched
  <2>. HIDE DEF next
  <2>. QED BY <1>1, <1>2, <2>1, <2>2, <2>3 DEF RunOK, Claiming, Holding
<1>4. ASSUME NEW outcome \in {"REJECTED", "DUPLICATE_PROCESSING"},
             next = [me EXCEPT !.pc = "done", !.outcome = outcome]
      PROVE  next \in RunStates /\ RunOK(next, record, now) /\ next.token = me.token
  <2>1. outcome \in Outcomes \ {"EXECUTED", "DUPLICATE_COMPLETED"}
    BY DEF Outcomes
  <2>. DEFINE out == [me EXCEPT !.pc = "done", !.outcome = outcome]
  <2>2. out \in RunStates /\ RunOK(out, record, now) /\ out.token = me.token
    BY <1>2, <2>1, Before, ReturnOK
  <2>. HIDE DEF next, out
  <2>3. next = out
    BY <1>4 DEF out
  <2>. QED BY <2>2, <2>3
<1>5. ASSUME record.status = "COMPLETED",
             next = [me EXCEPT !.pc = "done", !.outcome = "DUPLICATE_COMPLETED",
                               !.result = record.result]
      PROVE  next \in RunStates /\ RunOK(next, record, now) /\ next.token = me.token
  <2>1. next \in RunStates
    BY <1>2, <1>5 DEF RunStates, PCs, Ended, Outcomes, Records
  <2>2. /\ next.pc = "done" /\ next.token = me.token /\ next.result = record.result
        /\ next.callNow = me.callNow
        /\ next.outcome = "DUPLICATE_COMPLETED"
    BY <1>2, <1>5 DEF RunStates
  <2>. HIDE DEF next
  <2>. QED BY <1>2, <1>5, <2>1, <2>2 DEF RunOK, Claiming, Holding
<1>6. \/ \E pc \in {"reclaim", "retry"} :
            ~ Mismatched(record, me.print) /\ next = [me EXCEPT !.pc = pc]
      \/ \E outcome \in {"REJECTED", "DUPLICATE_PROCESSING"} :
            next = [me EXCEPT !.pc = "done", !.outcome = outcome]
      \/ /\ record.status = "COMPLETED"
         /\ next = [me EXCEPT !.pc = "done", !.outcome = "DUPLICATE_COMPLETED",
                              !.result = record.result]
  BY DEF Resolved
<1>7. next \in RunStates /\ RunOK(next, record, now) /\ next.token = me.token
  BY <1>3, <1>4, <1>5, <1>6
<1>. HIDE DEF next
<1>. QED BY <1>1, <1>7, Before, Frame

(* A run that returns without touching the record.                         *)
LEMMA ReturnsOK ==
    ASSUME WorkerAssumption, WorkerInv, NEW r \in Runs,
           NEW outcome \in Outcomes \ {"EXECUTED", "DUPLICATE_COMPLETED"},
           Return(r, outcome), RecordOK(record'), Follows(record, record'),
           now' = now, faults' \in 0..MaxFaults
    PROVE  WorkerInv'
<1>. DEFINE next == [run[r] EXCEPT !.pc = "done", !.outcome = outcome]
<1>1. run' = [run EXCEPT ![r] = next]
  BY DEF Return, Go
<1>2. RunOK(run[r], record', now)
  BY Before, Others
<1>3. next \in RunStates /\ RunOK(next, record', now) /\ next.token = run[r].token
  BY <1>2, ReturnOK
<1>. HIDE DEF next
<1>. QED BY <1>1, <1>3, Frame

LEMMA TakeOverOK ==
    ASSUME WorkerAssumption, WorkerInv, NEW r \in Runs, TakeOver(r)
    PROVE  WorkerInv'
<1>1. CASE Acquired(r)
  BY <1>1, AcquiredOK DEF TakeOver, Claiming
<1>2. CASE Return(r, "DUPLICATE_PROCESSING") /\ record' = record
  BY <1>2, Before, ReturnsOK DEF TakeOver, Outcomes
<1>. QED BY <1>1, <1>2 DEF TakeOver

(* A beat starts, lands or fails.                                          *)
LEMMA BeatingOK ==
    ASSUME WorkerAssumption, WorkerInv, NEW r \in Runs,
           NEW beats \in SUBSET Nat, NEW last \in Nat, NEW lost \in BOOLEAN,
           Go(r, [run[r] EXCEPT !.beats = beats, !.last = last, !.lost = lost]),
           RecordOK(record'), Follows(record, record'),
           now' = now, faults' \in 0..MaxFaults
    PROVE  WorkerInv'
<1>. DEFINE me == run[r]
            next == [run[r] EXCEPT !.beats = beats, !.last = last, !.lost = lost]
<1>1. me \in RunStates /\ RunOK(me, record', now)
  BY Before, Others
<1>2. next \in RunStates
  BY <1>1 DEF RunStates
<1>3. /\ next.pc = me.pc /\ next.token = me.token /\ next.print = me.print
      /\ next.callNow = me.callNow /\ next.outcome = me.outcome
      /\ next.result = me.result
  BY <1>1 DEF RunStates
<1>4. run' = [run EXCEPT ![r] = next]
  BY DEF Go
<1>. HIDE DEF next
<1>5. RunOK(next, record', now)
  BY <1>1, <1>3 DEF RunOK
<1>. QED BY <1>2, <1>3, <1>4, <1>5, Frame

LEMMA BeatOK ==
    ASSUME WorkerAssumption, WorkerInv, NEW r \in Runs, Beat(r)
    PROVE  WorkerInv'
<1>. DEFINE me == run[r]
            beats == me.beats \cup {now}
<1>1. me \in RunStates /\ now \in Nat
  BY Before
<1>2. beats \in SUBSET Nat /\ me.lost \in BOOLEAN
  BY <1>1 DEF RunStates
<1>3. [me EXCEPT !.beats = beats, !.last = now]
         = [me EXCEPT !.beats = beats, !.last = now, !.lost = me.lost]
  BY <1>1 DEF RunStates
<1>4. Go(r, [me EXCEPT !.beats = beats, !.last = now, !.lost = me.lost])
  BY <1>3 DEF Beat
<1>5. /\ now' = now /\ faults' \in 0..MaxFaults
      /\ RecordOK(record') /\ Follows(record, record')
  BY Before DEF Beat
<1>. HIDE DEF beats
<1>. QED BY <1>1, <1>2, <1>4, <1>5, BeatingOK

LEMMA BeatEndsOK ==
    ASSUME WorkerAssumption, WorkerInv, NEW r \in Runs, BeatLands(r) \/ BeatFails(r)
    PROVE  WorkerInv'
<1>. DEFINE me == run[r]
<1>1. me \in RunStates /\ RecordOK(record) /\ Follows(record, record)
  BY Before
<1>2. faults' \in 0..MaxFaults
  <2>1. faults \in 0..MaxFaults /\ MaxFaults \in Nat
    BY Before DEF WorkerAssumption
  <2>2. faults' = faults \/ (faults < MaxFaults /\ faults' = faults + 1)
    BY DEF BeatLands, BeatFails
  <2>. QED BY <2>1, <2>2
<1>3. now' = now
  BY DEF BeatLands, BeatFails
<1>4. PICK beat \in me.beats :
         /\ \/ Go(r, [me EXCEPT !.beats = me.beats \ {beat}])
            \/ Go(r, [me EXCEPT !.beats = me.beats \ {beat}, !.lost = TRUE])
         /\ \/ record' = record
            \/ Owned(record, ProcessOf[r], me.token) /\ record' = Renewed(beat)
  BY DEF BeatLands, BeatFails
<1>. DEFINE beats == me.beats \ {beat}
<1>5. beat \in Nat /\ beats \in SUBSET Nat /\ me.last \in Nat /\ me.lost \in BOOLEAN
  BY <1>1 DEF RunStates
<1>6. RecordOK(record') /\ Follows(record, record')
  BY <1>1, <1>4, <1>5, StoredBeat
<1>7. PICK lost \in BOOLEAN :
         Go(r, [me EXCEPT !.beats = beats, !.last = me.last, !.lost = lost])
  <2>1. /\ [me EXCEPT !.beats = beats]
              = [me EXCEPT !.beats = beats, !.last = me.last, !.lost = me.lost]
        /\ [me EXCEPT !.beats = beats, !.lost = TRUE]
              = [me EXCEPT !.beats = beats, !.last = me.last, !.lost = TRUE]
    BY <1>1, <1>5 DEF RunStates
  <2>2. CASE Go(r, [me EXCEPT !.beats = beats])
    BY <2>1, <2>2, <1>5
  <2>3. CASE Go(r, [me EXCEPT !.beats = beats, !.lost = TRUE])
    BY <2>1, <2>3
  <2>. QED BY <1>4, <2>2, <2>3
<1>. HIDE DEF beats
<1>. QED BY <1>2, <1>3, <1>5, <1>6, <1>7, BeatingOK

(* A run that only moves on, keeping its claim; its error may be replaced. *)
LEMMA MovesOn ==
    ASSUME WorkerAssumption, WorkerInv, NEW r \in Runs, run[r].pc \in Holding,
           NEW pc \in Holding, NEW error \in Errors,
           Go(r, [run[r] EXCEPT !.pc = pc, !.error = error]),
           RecordOK(record'), Follows(record, record'),
           now' = now, faults' \in 0..MaxFaults
    PROVE  WorkerInv'
<1>. DEFINE me == run[r]
            next == [run[r] EXCEPT !.pc = pc, !.error = error]
<1>1. me \in RunStates /\ RunOK(me, record', now)
  BY Before, Others
<1>2. next \in RunStates
  BY <1>1 DEF RunStates, PCs
<1>3. /\ next.pc = pc /\ next.token = me.token /\ next.print = me.print
      /\ next.callNow = me.callNow /\ next.outcome = me.outcome
      /\ next.result = me.result
  BY <1>1 DEF RunStates
<1>4. run' = [run EXCEPT ![r] = next]
  BY DEF Go
<1>. HIDE DEF next
<1>5. RunOK(next, record', now)
  BY <1>1, <1>3 DEF RunOK, Holding, Claiming
<1>. QED BY <1>2, <1>3, <1>4, <1>5, Frame

LEMMA HandlerStepOK ==
    ASSUME WorkerAssumption, WorkerInv, NEW r \in Runs, HandlerStep(r)
    PROVE  WorkerInv'
<1>1. PICK error \in Errors : HandlerEnds(r, error)
  BY DEF HandlerStep
<1>2. PICK pc \in Holding : Go(r, [run[r] EXCEPT !.pc = pc, !.error = error])
  BY <1>1 DEF HandlerEnds, Holding
<1>. QED BY <1>1, <1>2, Before, MovesOn DEF HandlerEnds, Holding

LEMMA StoppedOK ==
    ASSUME WorkerAssumption, WorkerInv, NEW r \in Runs, Stopped(r)
    PROVE  WorkerInv'
<1>1. CASE Return(r, "THREW")
  BY <1>1, Before, ReturnsOK DEF Stopped, Outcomes
<1>2. CASE \E pc \in Holding : Go(r, [run[r] EXCEPT !.pc = pc])
  <2>1. PICK pc \in Holding : Go(r, [run[r] EXCEPT !.pc = pc])
    BY <1>2
  <2>2. run[r].pc \in Holding /\ run[r].error \in Errors
    BY Before DEF Holding, Stopped, RunStates
  <2>3. [run[r] EXCEPT !.pc = pc] = [run[r] EXCEPT !.pc = pc, !.error = run[r].error]
    BY Before DEF RunStates
  <2>4. Go(r, [run[r] EXCEPT !.pc = pc, !.error = run[r].error])
    BY <2>1, <2>3
  <2>. QED BY <2>2, <2>4, Before, MovesOn DEF Stopped
<1>. QED BY <1>1, <1>2 DEF Stopped, Holding

LEMMA CompleteOK ==
    ASSUME WorkerAssumption, WorkerInv, NEW r \in Runs, Complete(r)
    PROVE  WorkerInv'
<1>. DEFINE me == run[r]
            next == [run[r] EXCEPT !.pc = "done", !.outcome = "EXECUTED", !.result = me.token]
<1>1. CASE Accepts(r) /\ record' = Stored(r) /\ Go(r, next)
  <2>1. /\ RecordOK(record') /\ Follows(record, record') /\ record'.token = record.token
        /\ me.token = record.token
        /\ record'.status = "COMPLETED" /\ record'.result = me.token
    BY <1>1, StoredEnd DEF Complete
  <2>2. me \in RunStates /\ RunOK(me, record', now) /\ me.pc = "complete"
    BY <2>1, Before, Others DEF Complete
  <2>3. next \in RunStates
    BY <2>2 DEF RunStates, PCs, Ended, Outcomes
  <2>4. /\ next.pc = "done" /\ next.token = me.token /\ next.outcome = "EXECUTED"
        /\ next.callNow = me.callNow /\ next.result = me.token
    BY <2>2 DEF RunStates
  <2>5. run' = [run EXCEPT ![r] = next]
    BY <1>1 DEF Go
  <2>. HIDE DEF next
  <2>6. RunOK(next, record', now)
    BY <2>1, <2>2, <2>4 DEF RunOK, Claiming, Holding
  <2>. QED BY <2>1, <2>3, <2>4, <2>5, <2>6, Before, Frame DEF Complete
<1>2. CASE Return(r, "THREW") /\ record' = record
  BY <1>2, Before, ReturnsOK DEF Complete, Outcomes
<1>3. CASE Go(r, [me EXCEPT !.pc = "catch", !.error = "permanent"]) /\ record' = record
  BY <1>3, Before, MovesOn DEF Complete, Holding, Errors
<1>. QED BY <1>1, <1>2, <1>3 DEF Complete

LEMMA FailOK ==
    ASSUME WorkerAssumption, WorkerInv, NEW r \in Runs, Fail(r)
    PROVE  WorkerInv'
<1>1. RecordOK(record') /\ Follows(record, record')
  BY StoredEnd, Before DEF Fail
<1>. QED BY <1>1, Before, ReturnsOK DEF Fail, Outcomes

LEMMA StoreFailsOK ==
    ASSUME WorkerAssumption, WorkerInv, NEW r \in Runs, StoreFails(r)
    PROVE  WorkerInv'
<1>1. RecordOK(record') /\ Follows(record, record')
  <2>1. CASE record' = record
    BY <2>1, Before
  <2>2. CASE Accepts(r) /\ record' = Stored(r)
    BY <2>2, StoredClaim, StoredEnd DEF StoreFails
  <2>. QED BY <2>1, <2>2 DEF StoreFails
<1>2. faults' \in 0..MaxFaults
  <2>1. faults < MaxFaults /\ faults' = faults + 1
    BY DEF StoreFails
  <2>2. faults \in 0..MaxFaults /\ MaxFaults \in Nat
    BY Before DEF WorkerAssumption
  <2>. QED BY <2>1, <2>2
<1>3. CASE Return(r, "THREW")
  BY <1>1, <1>2, <1>3, ReturnsOK DEF StoreFails, Outcomes
<1>4. CASE run[r].pc = "complete" /\ \E error \in Errors \ {"none"} :
              Go(r, [run[r] EXCEPT !.pc = "catch", !.error = error])
  <2>1. PICK error \in Errors : Go(r, [run[r] EXCEPT !.pc = "catch", !.error = error])
    BY <1>4
  <2>2. "catch" \in Holding /\ run[r].pc \in Holding
    BY <1>4 DEF Holding
  <2>. QED BY <1>1, <1>2, <2>1, <2>2, MovesOn DEF StoreFails
<1>. QED BY <1>3, <1>4 DEF StoreFails

LEMMA CrashOK ==
    ASSUME WorkerAssumption, WorkerInv, NEW p \in Processes, Crash(p)
    PROVE  WorkerInv'
<1>. DEFINE dead == [Idle EXCEPT !.pc = "crashed"]
            Dies(r) == ProcessOf[r] = p /\ Active(r)
<1>1. dead \in RunStates /\ dead.pc = "crashed" /\ dead.token = 0 /\ dead.callNow = 0
      /\ dead.outcome = "none"
  BY IdleState DEF RunStates, PCs, Ended
<1>2. /\ run' = [r \in Runs |-> IF Dies(r) THEN dead ELSE run[r]]
      /\ now' = now /\ record' = record
  BY DEF Crash
<1>3. faults' \in 0..MaxFaults
  BY Before, Parts DEF Crash, WorkerAssumption
<1>. HIDE DEF dead, Dies
<1>. USE Parts
<1>4. run' \in [Runs -> RunStates]
  BY <1>1, <1>2
<1>5. \A r \in Runs : run'[r].token = 0 \/ run'[r] = run[r]
  BY <1>1, <1>2
<1>6. RunOK(dead, record, now)
  BY <1>1 DEF RunOK, RecordOK, Records, Claiming, Holding
<1>7. \A r \in Runs : RunOK(run'[r], record', now')
  BY <1>2, <1>6
<1>8. \A q, s \in Runs : run'[q].token = run'[s].token /\ run'[q].token > 0 => q = s
  BY <1>5
<1>. QED
  BY <1>2, <1>3, <1>4, <1>7, <1>8 DEF WorkerInv, TypeOK, ReadingsArePast, TokensAreUnique,
     TokensAreHeld, RecordIsSound, OutcomesAreSound, ReturnedIsRecorded, SamePayload,
     RunOK, RecordOK

LEMMA TickOK ==
    ASSUME WorkerInv, Tick
    PROVE  WorkerInv'
BY DEF Tick, WorkerInv, TypeOK, ReadingsArePast, TokensAreUnique, TokensAreHeld,
       RecordIsSound, OutcomesAreSound, ReturnedIsRecorded, SamePayload, RunStates

-----------------------------------------------------------------------------
(* The theorems.                                                           *)

LEMMA InitOK ==
    ASSUME WorkerAssumption, Init
    PROVE  WorkerInv
<1>1. /\ record = Absent /\ now = 1 /\ faults = 0
      /\ \A r \in Runs : run[r] = Idle
  BY DEF Init
<1>2. Absent \in Records /\ Absent.status = "ABSENT" /\ Absent.token = 0
  BY DEF Absent, Records, NoLease
<1>3. run \in [Runs -> RunStates] /\ faults \in 0..MaxFaults
  BY <1>1, IdleState DEF Init, WorkerAssumption
<1>. QED
  BY <1>1, <1>2, <1>3, IdleState DEF WorkerInv, TypeOK, ReadingsArePast, TokensAreUnique,
     TokensAreHeld, RecordIsSound, OutcomesAreSound, ReturnedIsRecorded, SamePayload,
     Claiming, Holding

LEMMA NextOK ==
    ASSUME WorkerAssumption, WorkerInv, [Next]_workerVars
    PROVE  WorkerInv'
<1>1. CASE \E r \in Runs, print \in Prints : Start(r, print)
  BY <1>1, StartOK
<1>2. CASE \E r \in Runs : RunStep(r) \/ HandlerStep(r)
  BY <1>2, InsertOK, FindOK, TakeOverOK, StoppedOK, CompleteOK, FailOK, HandlerStepOK
     DEF RunStep
<1>3. CASE \E r \in Runs : Beat(r) \/ BeatLands(r) \/ BeatFails(r) \/ StoreFails(r)
  BY <1>3, BeatOK, BeatEndsOK, StoreFailsOK
<1>4. CASE \E p \in Processes : Crash(p)
  BY <1>4, CrashOK
<1>5. CASE Tick
  BY <1>5, TickOK
<1>6. CASE UNCHANGED workerVars
  BY <1>6 DEF workerVars, WorkerInv, TypeOK, ReadingsArePast, TokensAreUnique,
     TokensAreHeld, RecordIsSound, OutcomesAreSound, ReturnedIsRecorded, SamePayload
<1>. QED BY <1>1, <1>2, <1>3, <1>4, <1>5, <1>6 DEF Next

(* The invariant of the worker: claims are drawn one at a time from the    *)
(* record's counter, every claim belongs to the run that drew it, only the *)
(* recorded payload is run, and what a run returns is what is recorded     *)
(* (acquire, complete, fail, heartbeat and run).                           *)
THEOREM Invariance == Spec => []WorkerInv
<1>1. Init => WorkerInv
  BY InitOK, WorkerAssumption
<1>2. WorkerInv /\ [Next]_workerVars => WorkerInv'
  BY NextOK, WorkerAssumption
<1>. QED BY <1>1, <1>2, PTL DEF Spec

(* Every variable keeps its type.                                          *)
THEOREM TypeCorrect == Spec => []TypeOK
<1>1. WorkerInv => TypeOK
  BY DEF WorkerInv
<1>. QED BY <1>1, Invariance, PTL

(* A run returns as the operation's result nothing but the recorded one.   *)
THEOREM Returned == Spec => []ReturnedIsRecorded
<1>1. WorkerInv => ReturnedIsRecorded
  BY DEF WorkerInv
<1>. QED BY <1>1, Invariance, PTL

(* The handler runs on no payload but the one recorded with the key.       *)
THEOREM Payload == Spec => []SamePayload
<1>1. WorkerInv => SamePayload
  BY DEF WorkerInv
<1>. QED BY <1>1, Invariance, PTL

(* Of all the runs of one operation at most one reports that it executed   *)
(* it: two would have recorded their own claims as the one result, and no  *)
(* two runs have the same claim.                                           *)
THEOREM Completion == Spec => []OneCompletion
<1>1. ASSUME WorkerInv PROVE OneCompletion
  <2>. SUFFICES ASSUME NEW r \in Runs, NEW s \in Runs,
                       run[r].outcome = "EXECUTED", run[s].outcome = "EXECUTED"
                PROVE  r = s
    BY DEF OneCompletion
  <2>1. run[r].result = record.result /\ run[s].result = record.result
    BY <1>1 DEF WorkerInv, ReturnedIsRecorded
  <2>2. run[r].token = run[s].token /\ run[r].token > 0
    BY <1>1, <2>1 DEF WorkerInv, OutcomesAreSound
  <2>. QED BY <1>1, <2>2 DEF WorkerInv, TokensAreUnique
<1>. QED BY <1>1, Invariance, PTL

(* How a step can change the record: an insert, a claim of what may be     *)
(* claimed, or a call of the owner.                                        *)
LEMMA Changes ==
    ASSUME WorkerInv, [Next]_workerVars, record' # record
    PROVE  \E r \in Runs :
              \/ Accepts(r) /\ record' = Stored(r) /\ run[r].pc \in Claiming \cup {"complete", "fail"}
              \/ /\ Owned(record, ProcessOf[r], run[r].token)
                 /\ \E beat \in run[r].beats : record' = Renewed(beat)
<1>1. CASE \E r \in Runs : RunStep(r) \/ HandlerStep(r)
  BY <1>1 DEF RunStep, HandlerStep, Insert, Find, TakeOver, Stopped, Complete, Fail,
     HandlerEnds, Acquired, Claiming
<1>2. CASE \E r \in Runs : Beat(r) \/ BeatLands(r) \/ BeatFails(r) \/ StoreFails(r)
  BY <1>2 DEF Beat, BeatLands, BeatFails, StoreFails
<1>3. ~ UNCHANGED workerVars
  BY DEF workerVars
<1>4. ~ \E r \in Runs, print \in Prints : Start(r, print)
  BY DEF Start
<1>5. ~ (Tick \/ \E p \in Processes : Crash(p))
  BY DEF Tick, Crash
<1>. QED BY <1>1, <1>2, <1>3, <1>4, <1>5 DEF Next

(* A completed record and a failure that is not retryable stay as they are *)
(* through every stale, repeated or late call.                             *)
THEOREM Final == Spec => SettledIsFinal
<1>1. ASSUME WorkerInv, [Next]_workerVars, Settled
      PROVE  record' = record
  <2>1. ASSUME NEW r \in Runs, Accepts(r) PROVE FALSE
    BY <1>1, <2>1 DEF Settled, Accepts, Reclaimable, Retriable, Owned
  <2>2. ASSUME NEW r \in Runs, Owned(record, ProcessOf[r], run[r].token) PROVE FALSE
    BY <1>1, <2>2 DEF Settled, Owned
  <2>. QED BY <1>1, <2>1, <2>2, Changes
<1>. QED BY <1>1, Invariance, PTL DEF Spec, SettledIsFinal

(* No run loses its claim to another before its lease has expired, even    *)
(* to one that read the record and the clock long before it takes it.      *)
THEOREM Overtaken == Spec => OvertakenWhenExpired
<1>1. ASSUME WorkerInv, [Next]_workerVars, NEW r \in Runs, Owns(r),
             record'.token # record.token
      PROVE  record.lease <= now
  <2>1. record.status = "PROCESSING" /\ record \in Records
    BY <1>1 DEF Owns, Owned, WorkerInv, TypeOK
  <2>2. PICK s \in Runs :
           \/ Accepts(s) /\ record' = Stored(s) /\ run[s].pc \in Claiming \cup {"complete", "fail"}
           \/ /\ Owned(record, ProcessOf[s], run[s].token)
              /\ \E beat \in run[s].beats : record' = Renewed(beat)
    BY <1>1, Changes
  <2>3. ~ (/\ Owned(record, ProcessOf[s], run[s].token)
           /\ \E beat \in run[s].beats : record' = Renewed(beat))
    <3>1. run[s].beats \subseteq Nat
      BY <1>1, Before DEF RunStates
    <3>. QED BY <1>1, <3>1, StoredBeat, WorkerAssumption
  <2>4. run[s].pc \notin {"complete", "fail"}
    BY <1>1, <2>2, <2>3, StoredEnd, WorkerAssumption
  <2>5. run[s].pc = "reclaim" /\ Reclaimable(record, run[s].callNow)
    BY <2>1, <2>2, <2>3, <2>4 DEF Accepts, Retriable, Claiming
  <2>6. record.lease <= run[s].callNow /\ run[s].callNow <= now
    BY <1>1, <2>5 DEF Reclaimable, WorkerInv, ReadingsArePast
  <2>7. record.lease \in Nat /\ run[s].callNow \in Nat /\ now \in Nat
    BY <1>1, <2>1, Before DEF Records, RunStates
  <2>. QED BY <2>6, <2>7
<1>2. WorkerInv /\ [Next]_workerVars =>
         [\A r \in Runs : Owns(r) /\ record'.token # record.token
                            => record.lease <= now]_workerVars
  BY <1>1
<1>. QED BY <1>2, Invariance, PTL DEF Spec, OvertakenWhenExpired

-----------------------------------------------------------------------------
(* The worker implements the fenced claim.                                 *)

OneOwner == {r \in Runs : Owns(r)} \in {{}} \cup {{r} : r \in Runs}

(* No two runs own the record: their tokens would be the same.             *)
LEMMA OwnersAreOne ==
    ASSUME WorkerInv
    PROVE  OneOwner
<1>1. ASSUME NEW r \in Runs, NEW s \in Runs, Owns(r), Owns(s) PROVE r = s
  BY <1>1 DEF Owns, Owned, WorkerInv, TokensAreUnique, TokensAreHeld
<1>2. CASE \E r \in Runs : Owns(r)
  <2>1. PICK r \in Runs : Owns(r)
    BY <1>2
  <2>2. {s \in Runs : Owns(s)} = {r}
    BY <1>1, <2>1
  <2>. QED BY <2>2 DEF OneOwner
<1>. QED BY <1>2 DEF OneOwner

(* A run that holds a claim after a step that claims nothing had it before.*)
StaysHolding(r) ==
    run'[r].pc \in Holding => run[r].pc \in Holding /\ run'[r].token = run[r].token

NobodyJoins == \A r \in Runs : StaysHolding(r)

NobodyMoves == \A r \in Runs : run'[r].pc = run[r].pc /\ run'[r].token = run[r].token

(* A statement of a run that the store accepts.                            *)
Claims(r) == run[r].pc \in Claiming /\ Accepts(r) /\ record' = Stored(r)
Settles(r) == run[r].pc \in {"complete", "fail"} /\ Accepts(r) /\ record' = Stored(r)

Renews(r) ==
    /\ Owned(record, ProcessOf[r], run[r].token)
    /\ \E beat \in Nat : record' = Renewed(beat)
    /\ NobodyMoves

(* A run that leaves its claim or goes on under it joins no other.         *)
LEMMA GoesOn ==
    ASSUME WorkerInv, NEW r \in Runs, NEW next, Go(r, next),
           next.pc \in Holding => run[r].pc \in Holding /\ next.token = run[r].token
    PROVE  NobodyJoins
<1>1. run \in [Runs -> RunStates] /\ run' = [run EXCEPT ![r] = next]
  BY DEF WorkerInv, TypeOK, Go
<1>. QED BY <1>1 DEF NobodyJoins, StaysHolding

LEMMA ReturnJoins ==
    ASSUME WorkerInv, NEW r \in Runs, NEW outcome, Return(r, outcome)
    PROVE  NobodyJoins
<1>1. run[r] \in RunStates
  BY Before
<1>2. [run[r] EXCEPT !.pc = "done", !.outcome = outcome].pc \notin Holding
  BY <1>1 DEF RunStates, Holding
<1>. QED BY <1>2, GoesOn DEF Return

(* What a step of one run does to the claims.                              *)
LEMMA RunEffects ==
    ASSUME WorkerInv, NEW r \in Runs, RunStep(r) \/ HandlerStep(r) \/ StoreFails(r)
    PROVE  /\ now' = now
           /\ \/ record' = record /\ NobodyJoins
              \/ Claims(r)
              \/ Settles(r)
<1>. DEFINE me == run[r]
<1>1. me \in RunStates
  BY Before
<1>2. \A pc, error : [me EXCEPT !.pc = pc, !.error = error].token = me.token
  BY <1>1 DEF RunStates
<1>3. ASSUME NEW pc \in Holding, me.pc \in Holding, Go(r, [me EXCEPT !.pc = pc])
      PROVE  NobodyJoins
  <2>1. [me EXCEPT !.pc = pc].token = me.token
    BY <1>1 DEF RunStates
  <2>. QED BY <1>3, <2>1, GoesOn
<1>4. CASE Insert(r)
  <2>1. [me EXCEPT !.pc = "find"].pc \notin Holding
    BY <1>1 DEF RunStates, Holding
  <2>. QED BY <1>4, <2>1, GoesOn DEF Insert, Acquired, Claims, Claiming
<1>5. CASE Find(r)
  <2>1. Resolved(me).pc \notin Holding
    BY <1>1 DEF Resolved, RunStates, Holding
  <2>. QED BY <1>5, <2>1, GoesOn DEF Find
<1>6. CASE TakeOver(r)
  BY <1>6, ReturnJoins DEF TakeOver, Acquired, Claims, Claiming
<1>7. CASE HandlerStep(r)
  <2>1. PICK error : HandlerEnds(r, error)
    BY <1>7 DEF HandlerStep
  <2>2. PICK pc \in Holding : Go(r, [me EXCEPT !.pc = pc, !.error = error])
    BY <2>1 DEF HandlerEnds, Holding
  <2>. QED BY <1>2, <2>1, <2>2, GoesOn DEF HandlerEnds, Holding
<1>8. CASE Stopped(r)
  BY <1>3, <1>8, ReturnJoins DEF Stopped, Holding
<1>9. CASE Complete(r)
  <2>1. CASE Accepts(r) /\ record' = Stored(r)
    BY <1>9, <2>1 DEF Complete, Settles
  <2>2. CASE Return(r, "THREW") /\ record' = record
    BY <1>9, <2>2, ReturnJoins DEF Complete
  <2>3. CASE Go(r, [me EXCEPT !.pc = "catch", !.error = "permanent"]) /\ record' = record
    BY <1>2, <1>9, <2>3, GoesOn DEF Complete, Holding
  <2>. QED BY <1>9, <2>1, <2>2, <2>3 DEF Complete
<1>10. CASE Fail(r)
  BY <1>10, ReturnJoins DEF Fail, Settles
<1>11. CASE StoreFails(r)
  <2>1. CASE Accepts(r) /\ record' = Stored(r)
    BY <1>11, <2>1 DEF StoreFails, Claims, Settles
  <2>2. CASE record' = record /\ Return(r, "THREW")
    BY <1>11, <2>2, ReturnJoins DEF StoreFails
  <2>3. CASE record' = record /\ me.pc = "complete" /\
             \E error \in Errors : Go(r, [me EXCEPT !.pc = "catch", !.error = error])
    BY <1>2, <1>11, <2>3, GoesOn DEF StoreFails, Holding
  <2>. QED BY <1>11, <2>1, <2>2, <2>3 DEF StoreFails
<1>. QED BY <1>4, <1>5, <1>6, <1>7, <1>8, <1>9, <1>10, <1>11 DEF RunStep

(* What a heartbeat does to them.                                          *)
LEMMA BeatEffects ==
    ASSUME WorkerInv, NEW r \in Runs, Beat(r) \/ BeatLands(r) \/ BeatFails(r)
    PROVE  /\ now' = now
           /\ \/ record' = record /\ NobodyJoins
              \/ Renews(r)
<1>. DEFINE me == run[r]
<1>1. run \in [Runs -> RunStates] /\ me \in RunStates
  BY Before
<1>2. now' = now
  BY DEF Beat, BeatLands, BeatFails
<1>. DEFINE Keeps(next) == next.pc = me.pc /\ next.token = me.token
<1>3. PICK next : Go(r, next) /\ Keeps(next)
  <2>1. /\ \A beats, last : Keeps([me EXCEPT !.beats = beats, !.last = last])
        /\ \A beats : Keeps([me EXCEPT !.beats = beats])
        /\ \A beats : Keeps([me EXCEPT !.beats = beats, !.lost = TRUE])
    BY <1>1 DEF RunStates
  <2>. HIDE DEF Keeps
  <2>. QED BY <2>1 DEF Beat, BeatLands, BeatFails
<1>4. NobodyMoves
  BY <1>1, <1>3 DEF Go, NobodyMoves
<1>5. \/ record' = record
      \/ /\ Owned(record, ProcessOf[r], me.token)
         /\ \E beat \in me.beats : record' = Renewed(beat)
  BY DEF Beat, BeatLands, BeatFails
<1>6. me.beats \subseteq Nat
  BY <1>1 DEF RunStates
<1>. QED BY <1>2, <1>4, <1>5, <1>6 DEF Renews, NobodyMoves, NobodyJoins, StaysHolding

(* The steps of the worker, as they look to the claim.                     *)
LEMMA Effects ==
    ASSUME WorkerInv, [Next]_workerVars
    PROVE  \/ record' = record /\ NobodyJoins /\ (now' = now \/ run' = run)
           \/ \E r \in Runs : now' = now /\ (Claims(r) \/ Settles(r) \/ Renews(r))
<1>1. ASSUME NEW r \in Runs, NEW print \in Prints, Start(r, print)
      PROVE  record' = record /\ NobodyJoins /\ now' = now
  <2>1. [Idle EXCEPT !.pc = "insert", !.print = print, !.callNow = now].pc \notin Holding
    BY DEF Idle, Holding
  <2>. QED BY <1>1, <2>1, GoesOn DEF Start
<1>2. ASSUME NEW p \in Processes, Crash(p)
      PROVE  record' = record /\ NobodyJoins /\ now' = now
  <2>1. run \in [Runs -> RunStates]
    BY DEF WorkerInv, TypeOK
  <2>2. [Idle EXCEPT !.pc = "crashed"].pc \notin Holding
    BY DEF Idle, Holding
  <2>. QED BY <1>2, <2>1, <2>2 DEF Crash, NobodyJoins, StaysHolding
<1>3. CASE Tick \/ UNCHANGED workerVars
  BY <1>3 DEF Tick, workerVars, NobodyJoins, StaysHolding
<1>. QED BY <1>1, <1>2, <1>3, RunEffects, BeatEffects DEF Next

(* What the accepted statements are to the fence.                          *)
LEMMA ClaimIsFenced ==
    ASSUME WorkerInv, OneOwner', NEW r \in Runs, Claims(r)
    PROVE  Fence!Claim
<1>1. record \in Records /\ now \in Nat /\ run[r] \in RunStates /\ run[r].callNow <= now
  BY DEF WorkerInv, TypeOK, ReadingsArePast
<1>2. \/ record.status = "ABSENT"
      \/ record.status = "FAILED" /\ record.retryable
      \/ record.status = "PROCESSING" /\ record.lease <= run[r].callNow
  BY DEF Claims, Claiming, Accepts, Retriable, Reclaimable
<1>3. Phase = "open" \/ (Phase = "claimed" /\ record.status = "PROCESSING" /\ record.lease <= now)
  BY <1>1, <1>2 DEF Phase, Settled, Records, RunStates
<1>4. record'.status = "PROCESSING"
  BY DEF Claims, Claiming, Accepts, Stored, Inserted, Taken
<1>5. Phase' = "claimed"
  BY <1>4 DEF Phase, Settled
<1>. QED BY <1>3, <1>5 DEF Fence!Claim, Fence!AtMostOne, OneOwner

LEMMA SettleIsFenced ==
    ASSUME WorkerInv, NEW r \in Runs, Settles(r)
    PROVE  Fence!Settle
<1>1. record \in Records
  BY DEF WorkerInv, TypeOK
<1>2. Owns(r) /\ record.status = "PROCESSING"
  BY DEF Settles, Accepts, Owns, Owned, Holding
<1>3. record'.status \in {"COMPLETED", "FAILED"}
  BY <1>1 DEF Settles, Stored, Completed, Failed, Records
<1>4. Phase = "claimed" /\ Phase' \in {"open", "closed"}
  BY <1>2, <1>3 DEF Phase, Settled
<1>5. \A s \in Runs : ~ Owns(s)'
  BY <1>3 DEF Owns, Owned
<1>. QED BY <1>2, <1>3, <1>4, <1>5 DEF Fence!Settle

LEMMA RenewalIsFenced ==
    ASSUME WorkerInv, NEW r \in Runs, Renews(r), now' = now
    PROVE  Fence!LeaseMoves \/ UNCHANGED Fence!vars
<1>1. record \in Records /\ record.status = "PROCESSING"
  BY DEF WorkerInv, TypeOK, Renews, Owned
<1>2. /\ record'.status = "PROCESSING" /\ record'.owner = record.owner
      /\ record'.token = record.token
  BY <1>1 DEF Renews, Renewed, Records
<1>3. Phase = "claimed" /\ Phase' = "claimed"
  BY <1>1, <1>2 DEF Phase, Settled
<1>4. \A s \in Runs : Owns(s)' <=> Owns(s)
  BY <1>1, <1>2 DEF Owns, Owned, Renews, NobodyMoves
<1>5. {s \in Runs : Owns(s)}' = {s \in Runs : Owns(s)}
  BY <1>4
<1>. QED BY <1>1, <1>2, <1>3, <1>5 DEF Fence!LeaseMoves, Fence!vars

(* Time passes, or a run ends without a word to the store.                 *)
LEMMA SilenceIsFenced ==
    ASSUME OneOwner, OneOwner', record' = record, NobodyJoins, now' = now \/ run' = run
    PROVE  Fence!Forget \/ Fence!LeaseMoves \/ UNCHANGED Fence!vars
<1>. DEFINE owners == {r \in Runs : Owns(r)}
            lapsed == record.status = "PROCESSING" /\ record.lease <= now
<1>1. Phase' = Phase
  BY DEF Phase, Settled
<1>2. owners' \subseteq owners
  BY DEF NobodyJoins, StaysHolding, Owns, Owned
<1>3. owners \in {{}} \cup {{r} : r \in Runs} /\ owners' \in {{}} \cup {{r} : r \in Runs}
  BY DEF OneOwner
<1>4. CASE now' = now
  <2>1. lapsed' = lapsed
    BY <1>4
  <2>2. owners' = owners \/ (owners # {} /\ owners' = {})
    BY <1>2, <1>3
  <2>. QED BY <1>1, <2>1, <2>2 DEF Fence!Forget, Fence!vars
<1>5. CASE run' = run
  <2>1. owners' = owners
    BY <1>5 DEF Owns
  <2>2. lapsed' = lapsed \/ (lapsed' = ~ lapsed /\ Phase = "claimed")
    BY DEF Phase, Settled
  <2>. QED BY <1>1, <2>1, <2>2 DEF Fence!LeaseMoves, Fence!vars
<1>. QED BY <1>4, <1>5

(* The runs of an operation share its record under the fence: whatever is  *)
(* lost, late or repeated, every step is one that the fenced claim allows. *)
THEOREM WorkerImplementsClaim == Spec => ImplementsClaim
<1>1. Init => Fence!Init
  <2>. SUFFICES ASSUME Init PROVE Fence!Init
    OBVIOUS
  <2>1. record.status = "ABSENT"
    BY DEF Init, Absent
  <2>2. {r \in Runs : Owns(r)} = {}
    BY <2>1 DEF Owns, Owned
  <2>. QED BY <2>1, <2>2 DEF Fence!Init, Phase, Settled
<1>2. WorkerInv => OneOwner
  BY OwnersAreOne
<1>3. WorkerInv /\ OneOwner /\ OneOwner' /\ [Next]_workerVars => [Fence!Next]_(Fence!vars)
  BY Effects, ClaimIsFenced, SettleIsFenced, RenewalIsFenced, SilenceIsFenced DEF Fence!Next
<1>. QED BY <1>1, <1>2, <1>3, Invariance, PTL DEF Spec, ImplementsClaim, Fence!Spec

(* The fence again, with what is proved of it.                             *)
Fenced == INSTANCE FencedClaimProofs WITH
    Holders <- Runs,
    phase   <- Phase,
    holders <- {r \in Runs : Owns(r)},
    lapsed  <- record.status = "PROCESSING" /\ record.lease <= now

(* What the fence is for holds of the worker: one owner at a time, none    *)
(* displaced before its lease lapses, and no claim on settled work.        *)
THEOREM WorkerIsFenced == Spec => []Fence!Exclusive /\ Fence!HeldIsKept /\ Fence!ClosedForGood
<1>1. Fence!Spec => Fenced!Spec
  <2>1. Fence!Init => Fenced!Init
    BY DEF Fence!Init, Fenced!Init
  <2>2. [Fence!Next]_(Fence!vars) => [Fenced!Next]_(Fenced!vars)
    BY DEF Fence!Next, Fence!Claim, Fence!Settle, Fence!Revoke, Fence!Forget, Fence!LeaseMoves,
           Fence!AtMostOne, Fence!vars, Fenced!Next, Fenced!Claim, Fenced!Settle, Fenced!Revoke,
           Fenced!Forget, Fenced!LeaseMoves, Fenced!AtMostOne, Fenced!vars
  <2>. QED BY <2>1, <2>2, PTL DEF Fence!Spec, Fenced!Spec
<1>. QED
  BY <1>1, WorkerImplementsClaim, Fenced!Exclusion, Fenced!Kept, Fenced!Closed, PTL
     DEF ImplementsClaim, Fence!Exclusive, Fence!HeldIsKept, Fence!ClosedForGood,
         Fenced!Exclusive, Fenced!HeldIsKept, Fenced!ClosedForGood, Fence!vars, Fenced!vars,
         Fence!AtMostOne, Fenced!AtMostOne

=============================================================================
