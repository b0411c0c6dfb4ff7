------------------------ MODULE WorkflowOutboxProofs ------------------------
(***************************************************************************)
(* Theorems about the workflow outbox, for any number of events,           *)
(* producers and publishers and any lease, batch size and retry budget.    *)
(***************************************************************************)
EXTENDS WorkflowOutbox, FiniteSetTheorems, TLAPS

-----------------------------------------------------------------------------
(* Type correctness.                                                       *)

LEMMA IdleType == Idle \in Workers
  BY DEF Idle, Workers, PublisherPCs

LEMMA NextEventType ==
  ASSUME NEW me \in Workers
  PROVE  NextEvent(me) \in Workers
  BY IdleType DEF NextEvent, Idle, Workers, PublisherPCs

LEMMA FirstType ==
  ASSUME NEW batch \in SUBSET Snapshots, NEW s \in First(batch)
  PROVE  s \in batch /\ s.key \in Keys /\ s.count \in Nat /\ s.due \in Nat
  BY DEF First, Snapshots

LEMMA ClaimedType ==
  ASSUME NEW rec \in Records, NEW p \in Publishers, NEW token \in Nat, NEW t \in Nat
  PROVE  Claimed(rec, p, token, t) \in Records
<1>1. t + LeaseMs \in Nat /\ rec.count + 1 \in Nat
  BY OutboxAssumption DEF Records
<1> QED
  BY <1>1 DEF Claimed, Records, Statuses

LEMMA TakeType ==
  ASSUME TypeOK, NEW p \in Publishers, NEW k \in Keys, NEW t \in Nat, Take(p, k, t)
  PROVE  /\ tokens' \in [Keys -> Nat]
         /\ outbox' \in [Keys -> Records]
<1>1. tokens' \in [Keys -> Nat] /\ tokens'[k] \in Nat
  BY DEF Take, TypeOK
<1>2. outbox[k] \in Records
  BY DEF TypeOK
<1>3. Claimed(outbox[k], p, tokens'[k], t) \in Records
  BY <1>1, <1>2, ClaimedType
<1> QED
  BY <1>1, <1>3 DEF Take, TypeOK

LEMMA UpdatedType ==
  ASSUME NEW rec \in Records, NEW me \in Workers, me.pc \in OwnedCalls
  PROVE  Updated(rec, me) \in Records
<1>1. me.callNow \in Nat /\ me.callNow + LeaseMs \in Nat /\ me.due \in Nat
  BY OutboxAssumption DEF Workers
<1>2. CASE me.pc = "heartbeat"
  BY <1>1, <1>2 DEF Updated, Records
<1>3. CASE me.pc = "markDelivered"
  BY <1>1, <1>3 DEF Updated, Records, Statuses, Terminal
<1>4. CASE me.pc = "markFailed"
  BY <1>1, <1>4 DEF Updated, Records, Statuses
<1>5. CASE me.pc = "markDeadLetter"
  BY <1>1, <1>5 DEF Updated, Records, Statuses, Terminal
<1> QED
  BY <1>2, <1>3, <1>4, <1>5 DEF OwnedCalls

LEMMA ApplyOwnedType ==
  ASSUME TypeOK, NEW p \in Publishers, HoldsFence(p), ApplyOwned(p)
  PROVE  outbox' \in [Keys -> Records]
<1>1. publisher[p] \in Workers
  BY DEF TypeOK
<1>2. publisher[p].pc \in OwnedCalls
  BY DEF HoldsFence
<1>3. CASE publisher[p].key \in Keys
  <2>1. Updated(outbox[publisher[p].key], publisher[p]) \in Records
    BY <1>1, <1>2, <1>3, UpdatedType DEF TypeOK
  <2> QED
    BY <2>1, <1>3 DEF ApplyOwned, TypeOK
<1>4. CASE publisher[p].key \notin Keys
  BY <1>4 DEF ApplyOwned, TypeOK
<1> QED
  BY <1>3, <1>4

LEMMA AfterFailureType ==
  ASSUME NEW me \in Workers, now \in Nat, NEW error, NEW next \in AfterFailure(me, error)
  PROVE  /\ next \in Workers
         /\ next.pc \in {"markFailed", "markDeadLetter"}
         /\ next.batchNow = me.batchNow
         /\ next.key = me.key /\ next.token = me.token /\ next.payload = me.payload
<1>1. CASE next = [me EXCEPT !.pc = "markDeadLetter", !.callNow = now]
  BY <1>1 DEF Workers, PublisherPCs, OwnedCalls
<1>2. ASSUME NEW d \in Nat,
             next = [me EXCEPT !.pc = "markFailed", !.callNow = now, !.due = d]
      PROVE  /\ next \in Workers
             /\ next.pc \in {"markFailed", "markDeadLetter"}
             /\ next.batchNow = me.batchNow
             /\ next.key = me.key /\ next.token = me.token /\ next.payload = me.payload
  BY <1>2 DEF Workers, PublisherPCs, OwnedCalls
<1>3. \/ next = [me EXCEPT !.pc = "markDeadLetter", !.callNow = now]
      \/ \E d \in Nat : next = [me EXCEPT !.pc = "markFailed", !.callNow = now, !.due = d]
  <2>1. now .. MaxNow \subseteq Nat
    BY OutboxAssumption
  <2> QED
    BY <2>1 DEF AfterFailure
<1> QED
  BY <1>1, <1>2, <1>3

-----------------------------------------------------------------------------
(* Lemmas about the steps the actions are built from.                      *)

LEMMA ScanFacts ==
  ASSUME TypeOK, NEW p \in Publishers, Scan(p)
  PROVE  /\ publisher' \in [Publishers -> Workers]
         /\ publisher'[p].pc = "claim" /\ publisher'[p].batchNow = now
<1>1. PICK B \in Scans(now) :
        publisher' = [publisher EXCEPT ![p] =
          [Idle EXCEPT !.pc = "claim", !.batchNow = now,
                       !.batch = {[key |-> k, count |-> outbox[k].count,
                                   due |-> outbox[k].due] : k \in B}]]
  BY DEF Scan, Goto
<1>2. {[key |-> k, count |-> outbox[k].count, due |-> outbox[k].due] : k \in B}
         \in SUBSET Snapshots
  BY DEF Scans, Deliverable, TypeOK, Records, Snapshots
<1> QED
  BY <1>1, <1>2, IdleType DEF TypeOK, Workers, PublisherPCs, Idle

LEMMA NextEventFacts ==
  ASSUME NEW me \in Workers
  PROVE  /\ NextEvent(me).pc \in {"idle", "claim"}
         /\ NextEvent(me).batchNow \in {0, me.batchNow}
  BY DEF NextEvent, Idle

(* Handing an event over disturbs no other publisher's claim.              *)
LEMMA TakeFenced ==
  ASSUME OutboxInv, NEW p \in Publishers, NEW k \in Keys, NEW t \in Nat, t <= now,
         Claimable(outbox[k], t), Take(p, k, t), now' = now
  PROVE  /\ AttemptsCounted'
         /\ \A j \in Keys : /\ outbox'[j].payload = outbox[j].payload
                            /\ outbox'[j].status # "ABSENT" <=> outbox[j].status # "ABSENT"
                            /\ tokens[j] <= tokens'[j]
                            /\ outbox'[j].status = "DELIVERED" => outbox'[j] = outbox[j]
         /\ \A q \in Publishers \ {p} : publisher'[q] = publisher[q] => Fenced(q)'
<1>1. /\ outbox[k] \in Records /\ tokens[k] \in Nat /\ tokens'[k] = tokens[k] + 1
      /\ \A j \in Keys \ {k} : outbox'[j] = outbox[j] /\ tokens'[j] = tokens[j]
      /\ outbox'[k] = Claimed(outbox[k], p, tokens[k] + 1, t)
  BY DEF OutboxInv, TypeOK, Take
<1>2. /\ outbox'[k].status = "PROCESSING" /\ outbox'[k].token = tokens'[k]
      /\ outbox'[k].payload = outbox[k].payload /\ outbox'[k].count = outbox[k].count + 1
  BY <1>1 DEF Claimed, Records
<1>3. outbox[k].status # "ABSENT" /\ outbox[k].count < MaxAttempts /\ outbox[k].lease <= t
  BY DEF Claimable
<1>4. AttemptsCounted'
  BY <1>1, <1>2, <1>3, OutboxAssumption DEF OutboxInv, TypeOK, AttemptsCounted
<1>5. \A j \in Keys : /\ outbox'[j].payload = outbox[j].payload
                      /\ outbox'[j].status # "ABSENT" <=> outbox[j].status # "ABSENT"
                      /\ tokens[j] <= tokens'[j]
                      /\ outbox'[j].status = "DELIVERED" => outbox'[j] = outbox[j]
  BY <1>1, <1>2, <1>3 DEF OutboxInv, TypeOK
<1>6. ASSUME NEW q \in Publishers \ {p}, publisher'[q] = publisher[q]
      PROVE  Fenced(q)'
  <2>1. Fenced(q) /\ publisher[q] \in Workers
    BY DEF OutboxInv, TypeOK
  <2>2. CASE publisher[q].key # k
    BY <1>1, <1>6, <2>1, <2>2 DEF Fenced, Delivering
  <2>3. CASE publisher[q].key = k
    <3>1. publisher[q].batchNow \in Nat /\ now \in Nat /\ publisher[q].token \in Nat
      BY <2>1 DEF Workers, OutboxInv, TypeOK
    <3>2. Delivering(q) => publisher[q].token \in 1 .. tokens[k]
      BY <2>1, <2>3 DEF Fenced
    <3>3. Delivering(q) => publisher[q].batchNow + LeaseMs <= now
      <4>1. Delivering(q) /\ publisher[q].token = tokens[k]
              => outbox[k].lease = publisher[q].batchNow + LeaseMs
        BY <2>1, <2>3 DEF Fenced
      <4>2. Delivering(q) /\ publisher[q].token < tokens[k]
              => publisher[q].batchNow + LeaseMs <= now
        BY <2>1, <2>3 DEF Fenced
      <4>3. outbox[k].lease <= now
        BY <1>1, <1>3, <3>1 DEF Records
      <4> QED
        BY <1>1, <3>1, <3>2, <4>1, <4>2, <4>3
    <3>4. Delivering(q)' <=> Delivering(q)
      BY <1>6 DEF Delivering
    <3> QED
      BY <1>1, <1>2, <1>6, <2>1, <2>3, <3>1, <3>2, <3>3, <3>4 DEF Fenced
  <2> QED
    BY <2>2, <2>3
<1> QED
  BY <1>4, <1>5, <1>6

(* An owned call goes through only for the publisher with the latest       *)
(* token, and disturbs no other publisher's claim.                         *)
LEMMA ApplyFenced ==
  ASSUME OutboxInv, NEW p \in Publishers, HoldsFence(p), ApplyOwned(p),
         UNCHANGED <<now, tokens>>
  PROVE  /\ AttemptsCounted'
         /\ \A j \in Keys : /\ outbox'[j].payload = outbox[j].payload
                            /\ outbox'[j].status # "ABSENT" <=> outbox[j].status # "ABSENT"
                            /\ outbox'[j].status = "DELIVERED" =>
                                 \/ outbox'[j] = outbox[j]
                                 \/ /\ publisher[p].pc = "markDelivered"
                                    /\ publisher[p].key = j
                                    /\ outbox'[j].token = publisher[p].token
                                    /\ outbox'[j].payload = publisher[p].payload
         /\ \A q \in Publishers \ {p} : publisher'[q] = publisher[q] => Fenced(q)'
<1> DEFINE me == publisher[p]
           k == me.key
<1>1. me \in Workers /\ me.pc \in OwnedCalls /\ Owned(outbox[k], p, me.token, me.callNow)
  BY DEF OutboxInv, TypeOK, HoldsFence
<1>2. Delivering(p) /\ Fenced(p)
  BY <1>1 DEF OutboxInv, Delivering
<1>3. k \in Keys /\ me.payload = outbox[k].payload /\ outbox[k] \in Records
  BY <1>2 DEF Fenced, OutboxInv, TypeOK
<1>4. /\ outbox'[k] = Updated(outbox[k], me)
      /\ \A j \in Keys \ {k} : outbox'[j] = outbox[j]
  BY <1>3 DEF ApplyOwned, OutboxInv, TypeOK
<1>5. /\ outbox[k].status = "PROCESSING" /\ outbox[k].owner = p
      /\ outbox[k].token = me.token /\ outbox[k].token = tokens[k]
  BY <1>1, <1>3 DEF Owned, OutboxInv, AttemptsCounted
<1>6. /\ outbox'[k].payload = outbox[k].payload
      /\ outbox'[k].token = outbox[k].token
      /\ outbox'[k].count = outbox[k].count
      /\ outbox'[k].status # "ABSENT"
      /\ outbox'[k].status = "DELIVERED" => me.pc = "markDelivered"
  <2>1. CASE me.pc = "heartbeat"
    BY <1>3, <1>4, <1>5, <2>1 DEF Updated, Records
  <2>2. CASE me.pc = "markDelivered"
    BY <1>3, <1>4, <2>2 DEF Updated, Records
  <2>3. CASE me.pc = "markFailed"
    BY <1>3, <1>4, <2>3 DEF Updated, Records
  <2>4. CASE me.pc = "markDeadLetter"
    BY <1>3, <1>4, <2>4 DEF Updated, Records
  <2> QED
    BY <1>1, <2>1, <2>2, <2>3, <2>4 DEF OwnedCalls
<1>7. AttemptsCounted'
  BY <1>4, <1>5, <1>6 DEF OutboxInv, AttemptsCounted
<1>8. ASSUME NEW q \in Publishers \ {p}, publisher'[q] = publisher[q]
      PROVE  Fenced(q)'
  <2>1. Fenced(q)
    BY DEF OutboxInv
  <2>2. CASE publisher[q].key # k
    BY <1>4, <1>8, <2>1, <2>2 DEF Fenced, Delivering
  <2>3. CASE publisher[q].key = k
    <3>1. Delivering(q) => publisher[q].token # tokens[k]
      BY <1>5, <2>1, <2>3 DEF Fenced
    <3> QED
      BY <1>6, <1>8, <2>1, <2>3, <3>1 DEF Fenced, Delivering
  <2> QED
    BY <2>2, <2>3
<1> QED
  BY <1>3, <1>4, <1>5, <1>6, <1>7, <1>8

LEMMA SentUnchanged ==
  ASSUME UNCHANGED <<channel, broker, lost>>
  PROVE  Sent' = Sent
  BY DEF Sent

LEMMA SentDropped ==
  ASSUME channel \in [Publishers -> SUBSET Messages], NEW p \in Publishers,
         DropBuffer(p), broker' = broker
  PROVE  Sent' = Sent
  BY DEF Sent, DropBuffer

LEMMA SentFlushed ==
  ASSUME channel \in [Publishers -> SUBSET Messages], NEW p \in Publishers,
         Flush(p)
  PROVE  Sent' = Sent
  BY DEF Sent, Flush

LEMMA SentGrows ==
  ASSUME channel \in [Publishers -> SUBSET Messages], NEW p \in Publishers, NEW m,
         channel' = [channel EXCEPT ![p] = @ \cup {m}], UNCHANGED <<broker, lost>>
  PROVE  Sent' = Sent \cup {m}
  BY DEF Sent

-----------------------------------------------------------------------------
(* The invariant is preserved by every step.                               *)

LEMMA InitInv == Init => OutboxInv
<1> SUFFICES ASSUME Init PROVE OutboxInv
  OBVIOUS
<1>1. TypeOK
  BY IdleType, OutboxAssumption
  DEF Init, TypeOK, Absent, Records, Statuses, NoLease, NotStarted, Calls, ProducerPCs, Results
<1>2. CallsNamed /\ AttemptsCounted /\ DeliveredWasPublished
  BY OutboxAssumption
  DEF Init, CallsNamed, NotStarted, AttemptsCounted, Absent, DeliveredWasPublished
<1>3. \A p \in Publishers : Fenced(p) /\ Published(p)
  BY DEF Init, Fenced, Published, Delivering, OwnedCalls, Idle
<1>4. MessagesFaithful
  BY DEF Init, MessagesFaithful, Sent
<1> QED
  BY <1>1, <1>2, <1>3, <1>4 DEF OutboxInv

(* A step that leaves records, publishers and messages alone.              *)
LEMMA QuietInv ==
  ASSUME OutboxInv, TypeOK', CallsNamed', UNCHANGED <<outbox, tokens, publisher>>,
         Sent' = Sent, now <= now'
  PROVE  OutboxInv'
<1>1. AttemptsCounted' /\ DeliveredWasPublished' /\ MessagesFaithful'
  BY DEF OutboxInv, AttemptsCounted, DeliveredWasPublished, MessagesFaithful
<1>2. ASSUME NEW p \in Publishers
      PROVE  Fenced(p)' /\ Published(p)'
  <2>1. Fenced(p) /\ Published(p) /\ publisher[p].batchNow \in Nat /\ now \in Nat
        /\ now' \in Nat
    BY DEF OutboxInv, TypeOK, Workers
  <2>2. publisher[p].batchNow + LeaseMs <= now => publisher[p].batchNow + LeaseMs <= now'
    BY <2>1, OutboxAssumption
  <2>3. Published(p)'
    BY <2>1 DEF Published, MessageOf
  <2> QED
    BY <2>1, <2>2, <2>3 DEF Fenced, Delivering
<1> QED
  BY <1>1, <1>2 DEF OutboxInv

(* A step of one publisher that sends nothing: what is left to show is the *)
(* fence of that publisher and that what it delivers was published.        *)
LEMMA PublisherInv ==
  ASSUME OutboxInv, TypeOK', NEW p \in Publishers, NEW next,
         publisher' = [publisher EXCEPT ![p] = next],
         UNCHANGED <<now, producer>>, Sent' = Sent,
         AttemptsCounted', DeliveredWasPublished',
         \A j \in Keys : /\ outbox'[j].payload = outbox[j].payload
                         /\ outbox'[j].status # "ABSENT" <=> outbox[j].status # "ABSENT"
                         /\ tokens[j] <= tokens'[j],
         \A q \in Publishers \ {p} : publisher'[q] = publisher[q] => Fenced(q)',
         Fenced(p)', Published(p)'
  PROVE  OutboxInv'
<1>1. CallsNamed'
  BY DEF OutboxInv, CallsNamed
<1>2. MessagesFaithful'
  <2>1. ASSUME NEW m \in Sent
        PROVE  m.payload = outbox'[m.key].payload /\ m.token \in 1 .. tokens'[m.key]
    <3>1. m.key \in Keys
      BY DEF Sent, OutboxInv, TypeOK, Messages
    <3>2. tokens[m.key] \in Nat /\ tokens'[m.key] \in Nat /\ tokens[m.key] <= tokens'[m.key]
      BY <3>1 DEF OutboxInv, TypeOK
    <3> QED
      BY <3>1, <3>2 DEF OutboxInv, MessagesFaithful
  <2> QED
    BY <2>1 DEF MessagesFaithful
<1>3. ASSUME NEW q \in Publishers
      PROVE  Fenced(q)' /\ Published(q)'
  <2>1. CASE q = p
    BY <2>1
  <2>2. CASE q # p
    <3>1. publisher'[q] = publisher[q]
      BY <2>2 DEF OutboxInv, TypeOK
    <3> QED
      BY <2>2, <3>1 DEF OutboxInv, Published, MessageOf
  <2> QED
    BY <2>1, <2>2
<1> QED
  BY <1>1, <1>2, <1>3 DEF OutboxInv

(* A publisher that is done with its event holds nothing.                  *)
LEMMA ReleasedFenced ==
  ASSUME TypeOK, TypeOK', NEW p \in Publishers, publisher'[p].pc \in {"idle", "claim"},
         publisher'[p].batchNow <= now'
  PROVE  Fenced(p)' /\ Published(p)'
  BY DEF Fenced, Published, Delivering, OwnedCalls

LEMMA ReadOnlyFacts ==
  ASSUME OutboxInv, UNCHANGED <<outbox, tokens, now>>, Sent' = Sent, NEW p \in Publishers
  PROVE  /\ AttemptsCounted' /\ DeliveredWasPublished'
         /\ \A j \in Keys : /\ outbox'[j].payload = outbox[j].payload
                            /\ outbox'[j].status # "ABSENT" <=> outbox[j].status # "ABSENT"
                            /\ tokens[j] <= tokens'[j]
         /\ \A q \in Publishers \ {p} : publisher'[q] = publisher[q] => Fenced(q)'
<1>1. \A j \in Keys : tokens[j] \in Nat
  BY DEF OutboxInv, TypeOK
<1> QED
  BY <1>1 DEF OutboxInv, AttemptsCounted, DeliveredWasPublished, Fenced, Delivering

LEMMA ScanInv ==
  ASSUME OutboxInv, NEW p \in Publishers, Scan(p)
  PROVE  OutboxInv'
<1>1. TypeOK'
  BY ScanFacts DEF Scan, OutboxInv, TypeOK
<1>2. Sent' = Sent
  BY SentUnchanged DEF Scan
<1>3. publisher'[p].pc = "claim" /\ publisher'[p].batchNow = now /\ now' = now /\ now \in Nat
  BY ScanFacts DEF OutboxInv, TypeOK, Scan
<1>4. Fenced(p)' /\ Published(p)'
  BY <1>1, <1>3, ReleasedFenced DEF OutboxInv
<1>5. PICK next : publisher' = [publisher EXCEPT ![p] = next]
  BY DEF Scan, Goto
<1>6. UNCHANGED <<outbox, tokens, now, producer>>
  BY DEF Scan
<1> QED
  BY <1>1, <1>2, <1>4, <1>5, <1>6, ReadOnlyFacts, PublisherInv

LEMMA FindInv ==
  ASSUME OutboxInv, NEW r \in Producers, NEW k \in Keys, NEW payload \in Payloads,
         Find(r, k, payload)
  PROVE  OutboxInv'
<1>1. TypeOK'
  BY DEF OutboxInv, TypeOK, Find, NotStarted, Calls, ProducerPCs, Results, CompareWith
<1>2. CallsNamed'
  BY DEF OutboxInv, TypeOK, CallsNamed, Find, NotStarted
<1>3. Sent' = Sent
  BY SentUnchanged DEF Find
<1>4. now' = now /\ now \in Nat
  BY DEF Find, OutboxInv, TypeOK
<1> QED
  BY <1>1, <1>2, <1>3, <1>4, QuietInv DEF Find

LEMMA InsertInv ==
  ASSUME OutboxInv, NEW r \in Producers, Insert(r)
  PROVE  OutboxInv'
<1> DEFINE me == producer[r]
           k == me.key
<1>1. me \in Calls /\ k \in Keys /\ me.payload \in Payloads /\ me.callNow \in Nat
  BY DEF OutboxInv, TypeOK, CallsNamed, Insert, Calls
<1>2. NewRecord(me.payload, me.callNow) \in Records
  BY <1>1 DEF NewRecord, Records, Statuses, NoLease
<1>3. TypeOK'
  <2>1. producer' \in [Producers -> Calls]
    BY <1>1 DEF OutboxInv, TypeOK, Insert, Calls, ProducerPCs, Results
  <2> QED
    BY <1>2, <2>1 DEF OutboxInv, TypeOK, Insert
<1>4. Sent' = Sent
  BY SentUnchanged DEF Insert
<1>5. CASE outbox[k].status # "ABSENT"
  <2>1. UNCHANGED <<outbox, tokens, publisher>> /\ now <= now'
    BY <1>5 DEF Insert, OutboxInv, TypeOK
  <2>2. CallsNamed'
    BY <1>1, <1>5 DEF OutboxInv, TypeOK, CallsNamed, Insert, Calls
  <2> QED
    BY <1>3, <1>4, <2>1, <2>2, QuietInv
<1>6. CASE outbox[k].status = "ABSENT"
  <2>1. /\ outbox' = [outbox EXCEPT ![k] = NewRecord(me.payload, me.callNow)]
        /\ producer' = [producer EXCEPT ![r].pc = "done", ![r].result = "created"]
        /\ UNCHANGED <<now, tokens, publisher, channel, broker, lost>>
    BY <1>6 DEF Insert
  <2>2. /\ outbox'[k].status = "PENDING" /\ outbox'[k].token = 0 /\ outbox'[k].count = 0
        /\ outbox'[k].payload = me.payload
        /\ \A j \in Keys \ {k} : outbox'[j] = outbox[j]
    BY <1>1, <2>1 DEF NewRecord, OutboxInv, TypeOK
  <2>3. tokens[k] = 0 /\ outbox[k].payload = NoOne
    BY <1>1, <1>6 DEF OutboxInv, AttemptsCounted, Absent
  <2>4. AttemptsCounted'
    BY <1>1, <2>1, <2>2, <2>3 DEF OutboxInv, AttemptsCounted
  <2>5. CallsNamed'
    BY <1>1, <2>1, <2>2 DEF OutboxInv, TypeOK, CallsNamed, Calls
  <2>6. ASSUME NEW p \in Publishers
        PROVE  Fenced(p)' /\ Published(p)'
    <3>1. Fenced(p) /\ Published(p)
      BY DEF OutboxInv
    <3>2. Delivering(p) => publisher[p].key # k
      BY <1>1, <2>3, OutboxAssumption, <3>1 DEF Fenced
    <3>3. Fenced(p)'
      BY <2>1, <2>2, <3>1, <3>2 DEF Fenced, Delivering
    <3>4. Published(p)'
      BY <1>4, <2>1, <3>1 DEF Published, MessageOf
    <3> QED
      BY <3>3, <3>4
  <2>7. MessagesFaithful'
    <3>1. \A m \in Sent : m.key \in Keys /\ m.payload \in Payloads
      BY DEF Sent, OutboxInv, TypeOK, Messages
    <3>2. \A m \in Sent : m.key # k
      BY <2>3, <3>1, OutboxAssumption DEF OutboxInv, MessagesFaithful
    <3> QED
      BY <1>4, <2>1, <2>2, <3>1, <3>2 DEF OutboxInv, MessagesFaithful
  <2>8. DeliveredWasPublished'
    BY <1>4, <2>2 DEF OutboxInv, DeliveredWasPublished
  <2> QED
    BY <1>3, <2>4, <2>5, <2>6, <2>7, <2>8 DEF OutboxInv
<1> QED
  BY <1>5, <1>6

LEMMA ReloadInv ==
  ASSUME OutboxInv, NEW r \in Producers, Reload(r)
  PROVE  OutboxInv'
<1>1. TypeOK'
  BY DEF OutboxInv, TypeOK, Reload, Calls, ProducerPCs, Results, CompareWith
<1>2. CallsNamed'
  BY DEF OutboxInv, TypeOK, CallsNamed, Reload, Calls
<1>3. Sent' = Sent
  BY SentUnchanged DEF Reload
<1>4. now' = now /\ now \in Nat
  BY DEF Reload, OutboxInv, TypeOK
<1> QED
  BY <1>1, <1>2, <1>3, <1>4, QuietInv DEF Reload

(* A publisher takes an event over and goes on with it, or gives it up.    *)
LEMMA TakeInv ==
  ASSUME OutboxInv, NEW p \in Publishers, publisher[p].pc = "claim",
         NEW s \in First(publisher[p].batch),
         Claimable(outbox[s.key], publisher[p].batchNow),
         Take(p, s.key, publisher[p].batchNow),
         UNCHANGED <<now, producer, channel, broker, lost>>, faults' \in Nat,
         NEW rest, rest = [publisher[p] EXCEPT !.batch = publisher[p].batch \ {s}],
         NEW next, Goto(p, next),
         \/ next = NextEvent(rest)
         \/ next = [rest EXCEPT !.pc = "heartbeat", !.key = s.key, !.seen = s.count,
                                !.payload = outbox[s.key].payload,
                                !.token = tokens'[s.key],
                                !.callNow = publisher[p].batchNow]
  PROVE  OutboxInv'
<1> DEFINE me == publisher[p]
           k == s.key
<1>1. /\ me \in Workers /\ k \in Keys /\ s.count \in Nat /\ me.batchNow \in Nat
      /\ me.batchNow <= now /\ now \in Nat
  BY FirstType DEF OutboxInv, TypeOK, Workers, Fenced
<1>2. /\ rest \in Workers /\ NextEvent(rest) \in Workers /\ rest.batchNow = me.batchNow
      /\ NextEvent(rest).pc \in {"idle", "claim"}
      /\ NextEvent(rest).batchNow \in {0, me.batchNow}
  BY <1>1, NextEventType, NextEventFacts DEF Workers
<1>3. /\ tokens' \in [Keys -> Nat] /\ outbox' \in [Keys -> Records]
      /\ tokens'[k] = tokens[k] + 1 /\ tokens[k] \in Nat
      /\ outbox'[k] = Claimed(outbox[k], p, tokens'[k], me.batchNow)
      /\ outbox[k] \in Records
  BY <1>1, TakeType DEF OutboxInv, TypeOK, Take
<1>4. outbox[k].payload \in Payloads
  BY <1>1 DEF OutboxInv, AttemptsCounted, Claimable
<1>5. next \in Workers
  <2>1. [rest EXCEPT !.pc = "heartbeat", !.key = s.key, !.seen = s.count,
                     !.payload = outbox[s.key].payload, !.token = tokens'[s.key],
                     !.callNow = publisher[p].batchNow] \in Workers
    BY <1>1, <1>2, <1>3, <1>4 DEF Workers, PublisherPCs, OwnedCalls
  <2> QED
    BY <1>2, <2>1
<1>6. publisher' = [publisher EXCEPT ![p] = next] /\ publisher'[p] = next
  BY DEF Goto, OutboxInv, TypeOK
<1>7. TypeOK'
  BY <1>3, <1>5, <1>6 DEF OutboxInv, TypeOK
<1>8. Sent' = Sent
  BY SentUnchanged
<1>9. /\ AttemptsCounted'
      /\ \A j \in Keys : /\ outbox'[j].payload = outbox[j].payload
                         /\ outbox'[j].status # "ABSENT" <=> outbox[j].status # "ABSENT"
                         /\ tokens[j] <= tokens'[j]
                         /\ outbox'[j].status = "DELIVERED" => outbox'[j] = outbox[j]
      /\ \A q \in Publishers \ {p} : publisher'[q] = publisher[q] => Fenced(q)'
  BY <1>1, TakeFenced
<1>10. DeliveredWasPublished'
  BY <1>8, <1>9 DEF OutboxInv, DeliveredWasPublished
<1>11. Fenced(p)' /\ Published(p)'
  <2>1. CASE next = NextEvent(rest)
    <3>1. publisher'[p].pc \in {"idle", "claim"} /\ publisher'[p].batchNow <= now'
      BY <1>1, <1>2, <1>6, <2>1
    <3> QED
      BY <1>7, <3>1, ReleasedFenced DEF OutboxInv
  <2>2. CASE next = [rest EXCEPT !.pc = "heartbeat", !.key = s.key, !.seen = s.count,
                                 !.payload = outbox[s.key].payload,
                                 !.token = tokens'[s.key],
                                 !.callNow = publisher[p].batchNow]
    <3>1. /\ next.pc = "heartbeat" /\ next.key = k /\ next.token = tokens'[k]
          /\ next.payload = outbox[k].payload /\ next.callNow = me.batchNow
          /\ next.batchNow = me.batchNow
      BY <1>2, <2>2 DEF Workers
    <3>2. /\ outbox'[k].status = "PROCESSING" /\ outbox'[k].owner = p
          /\ outbox'[k].lease = me.batchNow + LeaseMs
          /\ outbox'[k].payload = outbox[k].payload
      BY <1>3 DEF Claimed, Records
    <3>3. tokens'[k] \in 1 .. tokens'[k] /\ ~ (tokens'[k] < tokens'[k])
      BY <1>3
    <3> QED
      BY <1>1, <1>4, <1>6, <3>1, <3>2, <3>3 DEF Fenced, Published
  <2> QED
    BY <2>1, <2>2
<1> QED
  BY <1>6, <1>7, <1>8, <1>9, <1>10, <1>11, PublisherInv

(* A publisher gives its event up without having changed the record.       *)
LEMMA GiveUpInv ==
  ASSUME OutboxInv, NEW p \in Publishers, NEW me \in Workers,
         me.batchNow = publisher[p].batchNow,
         Goto(p, NextEvent(me)),
         UNCHANGED <<now, outbox, tokens, producer>>,
         Sent' = Sent, faults' \in Nat,
         channel' \in [Publishers -> SUBSET Messages],
         broker' \in SUBSET Messages, lost' \in SUBSET Messages
  PROVE  OutboxInv'
<1>1. /\ NextEvent(me) \in Workers /\ NextEvent(me).pc \in {"idle", "claim"}
      /\ NextEvent(me).batchNow \in {0, me.batchNow}
  BY NextEventType, NextEventFacts
<1>2. /\ publisher' = [publisher EXCEPT ![p] = NextEvent(me)]
      /\ publisher'[p] = NextEvent(me)
  BY DEF Goto, OutboxInv, TypeOK
<1>3. TypeOK'
  BY <1>1, <1>2 DEF OutboxInv, TypeOK
<1>4. publisher[p].batchNow <= now /\ now \in Nat
  BY DEF OutboxInv, TypeOK, Fenced
<1>5. Fenced(p)' /\ Published(p)'
  BY <1>1, <1>2, <1>3, <1>4, ReleasedFenced DEF OutboxInv
<1> QED
  BY <1>2, <1>3, <1>5, ReadOnlyFacts, PublisherInv

LEMMA ClaimInv ==
  ASSUME OutboxInv, NEW p \in Publishers, Claim(p)
  PROVE  OutboxInv'
<1> DEFINE me == publisher[p]
<1>1. me.pc = "claim" /\ UNCHANGED <<now, producer, channel, broker, lost, faults>>
  BY DEF Claim
<1>2. PICK s \in First(me.batch) :
        LET rest == [me EXCEPT !.batch = me.batch \ {s}]
        IN  \/ /\ Claimable(outbox[s.key], me.batchNow)
               /\ Take(p, s.key, me.batchNow)
               /\ Goto(p, IF s.key \in Routed
                          THEN [rest EXCEPT !.pc = "heartbeat", !.key = s.key,
                                            !.seen = s.count,
                                            !.payload = outbox[s.key].payload,
                                            !.token = tokens'[s.key],
                                            !.callNow = me.batchNow]
                          ELSE NextEvent(rest))
            \/ /\ Goto(p, NextEvent(rest))
               /\ UNCHANGED <<outbox, tokens>>
  BY DEF Claim
<1> DEFINE rest == [me EXCEPT !.batch = me.batch \ {s}]
           held == [rest EXCEPT !.pc = "heartbeat", !.key = s.key, !.seen = s.count,
                                !.payload = outbox[s.key].payload,
                                !.token = tokens'[s.key], !.callNow = me.batchNow]
<1>3. rest \in Workers /\ rest.batchNow = me.batchNow /\ faults' \in Nat
  BY <1>1 DEF OutboxInv, TypeOK, Workers
<1>4. CASE /\ Claimable(outbox[s.key], me.batchNow)
           /\ Take(p, s.key, me.batchNow)
           /\ Goto(p, IF s.key \in Routed THEN held ELSE NextEvent(rest))
  <2>1. PICK next : /\ Goto(p, next)
                    /\ next = NextEvent(rest) \/ next = held
    BY <1>4
  <2> QED
    BY <1>1, <1>3, <1>4, <2>1, TakeInv
<1>5. CASE Goto(p, NextEvent(rest)) /\ UNCHANGED <<outbox, tokens>>
  <2>1. /\ channel' \in [Publishers -> SUBSET Messages] /\ broker' \in SUBSET Messages
        /\ lost' \in SUBSET Messages
    BY <1>1 DEF OutboxInv, TypeOK
  <2> QED
    BY <1>1, <1>3, <1>5, <2>1, SentUnchanged, GiveUpInv
<1> QED
  BY <1>2, <1>4, <1>5

LEMMA RejectedInv ==
  ASSUME OutboxInv, NEW p \in Publishers, Rejected(p)
  PROVE  OutboxInv'
<1>1. /\ publisher[p] \in Workers /\ faults' \in Nat
      /\ channel' \in [Publishers -> SUBSET Messages] /\ broker' \in SUBSET Messages
      /\ lost' \in SUBSET Messages
  BY DEF OutboxInv, TypeOK, Rejected
<1> QED
  BY <1>1, SentUnchanged, GiveUpInv DEF Rejected

(* An owned call goes through, and its publisher goes on or gives up.      *)
LEMMA AppliedInv ==
  ASSUME OutboxInv, NEW p \in Publishers, HoldsFence(p), ApplyOwned(p),
         NEW next, Goto(p, next),
         \/ next = NextEvent(publisher[p])
         \/ /\ publisher[p].pc = "heartbeat"
            /\ next = [publisher[p] EXCEPT !.pc = "publish"],
         UNCHANGED <<now, tokens, producer, channel, broker, lost>>, faults' \in Nat
  PROVE  OutboxInv'
<1> DEFINE me == publisher[p]
           k == me.key
<1>1. /\ me \in Workers /\ me.pc \in OwnedCalls /\ Delivering(p) /\ Fenced(p) /\ Published(p)
      /\ now \in Nat
  BY DEF OutboxInv, TypeOK, HoldsFence, Delivering
<1>2. /\ NextEvent(me) \in Workers /\ NextEvent(me).pc \in {"idle", "claim"}
      /\ NextEvent(me).batchNow \in {0, me.batchNow}
  BY <1>1, NextEventType, NextEventFacts
<1>3. next \in Workers
  BY <1>1, <1>2 DEF Workers, PublisherPCs
<1>4. publisher' = [publisher EXCEPT ![p] = next] /\ publisher'[p] = next
  BY DEF Goto, OutboxInv, TypeOK
<1>5. TypeOK'
  BY <1>3, <1>4, ApplyOwnedType DEF OutboxInv, TypeOK
<1>6. Sent' = Sent
  BY SentUnchanged
<1>7. /\ AttemptsCounted'
      /\ \A j \in Keys : /\ outbox'[j].payload = outbox[j].payload
                         /\ outbox'[j].status # "ABSENT" <=> outbox[j].status # "ABSENT"
                         /\ outbox'[j].status = "DELIVERED" =>
                              \/ outbox'[j] = outbox[j]
                              \/ /\ me.pc = "markDelivered"
                                 /\ me.key = j
                                 /\ outbox'[j].token = me.token
                                 /\ outbox'[j].payload = me.payload
      /\ \A q \in Publishers \ {p} : publisher'[q] = publisher[q] => Fenced(q)'
  BY ApplyFenced
<1>8. DeliveredWasPublished'
  BY <1>1, <1>6, <1>7
  DEF OutboxInv, DeliveredWasPublished, Published, MessageOf
<1>9. Fenced(p)' /\ Published(p)'
  <2>1. CASE next = NextEvent(me)
    <3>1. publisher'[p].pc \in {"idle", "claim"} /\ publisher'[p].batchNow <= now'
      BY <1>1, <1>2, <1>4, <2>1 DEF Fenced
    <3> QED
      BY <1>5, <3>1, ReleasedFenced DEF OutboxInv
  <2>2. CASE me.pc = "heartbeat" /\ next = [me EXCEPT !.pc = "publish"]
    <3>1. /\ next.pc = "publish" /\ next.key = k /\ next.token = me.token
          /\ next.payload = me.payload /\ next.batchNow = me.batchNow
      BY <1>1, <2>2 DEF Workers
    <3>2. /\ k \in Keys /\ outbox[k] \in Records
          /\ outbox'[k] = [outbox[k] EXCEPT !.lease = me.batchNow + LeaseMs]
      BY <1>1, <2>2 DEF Fenced, OutboxInv, TypeOK, ApplyOwned, Updated
    <3>3. /\ outbox'[k].status = outbox[k].status /\ outbox'[k].owner = outbox[k].owner
          /\ outbox'[k].payload = outbox[k].payload
          /\ outbox'[k].lease = me.batchNow + LeaseMs
      BY <3>2 DEF Records
    <3>4. /\ me.payload \in Payloads /\ me.payload = outbox[k].payload
          /\ me.token \in 1 .. tokens[k] /\ me.batchNow <= now
          /\ me.token = tokens[k] => outbox[k].status = "PROCESSING" /\ outbox[k].owner = p
          /\ me.token < tokens[k] => me.batchNow + LeaseMs <= now
      BY <1>1 DEF Fenced
    <3>5. Fenced(p)'
      <4>1. /\ publisher'[p].pc = "publish" /\ publisher'[p].key = k
            /\ publisher'[p].token = me.token /\ publisher'[p].payload = me.payload
            /\ publisher'[p].batchNow = me.batchNow
            /\ now' = now /\ tokens' = tokens
        BY <1>4, <3>1
      <4> HIDE DEF me, k
      <4> QED
        BY <3>2, <3>3, <3>4, <4>1 DEF Fenced
    <3>6. Published(p)'
      BY <1>4, <3>1 DEF Published
    <3> QED
      BY <3>5, <3>6
  <2> QED
    BY <2>1, <2>2
<1>10. \A j \in Keys : tokens[j] <= tokens'[j]
  BY DEF OutboxInv, TypeOK
<1> QED
  BY <1>4, <1>5, <1>6, <1>7, <1>8, <1>9, <1>10, PublisherInv

LEMMA HeartbeatInv ==
  ASSUME OutboxInv, NEW p \in Publishers, Heartbeat(p)
  PROVE  OutboxInv'
<1>1. faults' \in Nat
  BY DEF OutboxInv, TypeOK, Heartbeat
<1> QED
  BY <1>1, AppliedInv DEF Heartbeat

LEMMA SettleInv ==
  ASSUME OutboxInv, NEW p \in Publishers, Settle(p)
  PROVE  OutboxInv'
<1>1. faults' \in Nat
  BY DEF OutboxInv, TypeOK, Settle
<1> QED
  BY <1>1, AppliedInv DEF Settle

(* The publication itself, whatever its answer.                            *)
LEMMA SendInv ==
  ASSUME OutboxInv, NEW p \in Publishers, publisher[p].pc = "publish",
         NEW next \in Workers, Goto(p, next),
         next.pc \in OwnedCalls \ {"heartbeat"},
         next.key = publisher[p].key, next.token = publisher[p].token,
         next.payload = publisher[p].payload, next.batchNow = publisher[p].batchNow,
         \/ UNCHANGED channel /\ next.pc # "markDelivered"
         \/ channel' = [channel EXCEPT ![p] = @ \cup {MessageOf(publisher[p])}],
         UNCHANGED <<now, outbox, tokens, producer, broker, lost, faults>>
  PROVE  OutboxInv'
<1> DEFINE me == publisher[p]
<1>1. me \in Workers /\ Delivering(p) /\ Fenced(p)
  BY DEF OutboxInv, TypeOK, Delivering
<1>2. /\ me.key \in Keys /\ me.payload \in Payloads /\ me.payload = outbox[me.key].payload
      /\ me.token \in 1 .. tokens[me.key] /\ me.token \in Nat
  BY <1>1 DEF Fenced, Workers
<1>3. MessageOf(me) \in Messages
  BY <1>2 DEF MessageOf, Messages
<1>4. publisher' = [publisher EXCEPT ![p] = next] /\ publisher'[p] = next
  BY DEF Goto, OutboxInv, TypeOK
<1>5. TypeOK'
  BY <1>3, <1>4 DEF OutboxInv, TypeOK
<1>6. \/ Sent' = Sent /\ next.pc # "markDelivered"
      \/ Sent' = Sent \cup {MessageOf(me)}
  BY SentUnchanged, SentGrows DEF OutboxInv, TypeOK
<1>7. CallsNamed' /\ AttemptsCounted' /\ DeliveredWasPublished'
  BY <1>6 DEF OutboxInv, CallsNamed, AttemptsCounted, DeliveredWasPublished
<1>8. MessagesFaithful'
  BY <1>2, <1>6 DEF OutboxInv, MessagesFaithful, MessageOf
<1>9. ASSUME NEW q \in Publishers
      PROVE  Fenced(q)' /\ Published(q)'
  <2>1. CASE q = p
    <3>1. Fenced(p)'
      BY <1>1, <1>4 DEF Fenced, Delivering
    <3>2. Published(p)'
      BY <1>4, <1>6 DEF Published, MessageOf
    <3> QED
      BY <2>1, <3>1, <3>2
  <2>2. CASE q # p
    <3>1. publisher'[q] = publisher[q] /\ Fenced(q) /\ Published(q)
      BY <1>4, <2>2 DEF OutboxInv, TypeOK
    <3> QED
      BY <1>6, <3>1 DEF Fenced, Delivering, Published, MessageOf
  <2> QED
    BY <2>1, <2>2
<1> QED
  BY <1>5, <1>7, <1>8, <1>9 DEF OutboxInv

LEMMA PublishInv ==
  ASSUME OutboxInv, NEW p \in Publishers, Publish(p)
  PROVE  OutboxInv'
<1> DEFINE next == [publisher[p] EXCEPT !.pc = "markDelivered", !.callNow = now]
<1>1. publisher[p] \in Workers /\ now \in Nat
  BY DEF OutboxInv, TypeOK
<1>2. /\ next \in Workers /\ next.pc = "markDelivered" /\ next.key = publisher[p].key
      /\ next.token = publisher[p].token /\ next.payload = publisher[p].payload
      /\ next.batchNow = publisher[p].batchNow
  BY <1>1 DEF Workers, PublisherPCs, OwnedCalls
<1>3. "markDelivered" \in OwnedCalls \ {"heartbeat"}
  BY DEF OwnedCalls
<1> QED
  BY <1>2, <1>3, SendInv DEF Publish

LEMMA FailureInv ==
  ASSUME OutboxInv, NEW p \in Publishers, publisher[p].pc = "publish", NEW error,
         NEW next \in AfterFailure(publisher[p], error), Goto(p, next),
         \/ UNCHANGED channel
         \/ channel' = [channel EXCEPT ![p] = @ \cup {MessageOf(publisher[p])}],
         UNCHANGED <<now, outbox, tokens, producer, broker, lost, faults>>
  PROVE  OutboxInv'
<1>1. publisher[p] \in Workers /\ now \in Nat
  BY DEF OutboxInv, TypeOK
<1>2. /\ next \in Workers /\ next.pc \in {"markFailed", "markDeadLetter"}
      /\ next.key = publisher[p].key /\ next.token = publisher[p].token
      /\ next.payload = publisher[p].payload /\ next.batchNow = publisher[p].batchNow
  BY <1>1, AfterFailureType
<1>3. next.pc \in OwnedCalls \ {"heartbeat"} /\ next.pc # "markDelivered"
  BY <1>2 DEF OwnedCalls
<1> QED
  BY <1>2, <1>3, SendInv

LEMMA StoreFailsInv ==
  ASSUME OutboxInv, NEW p \in Publishers, StoreFails(p)
  PROVE  OutboxInv'
<1> DEFINE me == publisher[p]
<1>1. /\ UNCHANGED <<now, producer, channel, broker, lost>> /\ faults' \in Nat
      /\ channel' \in [Publishers -> SUBSET Messages] /\ broker' \in SUBSET Messages
      /\ lost' \in SUBSET Messages /\ me \in Workers
  BY DEF StoreFails, Fault, OutboxInv, TypeOK
<1>2. ASSUME me.pc = "claim", NEW s \in First(me.batch),
             Goto(p, NextEvent([me EXCEPT !.batch = me.batch \ {s}])),
             \/ UNCHANGED <<outbox, tokens>>
             \/ Claimable(outbox[s.key], me.batchNow) /\ Take(p, s.key, me.batchNow)
      PROVE  OutboxInv'
  <2> DEFINE rest == [me EXCEPT !.batch = me.batch \ {s}]
  <2>1. rest \in Workers /\ rest.batchNow = me.batchNow
    BY <1>1 DEF Workers
  <2>2. CASE UNCHANGED <<outbox, tokens>>
    BY <1>1, <1>2, <2>1, <2>2, SentUnchanged, GiveUpInv
  <2>3. CASE Claimable(outbox[s.key], me.batchNow) /\ Take(p, s.key, me.batchNow)
    BY <1>1, <1>2, <2>1, <2>3, TakeInv
  <2> QED
    BY <1>2, <2>2, <2>3
<1>3. CASE me.pc \in OwnedCalls /\ Goto(p, NextEvent(me)) /\ UNCHANGED <<outbox, tokens>>
  BY <1>1, <1>3, SentUnchanged, GiveUpInv
<1>4. CASE HoldsFence(p) /\ ApplyOwned(p) /\ Goto(p, NextEvent(me)) /\ UNCHANGED tokens
  BY <1>1, <1>4, AppliedInv
<1> QED
  BY <1>2, <1>3, <1>4 DEF StoreFails

LEMMA CrashInv ==
  ASSUME OutboxInv, NEW p \in Publishers, Crash(p)
  PROVE  OutboxInv'
<1>1. /\ UNCHANGED <<now, outbox, tokens, producer, broker>> /\ DropBuffer(p)
      /\ faults' \in Nat /\ publisher' = [publisher EXCEPT ![p] = Idle]
      /\ publisher'[p] = Idle
  BY DEF Crash, Fault, Goto, OutboxInv, TypeOK
<1>2. Sent' = Sent
  BY <1>1, SentDropped DEF OutboxInv, TypeOK
<1>3. TypeOK'
  BY <1>1, IdleType DEF OutboxInv, TypeOK, DropBuffer
<1>4. Fenced(p)' /\ Published(p)'
  <2>1. publisher'[p].pc = "idle" /\ publisher'[p].batchNow <= now'
    BY <1>1 DEF Idle, OutboxInv, TypeOK
  <2> QED
    BY <1>3, <2>1, ReleasedFenced DEF OutboxInv
<1> QED
  BY <1>1, <1>2, <1>3, <1>4, ReadOnlyFacts, PublisherInv

LEMMA EnvironmentInv ==
  ASSUME OutboxInv,
         \/ Tick
         \/ \E p \in Publishers : Flush(p) \/ ConnectionLost(p)
  PROVE  OutboxInv'
<1>1. CASE Tick
  <2>1. TypeOK' /\ CallsNamed' /\ now <= now'
    BY <1>1 DEF Tick, OutboxInv, TypeOK, CallsNamed
  <2> QED
    BY <1>1, <2>1, SentUnchanged, QuietInv DEF Tick
<1>2. ASSUME NEW p \in Publishers, Flush(p)
      PROVE  OutboxInv'
  <2>1. TypeOK' /\ CallsNamed' /\ now <= now'
    BY <1>2 DEF Flush, OutboxInv, TypeOK, CallsNamed
  <2>2. Sent' = Sent
    BY <1>2, SentFlushed DEF OutboxInv, TypeOK
  <2> QED
    BY <1>2, <2>1, <2>2, QuietInv DEF Flush
<1>3. ASSUME NEW p \in Publishers, ConnectionLost(p)
      PROVE  OutboxInv'
  <2>1. TypeOK' /\ CallsNamed' /\ now <= now'
    BY <1>3 DEF ConnectionLost, DropBuffer, Fault, OutboxInv, TypeOK, CallsNamed
  <2>2. Sent' = Sent
    BY <1>3, SentDropped DEF ConnectionLost, OutboxInv, TypeOK
  <2> QED
    BY <1>3, <2>1, <2>2, QuietInv DEF ConnectionLost
<1> QED
  BY <1>1, <1>2, <1>3

LEMMA StepInv == OutboxInv /\ [Next]_vars => OutboxInv'
<1> SUFFICES ASSUME OutboxInv, [Next]_vars PROVE OutboxInv'
  OBVIOUS
<1>1. CASE UNCHANGED vars
  <2>1. TypeOK' /\ CallsNamed' /\ now <= now'
    BY <1>1 DEF vars, OutboxInv, TypeOK, CallsNamed
  <2> QED
    BY <1>1, <2>1, SentUnchanged, QuietInv DEF vars
<1>2. ASSUME NEW r \in Producers, ProducerStep(r)
      PROVE  OutboxInv'
  BY <1>2, FindInv, InsertInv, ReloadInv DEF ProducerStep
<1>3. ASSUME NEW p \in Publishers, PublisherStep(p)
      PROVE  OutboxInv'
  <2>1. CASE TransportFails(p) \/ RefuseMalformed(p)
    BY <2>1, FailureInv DEF TransportFails, RefuseMalformed
  <2> QED
    BY <1>3, <2>1, ScanInv, ClaimInv, HeartbeatInv, PublishInv, SettleInv, RejectedInv
    DEF PublisherStep
<1>4. CASE Environment
  BY <1>4, EnvironmentInv, StoreFailsInv, CrashInv DEF Environment
<1> QED
  BY <1>1, <1>2, <1>3, <1>4 DEF Next

-----------------------------------------------------------------------------
(* The theorems.                                                           *)

(* The inductive invariant holds: tokens, attempts, ownership and messages *)
(* agree in every reachable state. (claim, heartbeat, markDelivered)       *)
THEOREM Invariance == Spec => []OutboxInv
  BY InitInv, StepInv, PTL DEF Spec

(* Type correctness: whatever the processes, the store and the transport   *)
(* do, each variable keeps to its set. (every handler)                     *)
THEOREM TypeCorrect == Spec => []TypeOK
<1>1. OutboxInv => TypeOK
  BY DEF OutboxInv
<1> QED
  BY <1>1, Invariance, PTL

(* Lease exclusivity: a publisher whose own lease runs still owns its      *)
(* event, however stale the clock reading its claim used. (claim)          *)
THEOREM Exclusive == Spec => []LeaseExclusive
<1>1. OutboxInv => LeaseExclusive
  <2> SUFFICES ASSUME OutboxInv, NEW p \in Publishers, LeaseRuns(p)
               PROVE  /\ outbox[publisher[p].key].status = "PROCESSING"
                      /\ outbox[publisher[p].key].owner = p
                      /\ outbox[publisher[p].key].token = publisher[p].token
    BY DEF LeaseExclusive
  <2> DEFINE me == publisher[p]
  <2>1. Fenced(p) /\ Delivering(p) /\ me.batchNow + LeaseMs > now
    BY DEF OutboxInv, LeaseRuns
  <2>2. me.key \in Keys /\ me.token \in 1 .. tokens[me.key]
    BY <2>1 DEF Fenced
  <2>3. /\ tokens[me.key] \in Nat /\ me.token \in Nat /\ me.batchNow \in Nat /\ now \in Nat
        /\ outbox[me.key].token = tokens[me.key]
    BY <2>2 DEF OutboxInv, TypeOK, Workers, AttemptsCounted
  <2>4. me.token = tokens[me.key]
    BY <2>1, <2>2, <2>3, OutboxAssumption DEF Fenced
  <2> QED
    BY <2>1, <2>3, <2>4 DEF Fenced
<1> QED
  BY <1>1, Invariance, PTL

(* No record is DELIVERED that its last claim has not published. (deliver) *)
THEOREM DeliveredPublished == Spec => []DeliveredWasPublished
<1>1. OutboxInv => DeliveredWasPublished
  BY DEF OutboxInv
<1> QED
  BY <1>1, Invariance, PTL

(* A settled record never changes again: claims take no settled record,    *)
(* owned calls need one in processing, and inserts need none at all.       *)
(* (claim, markDelivered, markFailed, markDeadLetter)                      *)
LEMMA RecordChanges ==
  ASSUME OutboxInv, [Next]_vars, NEW k \in Keys, outbox[k].status \in Terminal
  PROVE  outbox'[k] = outbox[k]
<1>. outbox \in [Keys -> Records]
  BY DEF OutboxInv, TypeOK
<1>1. ASSUME NEW p \in Publishers, NEW key \in Keys, NEW t,
             Claimable(outbox[key], t), Take(p, key, t)
      PROVE  outbox'[k] = outbox[k]
  <2>1. key # k
    BY <1>1 DEF Claimable, Terminal
  <2>. QED BY <1>1, <2>1 DEF Take
<1>2. ASSUME NEW p \in Publishers, HoldsFence(p), ApplyOwned(p)
      PROVE  outbox'[k] = outbox[k]
  <2>1. publisher[p].key # k
    BY <1>2 DEF HoldsFence, Owned, Terminal
  <2>. QED BY <1>2, <2>1 DEF ApplyOwned
<1>3. ASSUME NEW r \in Producers, ProducerStep(r)
      PROVE  outbox'[k] = outbox[k]
  BY <1>3 DEF ProducerStep, Find, Insert, Reload, Terminal
<1>4. ASSUME NEW p \in Publishers, Claim(p) \/ StoreFails(p)
      PROVE  outbox'[k] = outbox[k]
  <2>1. \A s \in First(publisher[p].batch) : s.key \in Keys
    BY FirstType DEF OutboxInv, TypeOK, Workers
  <2>2. CASE UNCHANGED outbox
    BY <2>2
  <2>3. CASE \E s \in First(publisher[p].batch) :
               /\ Claimable(outbox[s.key], publisher[p].batchNow)
               /\ Take(p, s.key, publisher[p].batchNow)
    BY <1>1, <2>1, <2>3
  <2>4. CASE HoldsFence(p) /\ ApplyOwned(p)
    BY <1>2, <2>4
  <2>. QED BY <1>4, <2>2, <2>3, <2>4 DEF Claim, StoreFails
<1>5. ASSUME NEW p \in Publishers, PublisherStep(p), ~ Claim(p)
      PROVE  outbox'[k] = outbox[k]
  BY <1>2, <1>5 DEF PublisherStep, Scan, Heartbeat, Publish, TransportFails,
     RefuseMalformed, Settle, Rejected
<1>6. CASE UNCHANGED vars
  BY <1>6 DEF vars
<1>7. CASE Environment
  BY <1>4, <1>7 DEF Environment, Tick, Flush, ConnectionLost, Crash
<1>. QED BY <1>3, <1>4, <1>5, <1>6, <1>7 DEF Next

(* A delivered or dead-lettered event stays so, whichever stale publisher  *)
(* wakes up.                                                               *)
THEOREM Final == Spec => TerminalIsFinal
<1>1. OutboxInv /\ [Next]_vars =>
         [\A k \in Keys : outbox[k].status \in Terminal => outbox'[k] = outbox[k]]_vars
  BY RecordChanges
<1>. QED BY <1>1, Invariance, PTL DEF Spec, TerminalIsFinal

-----------------------------------------------------------------------------
(* Publications.                                                           *)

(* The messages of an event carry pairwise different tokens, all of them   *)
(* drawn, so there are no more of them than tokens.                        *)
LEMMA MessagesAreTokens ==
  ASSUME OutboxInv, NEW k \in Keys
  PROVE  Cardinality({m \in Sent : m.key = k}) <= tokens[k]
<1> DEFINE S == {m \in Sent : m.key = k}
           f == [m \in S |-> m.token]
<1>1. tokens[k] \in Nat
  BY DEF OutboxInv, TypeOK
<1>2. \A m \in S : /\ m \in Messages /\ m.key = k
                   /\ m.payload = outbox[k].payload /\ m.token \in 1 .. tokens[k]
  BY DEF OutboxInv, TypeOK, MessagesFaithful, Sent
<1>3. \A m, n \in S : m.token = n.token => m = n
  BY <1>2 DEF Messages
<1>4. f \in Injection(S, 1 .. tokens[k])
  BY <1>2, <1>3 DEF Injection, IsInjective
<1>5. IsFiniteSet(1 .. tokens[k]) /\ Cardinality(1 .. tokens[k]) = tokens[k]
  BY <1>1, FS_Interval
<1>6. Cardinality(S) <= Cardinality(1 .. tokens[k])
  BY <1>4, <1>5, FS_Injection
<1>. QED BY <1>5, <1>6

(* An event is never sent more often than it was claimed, nor than its     *)
(* budget allows. (claim, deliver)                                         *)
THEOREM WithinBudget == Spec => []PublicationsWithinBudget
<1>1. OutboxInv => PublicationsWithinBudget
  BY MessagesAreTokens DEF PublicationsWithinBudget, OutboxInv, AttemptsCounted
<1>. QED BY <1>1, Invariance, PTL

-----------------------------------------------------------------------------
(* Creation.                                                               *)

(* What a call of createOrGet was told fits the record of its key, and     *)
(* one call at most was told that it created it.                           *)
AnswersAgree ==
    \A r \in Producers :
        /\ producer[r].pc = "done" =>
             (producer[r].result # "conflict"
                <=> producer[r].payload = outbox[producer[r].key].payload)
        /\ producer[r].result = "created" => producer[r].pc = "done"
        /\ producer[r].result = "created" =>
             \A other \in Producers \ {r} :
                 producer[other].key = producer[r].key => producer[other].result # "created"

(* No publisher touches the payload of a record, nor removes one.          *)
LEMMA PayloadStays ==
  ASSUME OutboxInv, NEW k \in Keys,
         \/ \E p \in Publishers : PublisherStep(p)
         \/ Environment
  PROVE  outbox'[k].payload = outbox[k].payload
<1>. outbox \in [Keys -> Records]
  BY DEF OutboxInv, TypeOK
<1>1. ASSUME NEW p \in Publishers, NEW key \in Keys, NEW t, Take(p, key, t)
      PROVE  outbox'[k].payload = outbox[k].payload
  BY <1>1 DEF Take, Claimed, Records
<1>2. ASSUME NEW p \in Publishers, HoldsFence(p), ApplyOwned(p)
      PROVE  outbox'[k].payload = outbox[k].payload
  <2>1. CASE publisher[p].key # k
    BY <1>2, <2>1 DEF ApplyOwned
  <2>2. CASE publisher[p].key = k
    <3>1. outbox'[k] = Updated(outbox[k], publisher[p])
      BY <1>2, <2>2 DEF ApplyOwned
    <3>2. CASE publisher[p].pc = "heartbeat"
      BY <3>1, <3>2 DEF Updated, Records
    <3>3. CASE publisher[p].pc = "markDelivered"
      BY <3>1, <3>3 DEF Updated, Records
    <3>4. CASE publisher[p].pc = "markFailed"
      BY <3>1, <3>4 DEF Updated, Records
    <3>5. CASE publisher[p].pc = "markDeadLetter"
      BY <3>1, <3>5 DEF Updated, Records
    <3>. QED BY <1>2, <3>2, <3>3, <3>4, <3>5 DEF HoldsFence, OwnedCalls
  <2>. QED BY <2>1, <2>2
<1>3. ASSUME NEW p \in Publishers, Claim(p) \/ StoreFails(p)
      PROVE  outbox'[k].payload = outbox[k].payload
  <2>1. \A s \in First(publisher[p].batch) : s.key \in Keys
    BY FirstType DEF OutboxInv, TypeOK, Workers
  <2>2. CASE UNCHANGED outbox
    BY <2>2
  <2>3. CASE \E s \in First(publisher[p].batch) :
               Take(p, s.key, publisher[p].batchNow)
    BY <1>1, <2>1, <2>3
  <2>4. CASE HoldsFence(p) /\ ApplyOwned(p)
    BY <1>2, <2>4
  <2>. QED BY <1>3, <2>2, <2>3, <2>4 DEF Claim, StoreFails
<1>4. ASSUME NEW p \in Publishers, PublisherStep(p), ~ Claim(p)
      PROVE  outbox'[k].payload = outbox[k].payload
  BY <1>2, <1>4 DEF PublisherStep, Scan, Heartbeat, Publish, TransportFails,
     RefuseMalformed, Settle, Rejected
<1>5. CASE Environment
  BY <1>3, <1>5 DEF Environment, Tick, Flush, ConnectionLost, Crash
<1>. QED BY <1>3, <1>4, <1>5

LEMMA OthersKeepProducers ==
  ASSUME \/ \E p \in Publishers : PublisherStep(p)
         \/ Environment
  PROVE  producer' = producer
  BY DEF PublisherStep, Scan, Claim, Heartbeat, Publish, TransportFails, RefuseMalformed,
     Settle, Rejected, Environment, Tick, Flush, StoreFails, ConnectionLost, Crash

LEMMA InitAnswers == Init => AnswersAgree
  BY DEF Init, AnswersAgree, NotStarted

(* A call that finds a record is told how its payload compares.            *)
LEMMA ComparedAnswers ==
  ASSUME OutboxInv, AnswersAgree, outbox' = outbox, NEW r \in Producers,
         NEW next \in Calls, producer' = [producer EXCEPT ![r] = next],
         next.result # "created",
         next.pc = "done" =>
           next.result = CompareWith(outbox[next.key], next.payload)
  PROVE  AnswersAgree'
<1>1. /\ producer'[r] = next
      /\ \A q \in Producers \ {r} : producer'[q] = producer[q]
  BY DEF OutboxInv, TypeOK
<1>2. next.pc = "done" =>
        (next.result # "conflict" <=> next.payload = outbox'[next.key].payload)
  BY DEF CompareWith
<1>3. ASSUME NEW q \in Producers
      PROVE  /\ producer'[q].pc = "done" =>
                  (producer'[q].result # "conflict"
                     <=> producer'[q].payload = outbox'[producer'[q].key].payload)
             /\ producer'[q].result = "created" => producer'[q].pc = "done"
             /\ producer'[q].result = "created" =>
                  \A other \in Producers \ {q} :
                     producer'[other].key = producer'[q].key
                       => producer'[other].result # "created"
  <2>1. CASE q = r
    BY <1>1, <1>2, <2>1
  <2>2. CASE q # r
    BY <1>1, <2>2 DEF AnswersAgree
  <2>. QED BY <2>1, <2>2
<1>. QED BY <1>3 DEF AnswersAgree

LEMMA FindAnswers ==
  ASSUME OutboxInv, AnswersAgree, NEW r \in Producers, NEW k \in Keys,
         NEW payload \in Payloads, Find(r, k, payload)
  PROVE  AnswersAgree'
<1>1. CASE outbox[k].status = "ABSENT"
  <2> DEFINE next == [NotStarted EXCEPT !.pc = "insert", !.key = k, !.payload = payload,
                                        !.callNow = now]
  <2>1. producer' = [producer EXCEPT ![r] = next] /\ outbox' = outbox /\ now \in Nat
    BY <1>1 DEF Find, OutboxInv, TypeOK
  <2>2. next \in Calls /\ next.result # "created" /\ next.pc # "done"
    BY <2>1 DEF NotStarted, Calls, ProducerPCs, Results
  <2>. QED BY <2>1, <2>2, ComparedAnswers
<1>2. CASE outbox[k].status # "ABSENT"
  <2> DEFINE next == [NotStarted EXCEPT !.pc = "done", !.key = k, !.payload = payload,
                                        !.result = CompareWith(outbox[k], payload)]
  <2>1. producer' = [producer EXCEPT ![r] = next] /\ outbox' = outbox
    BY <1>2 DEF Find
  <2>2. /\ next \in Calls /\ next.result # "created" /\ next.key = k
        /\ next.payload = payload /\ next.result = CompareWith(outbox[k], payload)
    BY DEF NotStarted, Calls, ProducerPCs, Results, CompareWith
  <2>. QED BY <2>1, <2>2, ComparedAnswers
<1>. QED BY <1>1, <1>2

LEMMA ReloadAnswers ==
  ASSUME OutboxInv, AnswersAgree, NEW r \in Producers, Reload(r)
  PROVE  AnswersAgree'
<1> DEFINE me == producer[r]
           answer == CompareWith(outbox[me.key], me.payload)
           next == [me EXCEPT !.pc = "done", !.result = answer]
<1>1. me \in Calls /\ answer \in {"duplicate", "conflict"}
  BY DEF OutboxInv, TypeOK, CompareWith
<1>2. producer' = [producer EXCEPT ![r] = next] /\ outbox' = outbox
  BY DEF Reload, OutboxInv, TypeOK
<1>3. /\ next \in Calls /\ next.result = answer /\ next.key = me.key
      /\ next.payload = me.payload
  <2> HIDE DEF answer
  <2>. QED BY <1>1 DEF Calls, ProducerPCs, Results
<1>. QED BY <1>1, <1>2, <1>3, ComparedAnswers

LEMMA InsertAnswers ==
  ASSUME OutboxInv, AnswersAgree, NEW r \in Producers, Insert(r)
  PROVE  AnswersAgree'
<1> DEFINE me == producer[r]
           k == me.key
<1>1. me \in Calls /\ k \in Keys /\ me.pc = "insert"
  BY DEF OutboxInv, TypeOK, CallsNamed, Insert
<1>2. CASE outbox[k].status # "ABSENT"
  <2> DEFINE next == [me EXCEPT !.pc = "reload"]
  <2>1. producer' = [producer EXCEPT ![r] = next] /\ outbox' = outbox
    BY <1>2 DEF Insert
  <2>2. /\ next \in Calls /\ next.pc = "reload" /\ next.result = me.result
    BY <1>1 DEF Calls, ProducerPCs
  <2>3. me.result # "created"
    BY <1>1 DEF AnswersAgree
  <2>. QED BY <2>1, <2>2, <2>3, ComparedAnswers
<1>3. CASE outbox[k].status = "ABSENT"
  <2>1. /\ outbox' = [outbox EXCEPT ![k] = NewRecord(me.payload, me.callNow)]
        /\ producer' = [producer EXCEPT ![r].pc = "done", ![r].result = "created"]
    BY <1>3 DEF Insert
  <2>2. /\ outbox'[k].payload = me.payload
        /\ \A j \in Keys \ {k} : outbox'[j] = outbox[j]
    BY <1>1, <2>1 DEF NewRecord, OutboxInv, TypeOK
  <2>3. /\ producer'[r].pc = "done" /\ producer'[r].result = "created"
        /\ producer'[r].key = k /\ producer'[r].payload = me.payload
        /\ \A q \in Producers \ {r} : producer'[q] = producer[q]
    BY <1>1, <2>1 DEF OutboxInv, TypeOK, Calls
  <2>4. \A q \in Producers : producer[q].pc = "done" =>
                               producer[q].key \in Keys /\ producer[q].key # k
    BY <1>3 DEF OutboxInv, CallsNamed
  <2>5. \A q \in Producers \ {r} : producer[q].result = "created" => producer[q].key # k
    BY <2>4 DEF AnswersAgree
  <2> HIDE DEF me, k
  <2>6. ASSUME NEW q \in Producers
        PROVE  /\ producer'[q].pc = "done" =>
                    (producer'[q].result # "conflict"
                       <=> producer'[q].payload = outbox'[producer'[q].key].payload)
               /\ producer'[q].result = "created" => producer'[q].pc = "done"
               /\ producer'[q].result = "created" =>
                    \A other \in Producers \ {q} :
                       producer'[other].key = producer'[q].key
                         => producer'[other].result # "created"
    <3>1. CASE q = r
      BY <2>2, <2>3, <2>5, <3>1
    <3>2. CASE q # r
      <4>1. producer'[q] = producer[q]
        BY <2>3, <3>2
      <4>2. producer[q].pc = "done" =>
              outbox'[producer[q].key] = outbox[producer[q].key]
        BY <2>2, <2>4
      <4>3. producer[q].result = "created" =>
              \A other \in Producers \ {q} :
                 producer'[other].key = producer[q].key => producer'[other].result # "created"
        BY <2>3, <2>5, <3>2 DEF AnswersAgree
      <4>. QED BY <4>1, <4>2, <4>3 DEF AnswersAgree
    <3>. QED BY <3>1, <3>2
  <2>. QED BY <2>6 DEF AnswersAgree
<1>. QED BY <1>2, <1>3

LEMMA StepAnswers == OutboxInv /\ AnswersAgree /\ [Next]_vars => AnswersAgree'
<1> SUFFICES ASSUME OutboxInv, AnswersAgree, [Next]_vars PROVE AnswersAgree'
  OBVIOUS
<1>1. ASSUME NEW r \in Producers, ProducerStep(r)
      PROVE  AnswersAgree'
  BY <1>1, FindAnswers, InsertAnswers, ReloadAnswers DEF ProducerStep
<1>2. CASE UNCHANGED vars
  BY <1>2 DEF vars, AnswersAgree
<1>3. CASE \/ \E p \in Publishers : PublisherStep(p)
           \/ Environment
  <2>1. producer' = producer
    BY <1>3, OthersKeepProducers
  <2>2. \A k \in Keys : outbox'[k].payload = outbox[k].payload
    BY <1>3, PayloadStays
  <2>3. \A r \in Producers : producer[r].pc = "done" => producer[r].key \in Keys
    BY DEF OutboxInv, CallsNamed
  <2>. QED BY <2>1, <2>2, <2>3 DEF AnswersAgree
<1>. QED BY <1>1, <1>2, <1>3 DEF Next

(* Calls that race on a key agree on who created the record and on the     *)
(* payload it has, which is the only one ever sent. (createOrGet)          *)
THEOREM CallersAgree == Spec => []CreationAgrees
<1>1. Spec => []AnswersAgree
  BY InitAnswers, StepAnswers, Invariance, PTL DEF Spec
<1>2. OutboxInv /\ AnswersAgree => CreationAgrees
  BY DEF OutboxInv, CallsNamed, MessagesFaithful, AnswersAgree, CreationAgrees
<1>. QED BY <1>1, <1>2, Invariance, PTL

-----------------------------------------------------------------------------
(* The refinement. What a stage sees of the outbox: intents, outcomes and  *)
(* transmissions.                                                          *)

Intents == [k \in Keys |-> outbox[k].payload]
Outcomes == [k \in Keys |-> Outcome(outbox[k].status)]

LEMMA OutcomeFacts ==
  ASSUME NEW status
  PROVE  /\ status = "DELIVERED" => Outcome(status) = "delivered"
         /\ status = "DEAD_LETTER" => Outcome(status) = "dead"
         /\ status \notin Terminal => Outcome(status) = "open"
  BY DEF Outcome, Terminal

(* A call of createOrGet records an intent, or changes nothing.            *)
LEMMA InsertRecords ==
  ASSUME OutboxInv, NEW r \in Producers, Insert(r), outbox' # outbox
  PROVE  \E k \in Keys : \E payload \in Payloads : Handoff!Record(k, payload)
<1> DEFINE k == producer[r].key
           payload == producer[r].payload
           new == NewRecord(payload, producer[r].callNow)
<1>1. k \in Keys /\ payload \in Payloads
  BY DEF OutboxInv, CallsNamed, Insert
<1>2. outbox[k].status = "ABSENT" /\ outbox' = [outbox EXCEPT ![k] = new]
  BY DEF Insert
<1>3. outbox[k].payload = NoOne
  BY <1>1, <1>2 DEF OutboxInv, AttemptsCounted, Absent
<1>4. new.payload = payload /\ new.status = "PENDING"
  BY DEF NewRecord
<1>5. \A j \in Keys : outbox'[j] = IF j = k THEN new ELSE outbox[j]
  BY <1>1, <1>2 DEF OutboxInv, TypeOK
<1>6. Intents' = [Intents EXCEPT ![k] = payload] /\ Intents[k] = NoOne
  BY <1>1, <1>3, <1>4, <1>5 DEF Intents
<1>7. Outcomes' = Outcomes
  <2>1. Outcome("PENDING") = "open" /\ Outcome("ABSENT") = "open"
    BY OutcomeFacts DEF Terminal
  <2>2. \A j \in Keys : Outcome(outbox'[j].status) = Outcome(outbox[j].status)
    BY <1>2, <1>4, <1>5, <2>1
  <2>. QED BY <2>2 DEF Outcomes
<1>8. Sent' = Sent
  BY SentUnchanged DEF Insert
<1>. QED BY <1>1, <1>6, <1>7, <1>8 DEF Handoff!Record, Intents, Outcomes

(* Tokens of one event, all but one.                                       *)
LEMMA TokensBut ==
  ASSUME NEW n \in Nat, NEW t \in 1 .. n, NEW S,
         NEW f \in Injection(S, (1 .. n) \ {t})
  PROVE  Cardinality(S) \in Nat /\ Cardinality(S) < n
<1>1. IsFiniteSet(1 .. n) /\ Cardinality(1 .. n) = n
  BY FS_Interval
<1>2. IsFiniteSet((1 .. n) \ {t}) /\ Cardinality((1 .. n) \ {t}) = n - 1
  BY <1>1, FS_RemoveElement
<1>3. IsFiniteSet(S) /\ Cardinality(S) <= n - 1
  BY <1>2, FS_Injection
<1>. QED BY <1>3, FS_CardinalityType

LEMMA SameCardinality ==
  ASSUME NEW S
  PROVE  Handoff!Cardinality(S) = Cardinality(S)
  BY DEF Handoff!Cardinality, Cardinality

(* A publication transmits, unless it repeats a message.                   *)
LEMMA SendTransmits ==
  ASSUME OutboxInv, NEW p \in Publishers, publisher[p].pc = "publish",
         Sent' = Sent \cup {MessageOf(publisher[p])}, outbox' = outbox, Sent' # Sent
  PROVE  \E k \in Keys : \E token \in 1 .. MaxAttempts : Handoff!Transmit(k, token)
<1> DEFINE me == publisher[p]
           k == me.key
           n == tokens[k]
           S == {m \in Sent : m.key = k}
           T == (1 .. n) \ {me.token}
           f == [m \in S |-> m.token]
<1>1. /\ k \in Keys /\ me.payload \in Payloads /\ me.payload = outbox[k].payload
      /\ me.token \in 1 .. n
  BY DEF OutboxInv, Fenced, Delivering
<1>2. n \in Nat /\ n <= MaxAttempts /\ MaxAttempts \in Nat
  BY <1>1, OutboxAssumption DEF OutboxInv, TypeOK, AttemptsCounted
<1>3. \A m \in S : /\ m \in Messages /\ m.key = k
                   /\ m.payload = outbox[k].payload /\ m.token \in 1 .. n
  BY DEF OutboxInv, TypeOK, MessagesFaithful, Sent
<1>4. MessageOf(me) \notin Sent
  OBVIOUS
<1>5. \A m \in S : m.token # me.token
  BY <1>1, <1>3, <1>4 DEF Messages, MessageOf
<1>6. \A m, o \in S : m.token = o.token => m = o
  BY <1>3 DEF Messages
<1>7. f \in Injection(S, T)
  BY <1>3, <1>5, <1>6 DEF Injection, IsInjective
<1>8. Cardinality(S) \in Nat /\ Cardinality(S) < n
  <2> HIDE DEF n, S, f
  <2>. QED BY <1>1, <1>2, <1>7, TokensBut
<1>9. Cardinality(S) < MaxAttempts
  <2> HIDE DEF n, S
  <2>. QED BY <1>2, <1>8
<1>10. Intents[k] = me.payload /\ me.payload # NoOne
  BY <1>1, OutboxAssumption DEF Intents
<1>11. Intents' = Intents /\ Outcomes' = Outcomes
  BY DEF Intents, Outcomes
<1>12. me.token \in 1 .. MaxAttempts
  BY <1>1, <1>2
<1>13. Handoff!TransmissionsOf(k) = S
  BY DEF Handoff!TransmissionsOf
<1>14. Sent' = Sent \cup {[key |-> k, payload |-> Intents[k], token |-> me.token]}
  BY <1>10 DEF MessageOf
<1>15. Handoff!Transmit(k, me.token)
  <2> HIDE DEF S
  <2>1. /\ Handoff!Cardinality(Handoff!TransmissionsOf(k)) < MaxAttempts
        /\ \A m \in Handoff!TransmissionsOf(k) : m.token # me.token
    BY <1>5, <1>9, <1>13, SameCardinality
  <2>2. Intents[k] # NoOne
    BY <1>10
  <2> HIDE DEF me, k
  <2>. QED BY <1>11, <1>14, <2>1, <2>2 DEF Handoff!Transmit, Intents, Outcomes
<1>. QED BY <1>1, <1>12, <1>15

(* An owned call closes the intent, or leaves it open.                     *)
LEMMA OwnedCloses ==
  ASSUME OutboxInv, NEW p \in Publishers, HoldsFence(p), ApplyOwned(p), Sent' = Sent
  PROVE  \/ Intents' = Intents /\ Outcomes' = Outcomes
         \/ \E k \in Keys : \E result \in {"delivered", "dead"} : Handoff!Close(k, result)
<1> DEFINE me == publisher[p]
           k == me.key
           rec == outbox[k]
<1>1. me \in Workers /\ me.pc \in OwnedCalls /\ Owned(rec, p, me.token, me.callNow)
  BY DEF OutboxInv, TypeOK, HoldsFence
<1>2. /\ k \in Keys /\ me.payload \in Payloads /\ me.payload = rec.payload
      /\ rec \in Records
  BY <1>1 DEF OutboxInv, TypeOK, Fenced, Delivering
<1>3. rec.status = "PROCESSING" /\ Outcome("PROCESSING") = "open"
  BY <1>1, OutcomeFacts DEF Owned, Terminal
<1>4. \A j \in Keys : outbox'[j] = IF j = k THEN Updated(rec, me) ELSE outbox[j]
  BY <1>2 DEF ApplyOwned, OutboxInv, TypeOK
<1>5. Updated(rec, me).payload = rec.payload
  <2>1. CASE me.pc = "heartbeat"
    BY <1>2, <2>1 DEF Updated, Records
  <2>2. CASE me.pc = "markDelivered"
    BY <1>2, <2>2 DEF Updated, Records
  <2>3. CASE me.pc = "markFailed"
    BY <1>2, <2>3 DEF Updated, Records
  <2>4. CASE me.pc = "markDeadLetter"
    BY <1>2, <2>4 DEF Updated, Records
  <2>. QED BY <1>1, <2>1, <2>2, <2>3, <2>4 DEF OwnedCalls
<1>6. Intents' = Intents
  BY <1>4, <1>5 DEF Intents
<1>7. Outcomes[k] = "open" /\ Intents[k] # NoOne
  BY <1>2, <1>3, OutboxAssumption DEF Outcomes, Intents
<1>8. CASE me.pc \in {"heartbeat", "markFailed"}
  <2>1. Updated(rec, me).status \in {"PROCESSING", "FAILED"}
    BY <1>2, <1>3, <1>8 DEF Updated, Records
  <2>2. Outcome(Updated(rec, me).status) = "open"
    BY <2>1, OutcomeFacts DEF Terminal
  <2>3. \A j \in Keys : Outcome(outbox'[j].status) = Outcome(outbox[j].status)
    BY <1>3, <1>4, <2>2
  <2>. QED BY <1>6, <2>3 DEF Outcomes
<1>9. ASSUME NEW result \in {"delivered", "dead"},
             Outcome(Updated(rec, me).status) = result,
             result = "delivered" => me.pc = "markDelivered"
      PROVE  Handoff!Close(k, result)
  <2>1. Outcomes' = [Outcomes EXCEPT ![k] = result]
    BY <1>2, <1>4, <1>9 DEF Outcomes
  <2>2. result = "delivered" => Handoff!TransmissionsOf(k) # {}
    <3>1. me.pc = "markDelivered" => MessageOf(me) \in Sent /\ MessageOf(me).key = k
      BY DEF OutboxInv, Published, MessageOf
    <3>. QED BY <1>9, <3>1 DEF Handoff!TransmissionsOf
  <2>. QED BY <1>6, <1>7, <2>1, <2>2 DEF Handoff!Close, Intents, Outcomes
<1>10. CASE me.pc = "markDelivered"
  <2>1. Updated(rec, me).status = "DELIVERED"
    BY <1>2, <1>10 DEF Updated, Records
  <2>2. Outcome(Updated(rec, me).status) = "delivered"
    BY <2>1, OutcomeFacts
  <2>. QED BY <1>2, <1>9, <1>10, <2>2
<1>11. CASE me.pc = "markDeadLetter"
  <2>1. Updated(rec, me).status = "DEAD_LETTER"
    BY <1>2, <1>11 DEF Updated, Records
  <2>2. Outcome(Updated(rec, me).status) = "dead"
    BY <2>1, OutcomeFacts
  <2>. QED BY <1>2, <1>9, <1>11, <2>2
<1>. QED BY <1>1, <1>8, <1>10, <1>11 DEF OwnedCalls

(* Handing an event over, or a claim that loses its answer, shows nothing. *)
LEMMA TakeStutters ==
  ASSUME OutboxInv, NEW p \in Publishers, NEW k \in Keys, NEW t,
         Claimable(outbox[k], t), Take(p, k, t)
  PROVE  Intents' = Intents /\ Outcomes' = Outcomes
<1> DEFINE new == Claimed(outbox[k], p, tokens'[k], t)
<1>1. \A j \in Keys : outbox'[j] = IF j = k THEN new ELSE outbox[j]
  BY DEF Take, OutboxInv, TypeOK
<1>2. /\ new.payload = outbox[k].payload /\ new.status = "PROCESSING"
      /\ outbox[k].status \in {"PENDING", "FAILED", "PROCESSING"}
  BY DEF Claimed, Claimable, OutboxInv, TypeOK, Records
<1>3. Outcome(new.status) = "open" /\ Outcome(outbox[k].status) = "open"
  BY <1>2, OutcomeFacts DEF Terminal
<1> HIDE DEF new
<1>. QED BY <1>1, <1>2, <1>3 DEF Intents, Outcomes

LEMMA StepHandsOff ==
  ASSUME OutboxInv, [Next]_vars
  PROVE  Handoff!Next \/ (Intents' = Intents /\ Outcomes' = Outcomes /\ Sent' = Sent)
<1> DEFINE Stutter == Intents' = Intents /\ Outcomes' = Outcomes /\ Sent' = Sent
<1>1. ASSUME outbox' = outbox, Sent' = Sent
      PROVE  Stutter
  BY <1>1 DEF Intents, Outcomes
<1>2. ASSUME NEW r \in Producers, ProducerStep(r)
      PROVE  Handoff!Next \/ Stutter
  <2>1. Sent' = Sent
    BY <1>2, SentUnchanged DEF ProducerStep, Find, Insert, Reload
  <2>2. CASE outbox' = outbox
    BY <1>1, <2>1, <2>2
  <2>3. CASE outbox' # outbox
    <3>1. Insert(r)
      BY <1>2, <2>3 DEF ProducerStep, Find, Reload
    <3>. QED BY <2>3, <3>1, InsertRecords DEF Handoff!Next
  <2>. QED BY <2>2, <2>3
<1>3. ASSUME NEW p \in Publishers, Claim(p) \/ StoreFails(p) \/ Heartbeat(p) \/ Settle(p)
      PROVE  Handoff!Next \/ Stutter
  <2>1. \A s \in First(publisher[p].batch) : s.key \in Keys
    BY FirstType DEF OutboxInv, TypeOK, Workers
  <2>2. Sent' = Sent
    BY <1>3, SentUnchanged DEF Claim, StoreFails, Heartbeat, Settle
  <2>3. CASE UNCHANGED outbox
    BY <1>1, <2>2, <2>3
  <2>4. CASE \E s \in First(publisher[p].batch) :
               /\ Claimable(outbox[s.key], publisher[p].batchNow)
               /\ Take(p, s.key, publisher[p].batchNow)
    BY <2>1, <2>2, <2>4, TakeStutters
  <2>5. CASE HoldsFence(p) /\ ApplyOwned(p)
    BY <2>2, <2>5, OwnedCloses DEF Handoff!Next
  <2>. QED BY <1>3, <2>3, <2>4, <2>5 DEF Claim, StoreFails, Heartbeat, Settle
<1>4. ASSUME NEW p \in Publishers, Publish(p) \/ TransportFails(p)
      PROVE  Handoff!Next \/ Stutter
  <2>1. /\ publisher[p].pc = "publish" /\ outbox' = outbox
        /\ \/ Sent' = Sent
           \/ Sent' = Sent \cup {MessageOf(publisher[p])}
    BY <1>4, SentUnchanged, SentGrows DEF Publish, TransportFails, OutboxInv, TypeOK
  <2>2. CASE Sent' = Sent
    BY <1>1, <2>1, <2>2
  <2>3. CASE Sent' # Sent
    BY <2>1, <2>3, SendTransmits DEF Handoff!Next
  <2>. QED BY <2>2, <2>3
<1>5. ASSUME NEW p \in Publishers, Scan(p) \/ RefuseMalformed(p) \/ Rejected(p)
      PROVE  Stutter
  BY <1>1, <1>5, SentUnchanged DEF Scan, RefuseMalformed, Rejected
<1>6. ASSUME NEW p \in Publishers, Flush(p) \/ ConnectionLost(p) \/ Crash(p)
      PROVE  Stutter
  <2>1. Sent' = Sent
    BY <1>6, SentFlushed, SentDropped DEF Flush, ConnectionLost, Crash, OutboxInv, TypeOK
  <2>. QED BY <1>1, <1>6, <2>1 DEF Flush, ConnectionLost, Crash
<1>7. ASSUME UNCHANGED vars \/ Tick
      PROVE  Stutter
  BY <1>1, <1>7, SentUnchanged DEF vars, Tick
<1> HIDE DEF Stutter
<1>8. ASSUME NEW p \in Publishers, PublisherStep(p)
      PROVE  Handoff!Next \/ Stutter
  BY <1>3, <1>4, <1>5, <1>8 DEF PublisherStep
<1>9. ASSUME Environment
      PROVE  Handoff!Next \/ Stutter
  BY <1>3, <1>6, <1>7, <1>9 DEF Environment
<1>10. Handoff!Next \/ Stutter
  BY <1>2, <1>7, <1>8, <1>9 DEF Next
<1>. QED BY <1>10 DEF Stutter

LEMMA InitHandsOff == Init => Handoff!Init
<1> SUFFICES ASSUME Init PROVE Handoff!Init
  OBVIOUS
<1>1. Outcome("ABSENT") = "open"
  BY OutcomeFacts DEF Terminal
<1>2. \A k \in Keys : outbox[k].payload = NoOne /\ outbox[k].status = "ABSENT"
  BY DEF Init, Absent
<1>3. Sent = {}
  BY DEF Init, Sent
<1>. QED BY <1>1, <1>2, <1>3 DEF Handoff!Init

(* The outbox implements the handoff a stage relies on: no crash, lost     *)
(* answer, takeover or stale clock shows through. (createOrGet, deliver)   *)
THEOREM HandsOff == Spec => ImplementsHandoff
<1>1. OutboxInv /\ [Next]_vars => [Handoff!Next]_(Handoff!vars)
  BY StepHandsOff DEF Handoff!vars, Intents, Outcomes
<1>. QED BY <1>1, InitHandsOff, Invariance, PTL DEF Spec, ImplementsHandoff, Handoff!Spec

(* The handoff again, with what is proved of it.                           *)
HandedOff == INSTANCE WorkflowHandoffProofs WITH
    intent  <- [k \in Keys |-> outbox[k].payload],
    outcome <- [k \in Keys |-> Outcome(outbox[k].status)],
    sent    <- Sent

LEMMA SameCardinalities ==
  ASSUME NEW S
  PROVE  HandedOff!Cardinality(S) = Handoff!Cardinality(S)
BY DEF Handoff!Cardinality, HandedOff!Cardinality

(* So a stage may rely on its intent: it is transmitted as recorded and    *)
(* within its budget, it counts as delivered only after that, and neither  *)
(* the intent nor its outcome is ever taken back. (createOrGet, deliver)   *)
THEOREM StagesMayRely ==
    Spec => [](Handoff!AsRecorded /\ Handoff!DeliveredIsSent) /\ Handoff!NothingTakenBack
<1>1. ASSUME NEW k
      PROVE  /\ HandedOff!TransmissionsOf(k) = Handoff!TransmissionsOf(k)
             /\ HandedOff!Cardinality(HandedOff!TransmissionsOf(k))
                  = Handoff!Cardinality(Handoff!TransmissionsOf(k))
  <2>1. HandedOff!TransmissionsOf(k) = Handoff!TransmissionsOf(k)
    BY DEF Handoff!TransmissionsOf, HandedOff!TransmissionsOf
  <2>. QED BY <2>1, SameCardinalities
<1>2. Handoff!Spec => HandedOff!Spec
  <2>1. Handoff!Init => HandedOff!Init
    BY DEF Handoff!Init, HandedOff!Init
  <2>2. [Handoff!Next]_(Handoff!vars) => [HandedOff!Next]_(HandedOff!vars)
    <3>1. ASSUME NEW k, NEW payload, Handoff!Record(k, payload)
          PROVE  HandedOff!Record(k, payload)
      BY <3>1 DEF Handoff!Record, HandedOff!Record
    <3>2. ASSUME NEW k, NEW token, Handoff!Transmit(k, token)
          PROVE  HandedOff!Transmit(k, token)
      BY <1>1, <3>2, Zenon DEF Handoff!Transmit, HandedOff!Transmit
    <3>3. ASSUME NEW k, NEW result, Handoff!Close(k, result)
          PROVE  HandedOff!Close(k, result)
      BY <1>1, <3>3 DEF Handoff!Close, HandedOff!Close
    <3>4. UNCHANGED Handoff!vars => UNCHANGED HandedOff!vars
      BY DEF Handoff!vars, HandedOff!vars
    <3>. QED BY <3>1, <3>2, <3>3, <3>4 DEF Handoff!Next, HandedOff!Next
  <2>. QED BY <2>1, <2>2, PTL DEF Handoff!Spec, HandedOff!Spec
<1>3. MaxAttempts \in Nat
  BY OutboxAssumption
<1>4. HandedOff!Spec => [](HandedOff!AsRecorded /\ HandedOff!DeliveredIsSent)
  BY <1>3, HandedOff!Promised
<1>5. HandedOff!Spec => HandedOff!NothingTakenBack
  BY <1>3, HandedOff!Kept
<1>6. HandedOff!AsRecorded /\ HandedOff!DeliveredIsSent => Handoff!AsRecorded /\ Handoff!DeliveredIsSent
  BY <1>1 DEF Handoff!AsRecorded, Handoff!DeliveredIsSent, HandedOff!AsRecorded, HandedOff!DeliveredIsSent
<1>7. HandedOff!NothingTakenBack => Handoff!NothingTakenBack
  BY DEF Handoff!NothingTakenBack, HandedOff!NothingTakenBack, Handoff!vars, HandedOff!vars
<1>. QED BY <1>2, <1>4, <1>5, <1>6, <1>7, HandsOff, PTL DEF ImplementsHandoff

-----------------------------------------------------------------------------
(* Each event is claimed under the fence.                                  *)

Claimants(k) == {p \in Publishers : HasClaim(p, k)}

OneClaimant(k) == Claimants(k) \in {{}} \cup {{p} : p \in Publishers}

(* Who has the latest token is the owner of the record, and it is claimed. *)
LEMMA ClaimantsAreOne ==
  ASSUME OutboxInv, NEW k \in Keys
  PROVE  /\ OneClaimant(k)
         /\ Claimants(k) # {} => outbox[k].status = "PROCESSING"
<1>1. ASSUME NEW p \in Publishers, HasClaim(p, k)
      PROVE  outbox[k].status = "PROCESSING" /\ outbox[k].owner = p
  BY <1>1 DEF HasClaim, OutboxInv, AttemptsCounted, Fenced
<1>2. CASE Claimants(k) = {}
  BY <1>2 DEF OneClaimant
<1>3. CASE Claimants(k) # {}
  <2>1. PICK p \in Publishers : HasClaim(p, k)
    BY <1>3 DEF Claimants
  <2>2. Claimants(k) = {p}
    BY <1>1, <2>1 DEF Claimants
  <2>. QED BY <1>1, <2>1, <2>2 DEF OneClaimant
<1>. QED BY <1>2, <1>3

(* Who is delivering after a step that claims nothing was so before it.    *)
NobodyJoins ==
  \A p \in Publishers : Delivering(p)' =>
      /\ Delivering(p)
      /\ publisher'[p].key = publisher[p].key
      /\ publisher'[p].token = publisher[p].token

LEMMA GoesOn ==
  ASSUME OutboxInv, NEW p \in Publishers, NEW next, Goto(p, next),
         next.pc \in OwnedCalls \cup {"publish"} =>
            /\ Delivering(p)
            /\ next.key = publisher[p].key /\ next.token = publisher[p].token
  PROVE  NobodyJoins
BY DEF OutboxInv, TypeOK, Goto, NobodyJoins, Delivering

LEMMA GivesUp ==
  ASSUME OutboxInv, NEW p \in Publishers, NEW me \in Workers, Goto(p, NextEvent(me))
  PROVE  NobodyJoins
<1>1. NextEvent(me).pc \notin OwnedCalls \cup {"publish"}
  BY NextEventFacts DEF OwnedCalls
<1>. QED BY <1>1, GoesOn

(* An owned call that goes through settles the publisher's own claim; the  *)
(* heartbeat, with the clock reading of the claim, writes nothing new.     *)
LEMMA OwnedSettles ==
  ASSUME OutboxInv, NEW p \in Publishers, HoldsFence(p), ApplyOwned(p), NEW k \in Keys
  PROVE  \/ outbox'[k] = outbox[k]
         \/ HasClaim(p, k) /\ outbox'[k].status \in {"FAILED", "DELIVERED", "DEAD_LETTER"}
<1> DEFINE me == publisher[p]
           rec == outbox[k]
<1>1. /\ me \in Workers /\ me.pc \in OwnedCalls /\ rec \in Records
      /\ Owned(outbox[me.key], p, me.token, me.callNow) /\ Delivering(p)
  BY DEF OutboxInv, TypeOK, HoldsFence, Delivering
<1>2. CASE k # me.key
  BY <1>2 DEF ApplyOwned, OutboxInv, TypeOK
<1>3. CASE k = me.key
  <2>1. HasClaim(p, k) /\ me.token = tokens[k] /\ outbox'[k] = Updated(rec, me)
    BY <1>1, <1>3 DEF HasClaim, Owned, ApplyOwned, OutboxInv, TypeOK, AttemptsCounted
  <2>2. CASE me.pc = "heartbeat"
    <3>1. rec.lease = me.callNow + LeaseMs
      BY <1>1, <1>3, <2>1, <2>2 DEF OutboxInv, Fenced
    <3>2. [rec EXCEPT !.lease = rec.lease] = rec
      BY <1>1 DEF Records
    <3>. QED BY <2>1, <2>2, <3>1, <3>2 DEF Updated
  <2>3. CASE me.pc = "markDelivered"
    BY <1>1, <2>1, <2>3 DEF Updated, Records
  <2>4. CASE me.pc = "markFailed"
    BY <1>1, <2>1, <2>4 DEF Updated, Records
  <2>5. CASE me.pc = "markDeadLetter"
    BY <1>1, <2>1, <2>5 DEF Updated, Records
  <2>. QED BY <1>1, <2>2, <2>3, <2>4, <2>5 DEF OwnedCalls
<1>. QED BY <1>2, <1>3

(* What a step looks like to the claim on one event.                       *)
Quiet(k) ==
  /\ outbox'[k] = outbox[k]
  /\ Claimants(k)' \subseteq Claimants(k)
  /\ now' = now \/ publisher' = publisher

Taken(k) ==
  /\ \E t \in Nat : t <= now /\ Claimable(outbox[k], t)
  /\ outbox'[k].status = "PROCESSING"

Settled(k) ==
  /\ Claimants(k) # {}
  /\ outbox'[k].status \in {"FAILED", "DELIVERED", "DEAD_LETTER"}

LEMMA QuietWhenNobodyJoins ==
  ASSUME NEW k \in Keys, outbox'[k] = outbox[k], NobodyJoins, now' = now \/ publisher' = publisher
  PROVE  Quiet(k)
BY DEF Quiet, Claimants, HasClaim, NobodyJoins

LEMMA TakeTakes ==
  ASSUME OutboxInv, NEW p \in Publishers, NEW j \in Keys, NEW k \in Keys,
         Claimable(outbox[j], publisher[p].batchNow), Take(p, j, publisher[p].batchNow)
  PROVE  IF k = j THEN Taken(k) ELSE outbox'[k] = outbox[k]
<1>1. CASE k = j
  <2>1. publisher[p].batchNow \in Nat /\ publisher[p].batchNow <= now
    BY DEF OutboxInv, TypeOK, Workers, Fenced
  <2>2. outbox'[k].status = "PROCESSING"
    BY <1>1 DEF Take, Claimed, OutboxInv, TypeOK, Records
  <2>. QED BY <1>1, <2>1, <2>2 DEF Taken
<1>2. CASE k # j
  BY <1>2 DEF Take, OutboxInv, TypeOK
<1>. QED BY <1>1, <1>2

LEMMA ClaimEffect ==
  ASSUME OutboxInv, NEW p \in Publishers, Claim(p), NEW k \in Keys
  PROVE  Quiet(k) \/ Taken(k)
<1> DEFINE me == publisher[p]
<1>1. me \in Workers /\ now' = now
  BY DEF OutboxInv, TypeOK, Claim
<1>2. PICK s \in First(me.batch) :
         \/ /\ Claimable(outbox[s.key], me.batchNow)
            /\ Take(p, s.key, me.batchNow)
            /\ Goto(p, IF s.key \in Routed
                       THEN [me EXCEPT !.batch = me.batch \ {s}, !.pc = "heartbeat", !.key = s.key,
                                       !.seen = s.count, !.payload = outbox[s.key].payload,
                                       !.token = tokens'[s.key], !.callNow = me.batchNow]
                       ELSE NextEvent([me EXCEPT !.batch = me.batch \ {s}]))
         \/ /\ Goto(p, NextEvent([me EXCEPT !.batch = me.batch \ {s}]))
            /\ UNCHANGED outbox
  BY DEF Claim
<1> DEFINE rest == [me EXCEPT !.batch = me.batch \ {s}]
<1>3. s.key \in Keys /\ rest \in Workers
  BY <1>1, FirstType DEF Workers
<1>4. CASE Goto(p, NextEvent(rest)) /\ outbox'[k] = outbox[k]
  BY <1>1, <1>3, <1>4, GivesUp, QuietWhenNobodyJoins
<1>5. CASE Claimable(outbox[s.key], me.batchNow) /\ Take(p, s.key, me.batchNow)
  <2>1. CASE k = s.key
    BY <1>3, <1>5, <2>1, TakeTakes
  <2>2. CASE k # s.key
    <3>1. outbox'[k] = outbox[k]
      BY <1>3, <1>5, <2>2, TakeTakes
    <3>2. ~ HasClaim(p, k)'
      <4>1. CASE Goto(p, NextEvent(rest))
        <5>1. publisher'[p] = NextEvent(rest)
          BY <4>1 DEF Goto, OutboxInv, TypeOK
        <5>. QED BY <1>3, <5>1, NextEventFacts DEF HasClaim, Delivering, OwnedCalls
      <4>2. CASE publisher'[p].key = s.key
        BY <2>2, <4>2 DEF HasClaim
      <4>3. \/ Goto(p, NextEvent(rest))
            \/ publisher'[p].key = s.key
        <5> DEFINE next == [me EXCEPT !.batch = me.batch \ {s}, !.pc = "heartbeat", !.key = s.key,
                                      !.seen = s.count, !.payload = outbox[s.key].payload,
                                      !.token = tokens'[s.key], !.callNow = me.batchNow]
        <5>1. next.key = s.key
          BY <1>1 DEF Workers
        <5>2. Goto(p, next) \/ Goto(p, NextEvent(rest))
          BY <1>2
        <5> HIDE DEF next
        <5>3. Goto(p, next) => publisher'[p] = next
          BY DEF Goto, OutboxInv, TypeOK
        <5>. QED BY <5>1, <5>2, <5>3
      <4>. QED BY <4>1, <4>2, <4>3
    <3>3. \A q \in Publishers \ {p} : publisher'[q] = publisher[q]
      BY <1>2 DEF Goto, OutboxInv, TypeOK
    <3>4. Claimants(k)' \subseteq Claimants(k)
      BY <3>1, <3>2, <3>3 DEF Claimants, HasClaim, Delivering
    <3>. QED BY <1>1, <3>1, <3>4 DEF Quiet
  <2>. QED BY <2>1, <2>2
<1>. QED BY <1>2, <1>4, <1>5

LEMMA StoreFailsEffect ==
  ASSUME OutboxInv, NEW p \in Publishers, StoreFails(p), NEW k \in Keys
  PROVE  Quiet(k) \/ Taken(k) \/ Settled(k)
<1> DEFINE me == publisher[p]
<1>1. me \in Workers /\ now' = now
  BY DEF OutboxInv, TypeOK, StoreFails
<1>2. CASE me.pc = "claim"
  <2>1. PICK s \in First(me.batch) :
           /\ Goto(p, NextEvent([me EXCEPT !.batch = me.batch \ {s}]))
           /\ \/ UNCHANGED <<outbox, tokens>>
              \/ /\ Claimable(outbox[s.key], me.batchNow)
                 /\ Take(p, s.key, me.batchNow)
    BY <1>2 DEF StoreFails, OwnedCalls
  <2>2. s.key \in Keys /\ [me EXCEPT !.batch = me.batch \ {s}] \in Workers
    BY <1>1, FirstType DEF Workers
  <2>3. NobodyJoins
    BY <2>1, <2>2, GivesUp
  <2>. QED BY <1>1, <2>1, <2>2, <2>3, TakeTakes, QuietWhenNobodyJoins
<1>3. CASE me.pc \in OwnedCalls
  <2>1. /\ Goto(p, NextEvent(me))
        /\ UNCHANGED outbox \/ (HoldsFence(p) /\ ApplyOwned(p))
    BY <1>3 DEF StoreFails, OwnedCalls
  <2>2. NobodyJoins
    BY <1>1, <2>1, GivesUp
  <2>. QED BY <1>1, <2>1, <2>2, OwnedSettles, QuietWhenNobodyJoins DEF Settled, Claimants
<1>. QED BY <1>2, <1>3 DEF StoreFails

LEMMA PublisherEffect ==
  ASSUME OutboxInv, NEW p \in Publishers, PublisherStep(p), NEW k \in Keys
  PROVE  Quiet(k) \/ Taken(k) \/ Settled(k)
<1> DEFINE me == publisher[p]
<1>1. me \in Workers /\ now \in Nat
  BY DEF OutboxInv, TypeOK
<1>2. CASE Scan(p)
  <2>1. NobodyJoins
    <3>1. publisher'[p].pc \notin OwnedCalls \cup {"publish"}
      BY <1>2, ScanFacts DEF OutboxInv, OwnedCalls
    <3>2. \A q \in Publishers \ {p} : publisher'[q] = publisher[q]
      BY <1>2 DEF Scan, Goto, OutboxInv, TypeOK
    <3>. QED BY <3>1, <3>2 DEF NobodyJoins, Delivering
  <2>. QED BY <1>2, <2>1, QuietWhenNobodyJoins DEF Scan
<1>3. CASE Claim(p)
  BY <1>3, ClaimEffect
<1>4. CASE Heartbeat(p)
  <2>1. /\ [me EXCEPT !.pc = "publish"].key = me.key
        /\ [me EXCEPT !.pc = "publish"].token = me.token
    BY <1>1 DEF Workers
  <2>2. NobodyJoins
    BY <1>4, <2>1, GoesOn DEF Heartbeat, Delivering, OwnedCalls
  <2>. QED BY <1>4, <2>2, OwnedSettles, QuietWhenNobodyJoins DEF Heartbeat, Settled, Claimants
<1>5. CASE Settle(p) \/ Rejected(p)
  <2>1. NobodyJoins
    BY <1>1, <1>5, GivesUp DEF Settle, Rejected
  <2>2. /\ now' = now
        /\ UNCHANGED outbox \/ (HoldsFence(p) /\ ApplyOwned(p))
    BY <1>5 DEF Settle, Rejected
  <2>. QED BY <2>1, <2>2, OwnedSettles, QuietWhenNobodyJoins DEF Settled, Claimants
<1>6. CASE Publish(p) \/ TransportFails(p) \/ RefuseMalformed(p)
  <2>1. outbox' = outbox /\ now' = now /\ Delivering(p)
    BY <1>6 DEF Publish, TransportFails, RefuseMalformed, Delivering
  <2>2. NobodyJoins
    <3>1. CASE Publish(p)
      <4>1. /\ [me EXCEPT !.pc = "markDelivered", !.callNow = now].key = me.key
            /\ [me EXCEPT !.pc = "markDelivered", !.callNow = now].token = me.token
        BY <1>1 DEF Workers
      <4>. QED BY <2>1, <3>1, <4>1, GoesOn DEF Publish
    <3>2. CASE TransportFails(p) \/ RefuseMalformed(p)
      <4>1. PICK error : \E next \in AfterFailure(me, error) : Goto(p, next)
        BY <3>2 DEF TransportFails, RefuseMalformed
      <4>2. PICK next \in AfterFailure(me, error) : Goto(p, next)
        BY <4>1
      <4>3. next.key = me.key /\ next.token = me.token
        BY <1>1, <4>2, AfterFailureType
      <4>. QED BY <2>1, <4>2, <4>3, GoesOn
    <3>. QED BY <1>6, <3>1, <3>2
  <2>. QED BY <2>1, <2>2, QuietWhenNobodyJoins
<1>. QED BY <1>2, <1>3, <1>4, <1>5, <1>6 DEF PublisherStep

(* An event is recorded, claimed or settled by its claimant; or the claim  *)
(* is left alone or forgotten, or time passes.                             *)
LEMMA StepEffect ==
  ASSUME OutboxInv, [Next]_vars, NEW k \in Keys
  PROVE  \/ Quiet(k) \/ Taken(k) \/ Settled(k)
         \/ outbox[k].status = "ABSENT" /\ outbox'[k].status = "PENDING"
<1>1. ASSUME publisher' = publisher
      PROVE  NobodyJoins
  BY <1>1 DEF NobodyJoins, Delivering
<1>2. ASSUME NEW r \in Producers, ProducerStep(r)
      PROVE  Quiet(k) \/ (outbox[k].status = "ABSENT" /\ outbox'[k].status = "PENDING")
  <2>1. publisher' = publisher
    BY <1>2 DEF ProducerStep, Find, Insert, Reload
  <2>2. \/ outbox'[k] = outbox[k]
        \/ outbox[k].status = "ABSENT" /\ outbox'[k].status = "PENDING"
    <3>1. CASE Insert(r)
      BY <3>1 DEF Insert, NewRecord, OutboxInv, TypeOK
    <3>2. CASE ~ Insert(r)
      BY <1>2, <3>2 DEF ProducerStep, Find, Reload
    <3>. QED BY <3>1, <3>2
  <2>. QED BY <1>1, <2>1, <2>2, QuietWhenNobodyJoins
<1>3. ASSUME UNCHANGED vars \/ Tick PROVE Quiet(k)
  BY <1>1, <1>3, QuietWhenNobodyJoins DEF vars, Tick
<1>4. ASSUME NEW p \in Publishers, Flush(p) \/ ConnectionLost(p) PROVE Quiet(k)
  BY <1>1, <1>4, QuietWhenNobodyJoins DEF Flush, ConnectionLost
<1>5. ASSUME NEW p \in Publishers, Crash(p) PROVE Quiet(k)
  <2>1. Idle.pc \notin OwnedCalls \cup {"publish"}
    BY DEF Idle, OwnedCalls
  <2>2. NobodyJoins
    BY <1>5, <2>1, GoesOn DEF Crash
  <2>. QED BY <1>5, <2>2, QuietWhenNobodyJoins DEF Crash
<1>. QED
  BY <1>2, <1>3, <1>4, <1>5, PublisherEffect, StoreFailsEffect DEF Next, Environment

LEMMA PhaseFacts ==
  /\ Phase("PROCESSING") = "claimed"
  /\ \A status \in {"ABSENT", "PENDING", "FAILED"} : Phase(status) = "open"
  /\ \A status \in {"DELIVERED", "DEAD_LETTER"} : Phase(status) = "closed"
BY DEF Phase, Terminal

LEMMA StepIsFenced ==
  ASSUME OutboxInv, OutboxInv', [Next]_vars, NEW k \in Keys,
         OneClaimant(k), OneClaimant(k)',
         Claimants(k)' # {} => outbox'[k].status = "PROCESSING"
  PROVE  [Event(k)!Next]_(Event(k)!vars)
<1> DEFINE lapsed == outbox[k].status = "PROCESSING" /\ outbox[k].lease <= now
           phase == Phase(outbox[k].status)
<1>1. outbox[k] \in Records /\ now \in Nat
  BY DEF OutboxInv, TypeOK
<1>2. CASE Quiet(k) /\ now' = now
  <2>1. Claimants(k)' = Claimants(k) \/ (Claimants(k) # {} /\ Claimants(k)' = {})
    BY <1>2 DEF Quiet, OneClaimant
  <2>2. phase' = phase /\ lapsed' = lapsed
    BY <1>2 DEF Quiet
  <2>. QED BY <2>1, <2>2 DEF Event!Next, Event!Forget, Event!vars, Claimants
<1>3. CASE Quiet(k) /\ publisher' = publisher
  <2>1. Claimants(k)' = Claimants(k) /\ phase' = phase
    BY <1>3 DEF Quiet, Claimants, HasClaim, Delivering
  <2>2. lapsed' = lapsed \/ (lapsed' = ~ lapsed /\ phase = "claimed")
    BY <1>3, PhaseFacts DEF Quiet
  <2>. QED BY <2>1, <2>2 DEF Event!Next, Event!LeaseMoves, Event!vars, Claimants
<1>4. CASE Taken(k)
  <2>1. phase = "open" \/ (phase = "claimed" /\ lapsed)
    BY <1>1, <1>4, PhaseFacts DEF Taken, Claimable, Records
  <2>2. phase' = "claimed"
    BY <1>4, PhaseFacts DEF Taken
  <2>. QED BY <2>1, <2>2 DEF Event!Next, Event!Claim, Event!AtMostOne, OneClaimant, Claimants
<1>5. CASE Settled(k)
  <2>1. outbox[k].status = "PROCESSING" /\ phase = "claimed"
    BY <1>5, ClaimantsAreOne, PhaseFacts DEF Settled
  <2>2. phase' \in {"open", "closed"} /\ lapsed' = FALSE /\ Claimants(k)' = {}
    BY <1>5, PhaseFacts DEF Settled
  <2>. QED BY <1>5, <2>1, <2>2 DEF Event!Next, Event!Settle, Settled, Claimants
<1>6. CASE outbox[k].status = "ABSENT" /\ outbox'[k].status = "PENDING"
  <2>1. phase = "open" /\ phase' = "open" /\ lapsed = FALSE /\ lapsed' = FALSE
    BY <1>6, PhaseFacts
  <2>2. Claimants(k) = {} /\ Claimants(k)' = {}
    BY <1>6, ClaimantsAreOne
  <2>. QED BY <2>1, <2>2 DEF Event!vars, Claimants
<1>. QED BY <1>2, <1>3, <1>4, <1>5, <1>6, StepEffect DEF Quiet

LEMMA InitIsFenced ==
  ASSUME Init, NEW k \in Keys
  PROVE  Event(k)!Init
<1>1. outbox[k].status = "ABSENT" /\ Phase("ABSENT") = "open"
  BY PhaseFacts DEF Init, Absent
<1>2. {p \in Publishers : HasClaim(p, k)} = {}
  BY DEF Init, Idle, HasClaim, Delivering, OwnedCalls
<1>. QED BY <1>1, <1>2 DEF Event!Init

(* The publishers share every event under its fence: however stale their   *)
(* clocks, whatever is lost or crashes, each step is one that the fenced   *)
(* claim allows. (claim, heartbeat, markDelivered, markFailed)             *)
THEOREM EventsAreClaimed == Spec => ImplementsClaim
<1> DEFINE Ones == \A k \in Keys : /\ OneClaimant(k)
                                   /\ Claimants(k) # {} => outbox[k].status = "PROCESSING"
<1>1. OutboxInv => Ones
  BY ClaimantsAreOne
<1>2. OutboxInv /\ OutboxInv' /\ Ones /\ Ones' /\ [Next]_vars
        => [\A k \in Keys : [Event(k)!Next]_(Event(k)!vars)]_vars
  BY StepIsFenced
<1>3. Init => \A k \in Keys : Event(k)!Init
  BY InitIsFenced
<1>. HIDE DEF Ones
<1>. QED BY <1>1, <1>2, <1>3, Invariance, PTL DEF Spec, ImplementsClaim

(* So one publisher at most has an event's claim in hand and only while    *)
(* the record says PROCESSING, and the claim passes from it to another     *)
(* only after its lease: not by a scan, a clock reading of long ago, a     *)
(* crash or an answer that was lost. (claim)                               *)
ClaimIsKept ==
    [][\A k \in Keys : \A p \in Claimants(k) :
          outbox[k].lease > now => Claimants(k)' \subseteq {p}]_vars

THEOREM EventsAreFenced == Spec => [](\A k \in Keys : Event(k)!Exclusive) /\ ClaimIsKept
<1> DEFINE Ones == \A k \in Keys : /\ OneClaimant(k)
                                   /\ Claimants(k) # {} => outbox[k].status = "PROCESSING"
<1>1. OutboxInv => Ones
  BY ClaimantsAreOne
<1>2. Ones => \A k \in Keys : Event(k)!Exclusive
  BY PhaseFacts DEF Event!Exclusive, Event!AtMostOne, OneClaimant, Claimants
<1>3. OutboxInv /\ OutboxInv' /\ Ones /\ Ones' /\ [Next]_vars =>
         [\A k \in Keys : \A p \in Claimants(k) :
             outbox[k].lease > now => Claimants(k)' \subseteq {p}]_vars
  <2>. SUFFICES ASSUME OutboxInv, OutboxInv', Ones, Ones', [Next]_vars,
                       NEW k \in Keys, NEW p \in Claimants(k), outbox[k].lease > now
                PROVE  Claimants(k)' \subseteq {p}
    BY DEF vars
  <2>1. [Event(k)!Next]_(Event(k)!vars)
    BY StepIsFenced
  <2>2. Claimants(k) \subseteq {p}
    BY DEF OneClaimant
  <2>3. outbox[k].lease \in Nat /\ now \in Nat /\ ~ (outbox[k].lease <= now)
    BY DEF OutboxInv, TypeOK, Records
  <2>4. outbox[k].status = "PROCESSING" /\ Phase(outbox[k].status) # "open"
    BY PhaseFacts
  <2>5. Claimants(k)' \subseteq Claimants(k)
    BY <2>1, <2>3, <2>4 DEF Event!Next, Event!Claim, Event!Settle, Event!Revoke, Event!Forget,
       Event!LeaseMoves, Event!vars, Claimants
  <2>. QED BY <2>2, <2>5
<1>. HIDE DEF Ones
<1>. QED BY <1>1, <1>2, <1>3, Invariance, PTL DEF Spec, ClaimIsKept

-----------------------------------------------------------------------------
(* The backoff.                                                            *)

(* Percent grows with its number.                                          *)
LEMMA PercentGrows ==
  ASSUME NEW d \in Int, NEW c \in Int, d <= c, NEW percent \in Nat
  PROVE  Percent(d, percent) <= Percent(c, percent)
<1> DEFINE x == d * percent
           y == c * percent
<1>1. x \in Int /\ y \in Int /\ x <= y
  OBVIOUS
<1> HIDE DEF x, y
<1>2. (x * 2 + 100) \div 200 <= (y * 2 + 100) \div 200
  BY <1>1
<1>. QED BY <1>2 DEF Percent, x, y

(* However many attempts the doubling has seen, the cap holds.             *)
LEMMA DelayIsCapped ==
  ASSUME NEW attempt \in Nat
  PROVE  CappedDelay(attempt) \in Int /\ CappedDelay(attempt) <= DelayCap
<1> DEFINE exponent == IF attempt > 1 THEN attempt - 1 ELSE 0
           delay == BaseDelay * 2^exponent
<1>1. exponent \in Nat
  OBVIOUS
<1>2. 2^exponent \in Int
  BY <1>1
<1> HIDE DEF exponent
<1>3. delay \in Int
  BY <1>2, RetryPolicyAssumption
<1>4. CappedDelay(attempt) = IF delay < DelayCap THEN delay ELSE DelayCap
  BY DEF CappedDelay, exponent
<1> HIDE DEF delay
<1>. QED BY <1>3, <1>4, RetryPolicyAssumption

(* The longest a retry can be put off: the cap, and the jitter on top.     *)
LongestDelay == Percent(DelayCap, 100 + JitterPercent)

LEMMA DelaysAreBounded ==
  ASSUME NEW attempt \in Nat, NEW d \in Delays(attempt)
  PROVE  d \in Nat /\ d <= LongestDelay
<1>1. 100 + JitterPercent \in Nat /\ DelayCap \in Int
  BY RetryPolicyAssumption
<1>2. Percent(CappedDelay(attempt), 100 + JitterPercent) <= LongestDelay
  BY <1>1, DelayIsCapped, PercentGrows DEF LongestDelay
<1>3. d \in Nat /\ d <= Percent(CappedDelay(attempt), 100 + JitterPercent)
  BY DEF Delays
<1>4. /\ Percent(CappedDelay(attempt), 100 + JitterPercent) \in Int
      /\ LongestDelay \in Int
  BY <1>1, DelayIsCapped DEF Percent, LongestDelay
<1>. QED BY <1>2, <1>3, <1>4

Near(due, settled) == settled <= due /\ due <= settled + LongestDelay

(* A failed event comes up again neither before the failure was recorded   *)
(* nor later than the longest delay after it, which exceeds the cap by the *)
(* jitter. (markFailed, applyJitter; the lease of a FAILED record is the   *)
(* time of its failure)                                                    *)
RetryIsNear ==
    \A k \in Keys : outbox[k].status = "FAILED" => Near(outbox[k].due, outbox[k].lease)

FailureIsNear ==
    \A p \in Publishers :
        publisher[p].pc = "markFailed" => Near(publisher[p].due, publisher[p].callNow)

(* Only markFailed makes a record FAILED, with the due date and the clock  *)
(* reading of the failure.                                                 *)
LEMMA OwnedIsNear ==
  ASSUME OutboxInv, FailureIsNear, RetryIsNear, NEW p \in Publishers, HoldsFence(p), ApplyOwned(p)
  PROVE  RetryIsNear'
<1> DEFINE me == publisher[p]
<1>1. me \in Workers /\ me.pc \in OwnedCalls /\ outbox \in [Keys -> Records]
  BY DEF OutboxInv, TypeOK, HoldsFence
<1>. SUFFICES ASSUME NEW k \in Keys, outbox'[k].status = "FAILED"
              PROVE  Near(outbox'[k].due, outbox'[k].lease)
  BY DEF RetryIsNear, Near, LongestDelay
<1>2. CASE k # me.key
  BY <1>1, <1>2 DEF ApplyOwned, RetryIsNear
<1>3. CASE k = me.key
  <2>1. outbox'[k] = Updated(outbox[k], me) /\ outbox[k] \in Records
        /\ outbox[k].status = "PROCESSING"
    BY <1>1, <1>3 DEF ApplyOwned, HoldsFence, Owned
  <2>2. CASE me.pc = "markFailed"
    <3>1. outbox'[k].due = me.due /\ outbox'[k].lease = me.callNow
      BY <2>1, <2>2 DEF Updated, Records
    <3>. QED BY <2>2, <3>1 DEF FailureIsNear
  <2>3. CASE me.pc = "heartbeat"
    BY <2>1, <2>3 DEF Updated, Records
  <2>4. CASE me.pc = "markDelivered"
    BY <2>1, <2>4 DEF Updated, Records
  <2>5. CASE me.pc = "markDeadLetter"
    BY <2>1, <2>5 DEF Updated, Records
  <2>. QED BY <1>1, <2>2, <2>3, <2>4, <2>5 DEF OwnedCalls
<1>. QED BY <1>2, <1>3

LEMMA TakenIsNear ==
  ASSUME OutboxInv, RetryIsNear, NEW p \in Publishers, NEW key \in Keys, NEW t, Take(p, key, t)
  PROVE  RetryIsNear'
<1>1. outbox \in [Keys -> Records]
  BY DEF OutboxInv, TypeOK
<1>2. outbox'[key].status = "PROCESSING" /\ \A k \in Keys \ {key} : outbox'[k] = outbox[k]
  BY <1>1 DEF Take, Claimed, Records
<1>3. \A k \in Keys : outbox'[k].status = "FAILED" => outbox'[k] = outbox[k]
  BY <1>2
<1>. QED BY <1>3 DEF RetryIsNear, Near, LongestDelay

(* A publisher that goes on to anything but markFailed leaves the due      *)
(* dates of the others as they are.                                        *)
LEMMA NoFailureIsNear ==
  ASSUME OutboxInv, FailureIsNear, NEW p \in Publishers, NEW next, Goto(p, next),
         next.pc = "markFailed" => Near(next.due, next.callNow)
  PROVE  FailureIsNear'
<1>1. publisher \in [Publishers -> Workers]
  BY DEF OutboxInv, TypeOK
<1>2. publisher'[p] = next /\ \A q \in Publishers \ {p} : publisher'[q] = publisher[q]
  BY <1>1 DEF Goto
<1>3. \A q \in Publishers : publisher'[q].pc = "markFailed" =>
         Near(publisher'[q].due, publisher'[q].callNow)
  BY <1>2 DEF FailureIsNear
<1>. QED BY <1>3 DEF FailureIsNear, Near, LongestDelay

LEMMA GivesUpNear ==
  ASSUME OutboxInv, FailureIsNear, NEW p \in Publishers, NEW me \in Workers, Goto(p, NextEvent(me))
  PROVE  FailureIsNear'
<1>1. NextEvent(me).pc # "markFailed"
  BY NextEventFacts
<1>. QED BY <1>1, NoFailureIsNear

(* A retry is due a delay of the policy after the failure.                 *)
LEMMA AfterFailureIsNear ==
  ASSUME NEW me \in Workers, now \in Nat, NEW error, NEW next \in AfterFailure(me, error),
         next.pc = "markFailed"
  PROVE  Near(next.due, next.callNow)
<1>1. PICK d \in {t \in now .. MaxNow : t - now \in Delays(AttemptOf(me))} :
         next = [me EXCEPT !.pc = "markFailed", !.callNow = now, !.due = d]
  BY DEF AfterFailure, Workers
<1>2. next.due = d /\ next.callNow = now
  BY <1>1 DEF Workers
<1>3. AttemptOf(me) \in Nat
  BY DEF AttemptOf, Workers
<1>4. d - now \in Nat /\ d - now <= LongestDelay
  BY <1>1, <1>3, DelaysAreBounded
<1>5. d \in Int /\ LongestDelay \in Int
  BY <1>1, OutboxAssumption, RetryPolicyAssumption DEF LongestDelay, Percent
<1>. QED BY <1>2, <1>4, <1>5 DEF Near

LEMMA PublisherIsNear ==
  ASSUME OutboxInv, FailureIsNear, RetryIsNear, NEW p \in Publishers,
         PublisherStep(p) \/ StoreFails(p)
  PROVE  FailureIsNear' /\ RetryIsNear'
<1> DEFINE me == publisher[p]
<1>1. me \in Workers /\ now \in Nat /\ \A s \in First(me.batch) : s.key \in Keys
  BY FirstType DEF OutboxInv, TypeOK, Workers
<1>2. ASSUME outbox' = outbox PROVE RetryIsNear'
  BY <1>2 DEF RetryIsNear, Near, LongestDelay
<1>3. CASE Scan(p)
  <2>1. publisher'[p].pc = "claim" /\ outbox' = outbox
    BY <1>3, ScanFacts DEF OutboxInv, Scan
  <2>2. publisher' = [publisher EXCEPT ![p] = publisher'[p]]
    BY <1>3 DEF Scan, Goto, OutboxInv, TypeOK
  <2>. QED BY <1>2, <2>1, <2>2, NoFailureIsNear DEF Goto
<1>4. CASE Claim(p) \/ (StoreFails(p) /\ me.pc = "claim")
  <2>1. PICK s \in First(me.batch) :
           /\ outbox' = outbox \/ Take(p, s.key, me.batchNow)
           /\ \E next : Goto(p, next) /\ next.pc # "markFailed"
    <3>1. CASE Claim(p)
      <4>1. PICK s \in First(me.batch) :
               /\ outbox' = outbox \/ Take(p, s.key, me.batchNow)
               /\ \/ Goto(p, NextEvent([me EXCEPT !.batch = me.batch \ {s}]))
                  \/ Goto(p, [[me EXCEPT !.batch = me.batch \ {s}] EXCEPT
                                !.pc = "heartbeat", !.key = s.key, !.seen = s.count,
                                !.payload = outbox[s.key].payload, !.token = tokens'[s.key],
                                !.callNow = me.batchNow])
        BY <3>1 DEF Claim
      <4>2. [me EXCEPT !.batch = me.batch \ {s}] \in Workers
        BY <1>1, FirstType DEF Workers
      <4>3. NextEvent([me EXCEPT !.batch = me.batch \ {s}]).pc # "markFailed"
        BY <4>2, NextEventFacts
      <4>4. [[me EXCEPT !.batch = me.batch \ {s}] EXCEPT
                !.pc = "heartbeat", !.key = s.key, !.seen = s.count,
                !.payload = outbox[s.key].payload, !.token = tokens'[s.key],
                !.callNow = me.batchNow].pc # "markFailed"
        BY <4>2 DEF Workers
      <4>. QED BY <4>1, <4>3, <4>4
    <3>2. CASE StoreFails(p) /\ me.pc = "claim"
      <4>1. PICK s \in First(me.batch) :
               /\ outbox' = outbox \/ Take(p, s.key, me.batchNow)
               /\ Goto(p, NextEvent([me EXCEPT !.batch = me.batch \ {s}]))
        BY <3>2 DEF StoreFails, OwnedCalls
      <4>2. [me EXCEPT !.batch = me.batch \ {s}] \in Workers
        BY <1>1, FirstType DEF Workers
      <4>. QED BY <4>1, <4>2, NextEventFacts
    <3>. QED BY <1>4, <3>1, <3>2
  <2>. QED BY <1>1, <1>2, <2>1, TakenIsNear, NoFailureIsNear
<1>5. CASE Heartbeat(p)
  <2>1. [me EXCEPT !.pc = "publish"].pc # "markFailed"
    BY <1>1 DEF Workers
  <2>. QED BY <1>5, <2>1, OwnedIsNear, NoFailureIsNear DEF Heartbeat
<1>6. CASE Settle(p) \/ Rejected(p) \/ (StoreFails(p) /\ me.pc # "claim")
  <2>1. /\ Goto(p, NextEvent(me))
        /\ outbox' = outbox \/ (HoldsFence(p) /\ ApplyOwned(p))
    BY <1>6 DEF Settle, Rejected, StoreFails
  <2>. QED BY <1>1, <1>2, <2>1, OwnedIsNear, GivesUpNear
<1>7. CASE Publish(p)
  <2>1. [me EXCEPT !.pc = "markDelivered", !.callNow = now].pc # "markFailed"
    BY <1>1 DEF Workers
  <2>. QED BY <1>2, <1>7, <2>1, NoFailureIsNear DEF Publish
<1>8. CASE TransportFails(p) \/ RefuseMalformed(p)
  <2>1. PICK error : \E next \in AfterFailure(me, error) : Goto(p, next)
    BY <1>8 DEF TransportFails, RefuseMalformed
  <2>2. PICK next \in AfterFailure(me, error) : Goto(p, next)
    BY <2>1
  <2>3. outbox' = outbox
    BY <1>8 DEF TransportFails, RefuseMalformed
  <2>. QED BY <1>1, <1>2, <2>2, <2>3, AfterFailureIsNear, NoFailureIsNear
<1>. QED BY <1>3, <1>4, <1>5, <1>6, <1>7, <1>8 DEF PublisherStep

LEMMA StepIsNear ==
  OutboxInv /\ FailureIsNear /\ RetryIsNear /\ [Next]_vars => FailureIsNear' /\ RetryIsNear'
<1>. SUFFICES ASSUME OutboxInv, FailureIsNear, RetryIsNear, [Next]_vars
              PROVE  FailureIsNear' /\ RetryIsNear'
  OBVIOUS
<1>1. ASSUME publisher' = publisher PROVE FailureIsNear'
  BY <1>1 DEF FailureIsNear, Near, LongestDelay
<1>2. ASSUME outbox' = outbox PROVE RetryIsNear'
  BY <1>2 DEF RetryIsNear, Near, LongestDelay
<1>3. ASSUME NEW r \in Producers, ProducerStep(r) PROVE FailureIsNear' /\ RetryIsNear'
  <2>1. publisher' = publisher
    BY <1>3 DEF ProducerStep, Find, Insert, Reload
  <2>2. \A k \in Keys : outbox'[k].status = "FAILED" => outbox'[k] = outbox[k]
    <3>1. CASE Insert(r)
      BY <3>1 DEF Insert, NewRecord, OutboxInv, TypeOK
    <3>2. CASE ~ Insert(r)
      BY <1>3, <3>2 DEF ProducerStep, Find, Reload
    <3>. QED BY <3>1, <3>2
  <2>. QED BY <1>1, <2>1, <2>2 DEF RetryIsNear, Near, LongestDelay
<1>4. ASSUME NEW p \in Publishers, Crash(p) PROVE FailureIsNear' /\ RetryIsNear'
  <2>1. Idle.pc # "markFailed"
    BY DEF Idle
  <2>. QED BY <1>2, <1>4, <2>1, NoFailureIsNear DEF Crash
<1>5. ASSUME NEW p \in Publishers, Flush(p) \/ ConnectionLost(p)
      PROVE  FailureIsNear' /\ RetryIsNear'
  BY <1>1, <1>2, <1>5 DEF Flush, ConnectionLost
<1>6. ASSUME UNCHANGED vars \/ Tick PROVE FailureIsNear' /\ RetryIsNear'
  BY <1>1, <1>2, <1>6 DEF vars, Tick
<1>. QED BY <1>3, <1>4, <1>5, <1>6, PublisherIsNear DEF Next, Environment

(* Whatever publishers, clocks and faults do, a failed event waits no      *)
(* longer for its next attempt than the jittered cap, and the stale        *)
(* attempt count of the scan cannot change that.                           *)
THEOREM RetriesAreNear == Spec => []RetryIsNear
<1>1. Init => FailureIsNear /\ RetryIsNear
  BY DEF Init, Idle, Absent, FailureIsNear, RetryIsNear
<1>. QED BY <1>1, StepIsNear, Invariance, PTL DEF Spec

=============================================================================
