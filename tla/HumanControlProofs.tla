------------------------- MODULE HumanControlProofs -------------------------
(***************************************************************************)
(* Theorems about human control, for every set of sessions, leases and     *)
(* calls in progress. ControlInv is inductive as it stands: that no return *)
(* is forgotten rests on the order of the return boundaries, which rests   *)
(* on there being one controller, and that on sessions and leases agreeing.*)
(* A lemma per kind of step shows that it keeps each part.                 *)
(***************************************************************************)
EXTENDS HumanControl, TLAPS

-----------------------------------------------------------------------------
(* Calls.                                                                  *)

(* No call gets further: what changes is done or has died.                 *)
CallsOnlyEnd ==
    /\ call' \in [Calls -> CallRows]
    /\ \A c \in Calls : call'[c] = call[c] \/ call'[c] = Idle

LEMMA IdleRow == Idle \in CallRows /\ Idle.step = "idle" /\ Idle.begun = 0
BY DEF Idle, CallRows

LEMMA DoneEnds ==
    ASSUME TypeOK, NEW c \in Calls, Done(c)
    PROVE  CallsOnlyEnd
BY IdleRow DEF CallsOnlyEnd, Done, TypeOK

LEMMA NothingEnds ==
    ASSUME TypeOK, call' = call
    PROVE  CallsOnlyEnd
BY DEF CallsOnlyEnd, TypeOK

(* A call that goes on still finds its session and its lease.              *)
LEMMA CallsStaySound ==
    ASSUME ControlInv, CallsOnlyEnd, now' = now,
           \A s \in Sessions : session[s] # "NONE" => session'[s] # "NONE",
           \A l \in Leases : lease[l].status # "NONE" => lease'[l].status # "NONE"
    PROVE  CallsAreSound'
<1>. SUFFICES ASSUME NEW c \in Calls
              PROVE  /\ call'[c].begun <= now
                     /\ call'[c].step = "acquire" =>
                          call'[c].session \in Sessions /\ session'[call'[c].session] # "NONE"
                     /\ call'[c].step \in {"heartbeat", "renew", "return", "expire"} =>
                          call'[c].lease \in Leases /\ lease'[call'[c].lease].status # "NONE"
  BY DEF CallsAreSound
<1>1. CASE call'[c] = Idle
  BY <1>1, IdleRow DEF ControlInv, TypeOK
<1>2. CASE call'[c] = call[c]
  BY <1>2 DEF ControlInv, CallsAreSound
<1>. QED BY <1>1, <1>2 DEF CallsOnlyEnd

(* A locked row that is left alone stays as its heartbeat found it.        *)
LEMMA RenewalsStay ==
    ASSUME ControlInv, CallsOnlyEnd,
           \A c \in Calls : call'[c].step = "renew" => lease'[call[c].lease] = lease[call[c].lease]
    PROVE  RenewalsHoldTheirRow'
<1>1. ASSUME NEW c \in Calls, call'[c].step = "renew"
      PROVE  call'[c] = call[c] /\ call[c].step = "renew" /\ lease'[call[c].lease] = lease[call[c].lease]
  BY <1>1, IdleRow DEF CallsOnlyEnd
<1>2. \A c \in Calls : call'[c].step = "renew" =>
         /\ lease'[call'[c].lease].status = "ACTIVE"
         /\ call'[c].begun < lease'[call'[c].lease].expires
  BY <1>1 DEF ControlInv, RenewalsHoldTheirRow, ActiveRow
<1>3. \A c, d \in Calls :
         call'[c].step = "renew" /\ call'[d].step = "renew" /\ call'[c].lease = call'[d].lease => c = d
  BY <1>1 DEF ControlInv, RenewalsHoldTheirRow
<1>. QED BY <1>2, <1>3 DEF RenewalsHoldTheirRow, ActiveRow

(* A step that leaves leases, sessions and fences alone keeps what is said *)
(* of them.                                                                *)
LEMMA RowsStay ==
    ASSUME ControlInv, UNCHANGED <<session, lease, fence>>
    PROVE  OneController' /\ SessionsFollowLeases' /\ FencesFollowLeases' /\ NoReturnForgotten'
BY DEF ControlInv, OneController, SessionsFollowLeases, FencesFollowLeases, NoReturnForgotten,
       ActiveRow, Open, Pending, EvaluatedSince

LEMMA Boundaries ==
    ASSUME ControlInv
    PROVE  /\ now \in Nat
           /\ \A l \in Leases : fence[l].freshAfter \in Nat /\ fence[l].freshAfter <= now
           /\ \A c \in Calls : call[c].begun \in Nat /\ call[c].begun <= now
BY DEF ControlInv, TypeOK, FenceRows, CallRows, CallsAreSound, BoundariesAreOrdered

(* A call moves on and nothing else happens.                               *)
LEMMA CallMovesOK ==
    ASSUME ControlInv, NEW c \in Calls, NEW next \in CallRows, call' = [call EXCEPT ![c] = next],
           UNCHANGED <<now, session, lease, fence, Evaluation>>,
           next.begun <= now,
           next.step = "acquire" => next.session \in Sessions /\ session[next.session] # "NONE",
           next.step \in {"heartbeat", "renew", "return", "expire"} =>
              next.lease \in Leases /\ lease[next.lease].status # "NONE",
           next.step \in {"heartbeat", "return", "expire"} => next.begun = now,
           next.step = "renew" =>
              ActiveRow(next.lease) /\ next.begun < lease[next.lease].expires /\ ~ Locked(next.lease)
    PROVE  ControlInv'
<1>1. TypeOK'
  BY DEF ControlInv, TypeOK, Evaluation
<1>2. call'[c] = next /\ \A d \in Calls \ {c} : call'[d] = call[d]
  BY DEF ControlInv, TypeOK
<1>3. CallsAreSound'
  BY <1>2 DEF ControlInv, CallsAreSound
<1>4. BoundariesAreOrdered'
  <2>1. \A l \in Leases : fence'[l].freshAfter <= now'
    BY Boundaries
  <2>2. ASSUME NEW d \in Calls, NEW l \in Leases, call'[d].step \in {"heartbeat", "return", "expire"},
               lease'[call'[d].lease].status = "ACTIVE"
        PROVE  fence'[l].freshAfter <= call'[d].begun
    BY <1>2, <2>2, Boundaries DEF ControlInv, BoundariesAreOrdered, ActiveRow
  <2>3. \A l, m \in Leases : Pending(l)' => fence'[m].freshAfter <= fence'[l].freshAfter
    BY DEF ControlInv, BoundariesAreOrdered, Pending
  <2>. QED BY <2>1, <2>2, <2>3 DEF BoundariesAreOrdered, ActiveRow
<1>5. RenewalsHoldTheirRow'
  BY <1>2 DEF ControlInv, RenewalsHoldTheirRow, ActiveRow, Locked
<1>. QED BY <1>1, <1>3, <1>4, <1>5, RowsStay DEF ControlInv

LEMMA AsksOK ==
    ASSUME ControlAssumption, ControlInv, NEW c \in Calls,
           \/ AskControl(c)
           \/ \E s \in Sessions : AskLease(c, s)
           \/ \E l \in Leases : AskHeartbeat(c, l) \/ AskReturn(c, l) \/ AskExpire(c, l)
    PROVE  ControlInv'
<1>1. PICK step \in {"request", "acquire", "heartbeat", "return", "expire"},
           s \in Sessions \cup {NoSession}, l \in Leases \cup {NoLease} :
        /\ Step(c, step, s, l) /\ UNCHANGED <<now, session, lease, fence, Evaluation>>
        /\ step = "acquire" => s \in Sessions /\ session[s] # "NONE"
        /\ step \in {"heartbeat", "return", "expire"} => l \in Leases /\ lease[l].status # "NONE"
  <2>1. CASE AskControl(c)
    BY <2>1 DEF AskControl
  <2>2. CASE \E s \in Sessions : AskLease(c, s)
    BY <2>2 DEF AskLease
  <2>3. CASE \E l \in Leases : AskHeartbeat(c, l)
    BY <2>3 DEF AskHeartbeat
  <2>4. CASE \E l \in Leases : AskReturn(c, l)
    BY <2>4 DEF AskReturn, Live
  <2>5. CASE \E l \in Leases : AskExpire(c, l)
    BY <2>5 DEF AskExpire
  <2>. QED BY <2>1, <2>2, <2>3, <2>4, <2>5
<1>. DEFINE next == [step |-> step, session |-> s, lease |-> l, begun |-> now]
<1>2. /\ next \in CallRows /\ next.step = step /\ next.session = s /\ next.lease = l
      /\ next.begun = now /\ now \in Nat
  BY Boundaries DEF CallRows
<1>3. call' = [call EXCEPT ![c] = next]
  BY <1>1 DEF Step
<1>. HIDE DEF next
<1>4. next.begun <= now
  BY <1>2
<1>. QED BY <1>1, <1>2, <1>3, <1>4, CallMovesOK

LEMMA GivesUpOK ==
    ASSUME ControlAssumption, ControlInv, NEW c \in Calls,
           AcquireRefused(c) \/ TooLate(c) \/ Crash(c)
    PROVE  ControlInv'
<1>1. /\ UNCHANGED <<now, session, lease, fence, Evaluation>>
      /\ call' = [call EXCEPT ![c] = Idle]
  BY DEF AcquireRefused, TooLate, Crash, Done
<1>2. Idle.begun <= now
  BY IdleRow, Boundaries
<1>. QED BY <1>1, <1>2, IdleRow, CallMovesOK

-----------------------------------------------------------------------------
(* Sessions.                                                               *)

(* A session on its way to a lease has none yet.                           *)
LEMMA SessionMovesOK ==
    ASSUME ControlAssumption, ControlInv, NEW s \in Sessions, CallsOnlyEnd,
           UNCHANGED <<now, lease, fence, Evaluation>>,
           \/ session[s] = "NONE" /\ session' = [session EXCEPT ![s] = "REQUESTED"]
           \/ /\ session[s] = "REQUESTED" /\ session' = [session EXCEPT ![s] = "AUTHORIZED"]
              /\ ~ \E t \in Sessions : Open(t)
    PROVE  ControlInv'
<1>1. /\ session'[s] \in {"REQUESTED", "AUTHORIZED"}
      /\ session[s] \in {"NONE", "REQUESTED"}
      /\ \A t \in Sessions \ {s} : session'[t] = session[t]
      /\ session' \in [Sessions -> SessionStatuses]
  BY DEF ControlInv, TypeOK, SessionStatuses
<1>2. TypeOK'
  BY <1>1 DEF ControlInv, TypeOK, CallsOnlyEnd, Evaluation
<1>3. CallsAreSound'
  BY <1>1, CallsStaySound
<1>4. OneController'
  <2>1. \A l, m \in Leases : ActiveRow(l)' /\ ActiveRow(m)' => l = m
    BY DEF ControlInv, OneController, ActiveRow
  <2>2. CASE session'[s] = "REQUESTED"
    BY <1>1, <2>1, <2>2 DEF ControlInv, OneController, Open
  <2>3. CASE ~ \E t \in Sessions : Open(t)
    BY <1>1, <2>1, <2>3 DEF OneController, Open
  <2>. QED BY <2>2, <2>3, <1>1 DEF ControlInv, TypeOK
<1>5. SessionsFollowLeases'
  <2>1. ASSUME NEW l \in Leases, lease[l].status # "NONE"
        PROVE  lease[l].session \in Sessions /\ session'[lease[l].session] = lease[l].status
    <3>1. /\ lease[l].session \in Sessions /\ session[lease[l].session] = lease[l].status
          /\ lease[l].status \in {"ACTIVE"} \cup Ends
      BY <2>1 DEF ControlInv, TypeOK, SessionsFollowLeases, LeaseRows
    <3>2. lease[l].session # s
      BY <1>1, <3>1 DEF Ends
    <3>. QED BY <1>1, <3>1, <3>2
  <2>2. ASSUME NEW t \in Sessions, session'[t] \in {"ACTIVE"} \cup Ends
        PROVE  \E l \in Leases : lease[l].status # "NONE" /\ lease[l].session = t
    <3>1. t # s
      BY <1>1, <2>2 DEF Ends
    <3>2. session[t] \in {"ACTIVE"} \cup Ends
      BY <1>1, <2>2, <3>1
    <3>. QED BY <3>2 DEF ControlInv, SessionsFollowLeases
  <2>. QED BY <2>1, <2>2 DEF ControlInv, SessionsFollowLeases
<1>6. FencesFollowLeases' /\ NoReturnForgotten'
  BY DEF ControlInv, FencesFollowLeases, NoReturnForgotten, Pending, EvaluatedSince
<1>7. BoundariesAreOrdered'
  BY IdleRow DEF ControlInv, BoundariesAreOrdered, CallsOnlyEnd, ActiveRow, Pending
<1>8. RenewalsHoldTheirRow'
  BY RenewalsStay
<1>. QED BY <1>2, <1>3, <1>4, <1>5, <1>6, <1>7, <1>8 DEF ControlInv

LEMMA CreateSessionOK ==
    ASSUME ControlAssumption, ControlInv, NEW c \in Calls, NEW s \in Sessions, CreateSession(c, s)
    PROVE  ControlInv'
BY DoneEnds, SessionMovesOK DEF CreateSession, ControlInv

LEMMA AuthorizeOK ==
    ASSUME ControlAssumption, ControlInv, NEW s \in Sessions, Authorize(s)
    PROVE  ControlInv'
BY NothingEnds, SessionMovesOK DEF Authorize, ControlInv

-----------------------------------------------------------------------------
(* Leases.                                                                 *)

LEMMA AcquireLeaseOK ==
    ASSUME ControlAssumption, ControlInv, NEW c \in Calls, NEW l \in Leases, AcquireLease(c, l)
    PROVE  ControlInv'
<1>. DEFINE s == call[c].session
<1>1. /\ UNCHANGED <<now, fence, Evaluation>> /\ Open(s) /\ lease[l].status = "NONE"
      /\ \A m \in Leases : lease[m].status # "ACTIVE"
      /\ session' = [session EXCEPT ![s] = "ACTIVE"]
  BY DEF AcquireLease, Acquirable, ActiveRow
<1>2. PICK at \in Times(c) :
         lease' = [lease EXCEPT ![l] = [status |-> "ACTIVE", session |-> s, expires |-> at + LeaseMs]]
  BY DEF AcquireLease
<1>3. s \in Sessions
  BY DEF AcquireLease, ControlInv, CallsAreSound
<1>. HIDE DEF s
<1>4. CallsOnlyEnd
  BY DoneEnds DEF AcquireLease, ControlInv
<1>5. at + LeaseMs \in Nat
  BY Boundaries, ControlAssumption DEF Times, ControlAssumption
<1>6. /\ lease' \in [Leases -> LeaseRows] /\ lease'[l].status = "ACTIVE" /\ lease'[l].session = s
      /\ \A m \in Leases \ {l} : lease'[m] = lease[m]
  <2>1. [status |-> "ACTIVE", session |-> s, expires |-> at + LeaseMs] \in LeaseRows
    BY <1>3, <1>5 DEF LeaseRows
  <2>. QED BY <1>2, <2>1 DEF ControlInv, TypeOK
<1>7. /\ session' \in [Sessions -> SessionStatuses] /\ session'[s] = "ACTIVE"
      /\ \A t \in Sessions \ {s} : session'[t] = session[t]
  BY <1>1, <1>3 DEF ControlInv, TypeOK, SessionStatuses
<1>8. TypeOK'
  BY <1>1, <1>4, <1>6, <1>7 DEF ControlInv, TypeOK, CallsOnlyEnd, Evaluation
<1>9. CallsAreSound'
  BY <1>1, <1>4, <1>6, <1>7, CallsStaySound
<1>10. OneController'
  <2>1. \A t \in Sessions : Open(t)' => t = s
    BY <1>1, <1>3, <1>7 DEF ControlInv, OneController, Open
  <2>. QED BY <1>1, <1>6, <2>1 DEF OneController, ActiveRow
<1>11. SessionsFollowLeases'
  <2>1. ASSUME NEW m \in Leases, m # l, lease[m].status # "NONE"
        PROVE  /\ lease[m].session \in Sessions /\ lease[m].session # s
               /\ session[lease[m].session] = lease[m].status
    <3>1. /\ lease[m].session \in Sessions /\ session[lease[m].session] = lease[m].status
          /\ lease[m].status \in Ends
      BY <1>1, <2>1 DEF ControlInv, TypeOK, SessionsFollowLeases, LeaseRows
    <3>. QED BY <1>1, <3>1 DEF Open, Ends
  <2>2. \A m \in Leases : lease'[m].status # "NONE" =>
           lease'[m].session \in Sessions /\ session'[lease'[m].session] = lease'[m].status
    BY <1>3, <1>6, <1>7, <2>1
  <2>3. \A m, n \in Leases :
           lease'[m].status # "NONE" /\ lease'[n].status # "NONE" /\ lease'[m].session = lease'[n].session
             => m = n
    BY <1>6, <2>1 DEF ControlInv, SessionsFollowLeases
  <2>4. ASSUME NEW t \in Sessions, session'[t] \in {"ACTIVE"} \cup Ends
        PROVE  \E m \in Leases : lease'[m].status # "NONE" /\ lease'[m].session = t
    <3>1. CASE t = s
      BY <1>6, <3>1
    <3>2. CASE t # s
      <4>1. PICK m \in Leases : lease[m].status # "NONE" /\ lease[m].session = t
        BY <1>7, <2>4, <3>2 DEF ControlInv, SessionsFollowLeases
      <4>. QED BY <1>1, <1>6, <4>1
    <3>. QED BY <3>1, <3>2
  <2>. QED BY <2>2, <2>3, <2>4 DEF SessionsFollowLeases
<1>12. \A m \in Leases : lease'[m].status \in Ends <=> lease[m].status \in Ends
  BY <1>1, <1>6 DEF Ends
<1>13. FencesFollowLeases' /\ NoReturnForgotten'
  BY <1>1, <1>12 DEF ControlInv, FencesFollowLeases, NoReturnForgotten, Pending, EvaluatedSince
<1>14. BoundariesAreOrdered'
  <2>1. ASSUME NEW d \in Calls, call'[d].step \in {"heartbeat", "return", "expire"},
               lease'[call'[d].lease].status = "ACTIVE"
        PROVE  FALSE
    <3>1. call'[d] = call[d]
      BY <1>4, <2>1, IdleRow DEF CallsOnlyEnd
    <3>2. call[d].lease \in Leases /\ lease[call[d].lease].status # "NONE"
      BY <2>1, <3>1 DEF ControlInv, CallsAreSound
    <3>. QED BY <1>1, <1>6, <2>1, <3>1, <3>2 DEF ActiveRow
  <2>. QED BY <1>1, <2>1 DEF ControlInv, BoundariesAreOrdered, ActiveRow, Pending
<1>15. RenewalsHoldTheirRow'
  <2>1. ASSUME NEW d \in Calls, call'[d].step = "renew"
        PROVE  FALSE
    <3>1. call[d].step = "renew"
      BY <1>4, <2>1, IdleRow DEF CallsOnlyEnd
    <3>2. call[d].lease \in Leases /\ lease[call[d].lease].status = "ACTIVE"
      BY <3>1 DEF ControlInv, CallsAreSound, RenewalsHoldTheirRow, ActiveRow
    <3>. QED BY <1>1, <3>2
  <2>. QED BY <1>4, <2>1, RenewalsStay
<1>. QED BY <1>8, <1>9, <1>10, <1>11, <1>13, <1>14, <1>15 DEF ControlInv

(* Renewing a lease changes no more than its expiry.                       *)
LEMMA RenewOK ==
    ASSUME ControlAssumption, ControlInv, NEW l \in Leases, NEW until \in Nat, CallsOnlyEnd,
           lease' = [lease EXCEPT ![l].expires = until],
           UNCHANGED <<now, session, fence, Evaluation>>,
           \A d \in Calls : call'[d].step = "renew" => call[d].lease # l
    PROVE  ControlInv'
<1>1. /\ lease' \in [Leases -> LeaseRows]
      /\ \A m \in Leases : lease'[m].status = lease[m].status /\ lease'[m].session = lease[m].session
  BY DEF ControlInv, TypeOK, LeaseRows
<1>2. TypeOK'
  BY <1>1 DEF ControlInv, TypeOK, CallsOnlyEnd, Evaluation
<1>3. CallsAreSound'
  BY <1>1, CallsStaySound
<1>4. OneController' /\ SessionsFollowLeases' /\ FencesFollowLeases' /\ NoReturnForgotten'
  BY <1>1 DEF ControlInv, OneController, SessionsFollowLeases, FencesFollowLeases, NoReturnForgotten,
              ActiveRow, Open, Pending, EvaluatedSince
<1>5. BoundariesAreOrdered'
  <2>1. ASSUME NEW d \in Calls, NEW m \in Leases, call'[d].step \in {"heartbeat", "return", "expire"},
               lease'[call'[d].lease].status = "ACTIVE"
        PROVE  fence[m].freshAfter <= call'[d].begun
    <3>1. call'[d] = call[d] /\ call[d].lease \in Leases
      BY <2>1, IdleRow DEF CallsOnlyEnd, ControlInv, CallsAreSound
    <3>. QED BY <1>1, <2>1, <3>1 DEF ControlInv, BoundariesAreOrdered, ActiveRow
  <2>. QED BY <2>1 DEF ControlInv, BoundariesAreOrdered, ActiveRow, Pending
<1>6. RenewalsHoldTheirRow'
  <2>1. ASSUME NEW d \in Calls, call'[d].step = "renew"
        PROVE  lease'[call[d].lease] = lease[call[d].lease]
    <3>1. call[d].step = "renew" /\ call[d].lease # l
      BY <2>1, IdleRow DEF CallsOnlyEnd
    <3>2. call[d].lease \in Leases
      BY <3>1 DEF ControlInv, CallsAreSound
    <3>. QED BY <3>1, <3>2 DEF ControlInv, TypeOK
  <2>. QED BY <2>1, RenewalsStay
<1>. QED BY <1>2, <1>3, <1>4, <1>5, <1>6 DEF ControlInv

(* What the end of a lease makes of the rows.                              *)
LEMMA EndedRows ==
    ASSUME ControlInv, NEW l \in Leases, ActiveRow(l), NEW end \in Ends, NEW at \in Nat,
           End(l, end, at)
    PROVE  /\ lease' \in [Leases -> LeaseRows]
           /\ lease'[l].status = end /\ lease'[l].session = lease[l].session
           /\ \A m \in Leases \ {l} : lease'[m] = lease[m] /\ lease[m].status # "ACTIVE"
           /\ lease[l].session \in Sessions /\ session[lease[l].session] = "ACTIVE"
           /\ session' \in [Sessions -> SessionStatuses] /\ session'[lease[l].session] = end
           /\ \A s \in Sessions \ {lease[l].session} : session'[s] = session[s]
           /\ fence' \in [Leases -> FenceRows] /\ fence[l].state = "NONE"
           /\ Pending(l)' /\ fence'[l].freshAfter = at
           /\ \A m \in Leases \ {l} :
                /\ ~ Pending(m)' /\ fence'[m].freshAfter = fence[m].freshAfter
                /\ fence'[m].state = "NONE" <=> fence[m].state = "NONE"
                /\ ~ Pending(m) => fence'[m] = fence[m]
<1>1. /\ lease[l].session \in Sessions /\ session[lease[l].session] = "ACTIVE"
      /\ \A m \in Leases \ {l} : lease[m].status # "ACTIVE"
      /\ fence[l].state = "NONE" /\ lease \in [Leases -> LeaseRows]
      /\ session \in [Sessions -> SessionStatuses] /\ fence \in [Leases -> FenceRows]
  BY DEF ControlInv, SessionsFollowLeases, OneController, FencesFollowLeases, TypeOK, ActiveRow, Ends
<1>2. /\ lease' \in [Leases -> LeaseRows]
      /\ lease'[l].status = end /\ lease'[l].session = lease[l].session
      /\ \A m \in Leases \ {l} : lease'[m] = lease[m]
  BY <1>1 DEF End, LeaseRows
<1>3. /\ session' \in [Sessions -> SessionStatuses] /\ session'[lease[l].session] = end
      /\ \A s \in Sessions \ {lease[l].session} : session'[s] = session[s]
  BY <1>1 DEF End, SessionStatuses, Ends
<1>. DEFINE new == [NoFence EXCEPT !.state = "REQUIRES_FRESH_EVALUATION", !.freshAfter = at]
            old(m) == [fence[m] EXCEPT !.state = "SUPERSEDED"]
<1>4. /\ new \in FenceRows /\ new.state = "REQUIRES_FRESH_EVALUATION" /\ new.freshAfter = at
  BY DEF NoFence, FenceRows, FenceStates
<1>5. \A m \in Leases : /\ old(m) \in FenceRows /\ old(m).state = "SUPERSEDED"
                        /\ old(m).freshAfter = fence[m].freshAfter
  BY <1>1 DEF FenceRows, FenceStates
<1>6. fence' = [m \in Leases |-> IF m = l THEN new ELSE IF Pending(m) THEN old(m) ELSE fence[m]]
  BY DEF End, Fenced
<1>. HIDE DEF new, old
<1>7. fence' \in [Leases -> FenceRows]
  BY <1>1, <1>4, <1>5, <1>6
<1>8. Pending(l)' /\ fence'[l].freshAfter = at
  BY <1>4, <1>6 DEF Pending
<1>9. ASSUME NEW m \in Leases \ {l}
      PROVE  /\ ~ Pending(m)' /\ fence'[m].freshAfter = fence[m].freshAfter
             /\ fence'[m].state = "NONE" <=> fence[m].state = "NONE"
             /\ ~ Pending(m) => fence'[m] = fence[m]
  BY <1>5, <1>6 DEF Pending
<1>. QED BY <1>1, <1>2, <1>3, <1>7, <1>8, <1>9

(* The end of a lease no heartbeat has locked, by a transaction that began *)
(* after every boundary.                                                   *)
LEMMA EndOK ==
    ASSUME ControlAssumption, ControlInv, NEW l \in Leases, ActiveRow(l), NEW end \in Ends,
           NEW at \in Nat, at <= now, \A m \in Leases : fence[m].freshAfter <= at,
           ~ Locked(l), End(l, end, at), CallsOnlyEnd, UNCHANGED <<now, Evaluation>>
    PROVE  ControlInv'
<1>1. /\ lease' \in [Leases -> LeaseRows]
      /\ lease'[l].status = end /\ lease'[l].session = lease[l].session
      /\ \A m \in Leases \ {l} : lease'[m] = lease[m] /\ lease[m].status # "ACTIVE"
      /\ lease[l].session \in Sessions /\ session[lease[l].session] = "ACTIVE"
      /\ session' \in [Sessions -> SessionStatuses] /\ session'[lease[l].session] = end
      /\ \A s \in Sessions \ {lease[l].session} : session'[s] = session[s]
  BY EndedRows
<1>2. /\ fence' \in [Leases -> FenceRows]
      /\ Pending(l)' /\ fence'[l].freshAfter = at
      /\ \A m \in Leases \ {l} : /\ ~ Pending(m)' /\ fence'[m].freshAfter = fence[m].freshAfter
                                 /\ fence'[m].state = "NONE" <=> fence[m].state = "NONE"
  BY EndedRows
<1>3. end \in {"RELEASED", "EXPIRED"}
  BY DEF Ends
<1>4. TypeOK'
  BY <1>1, <1>2 DEF ControlInv, TypeOK, CallsOnlyEnd, Evaluation
<1>5. CallsAreSound'
  BY <1>1, <1>3, CallsStaySound
<1>6. OneController'
  BY <1>1, <1>3 DEF ControlInv, OneController, ActiveRow, Open
<1>7. SessionsFollowLeases'
  <2>1. ASSUME NEW m \in Leases, m # l, lease[m].status # "NONE"
        PROVE  /\ lease[m].session \in Sessions /\ lease[m].session # lease[l].session
               /\ session[lease[m].session] = lease[m].status
    BY <2>1 DEF ControlInv, SessionsFollowLeases, ActiveRow
  <2>2. \A m \in Leases : lease'[m].status # "NONE" =>
           lease'[m].session \in Sessions /\ session'[lease'[m].session] = lease'[m].status
    BY <1>1, <2>1
  <2>3. \A m, n \in Leases :
           lease'[m].status # "NONE" /\ lease'[n].status # "NONE" /\ lease'[m].session = lease'[n].session
             => m = n
    BY <1>1, <2>1 DEF ControlInv, SessionsFollowLeases
  <2>4. ASSUME NEW t \in Sessions, session'[t] \in {"ACTIVE"} \cup Ends
        PROVE  \E m \in Leases : lease'[m].status # "NONE" /\ lease'[m].session = t
    <3>1. CASE t = lease[l].session
      BY <1>1, <1>3, <3>1
    <3>2. CASE t # lease[l].session
      <4>1. PICK m \in Leases : lease[m].status # "NONE" /\ lease[m].session = t
        BY <1>1, <2>4, <3>2 DEF ControlInv, SessionsFollowLeases
      <4>. QED BY <1>1, <3>2, <4>1
    <3>. QED BY <3>1, <3>2
  <2>. QED BY <2>2, <2>3, <2>4 DEF SessionsFollowLeases
<1>8. FencesFollowLeases'
  <2>1. fence'[l].state # "NONE" /\ lease'[l].status \in Ends
    BY <1>1, <1>2 DEF Pending
  <2>2. \A m \in Leases \ {l} : fence'[m].state # "NONE" <=> lease'[m].status \in Ends
    BY <1>1, <1>2 DEF ControlInv, FencesFollowLeases
  <2>. QED BY <1>2, <2>1, <2>2 DEF FencesFollowLeases
<1>9. BoundariesAreOrdered'
  <2>1. ASSUME NEW d \in Calls, call'[d].step \in {"heartbeat", "return", "expire"},
               lease'[call'[d].lease].status = "ACTIVE"
        PROVE  FALSE
    <3>1. call'[d].lease \in Leases
      BY <1>5, <2>1 DEF CallsAreSound
    <3>. QED BY <1>1, <1>3, <2>1, <3>1 DEF ActiveRow
  <2>2. \A m \in Leases : fence'[m].freshAfter <= at
    BY <1>2
  <2>3. \A m \in Leases : fence'[m].freshAfter <= now'
    BY <1>2, Boundaries
  <2>4. \A m \in Leases : Pending(m)' => m = l
    BY <1>2
  <2>. QED BY <1>2, <2>1, <2>2, <2>3, <2>4 DEF BoundariesAreOrdered, ActiveRow
<1>10. NoReturnForgotten'
  BY <1>2 DEF NoReturnForgotten
<1>11. RenewalsHoldTheirRow'
  <2>1. ASSUME NEW d \in Calls, call'[d].step = "renew"
        PROVE  lease'[call[d].lease] = lease[call[d].lease]
    <3>1. call[d].step = "renew"
      BY <2>1, IdleRow DEF CallsOnlyEnd
    <3>2. call[d].lease \in Leases \ {l}
      BY <3>1 DEF ControlInv, CallsAreSound, Locked
    <3>. QED BY <1>1, <3>2
  <2>. QED BY <2>1, RenewalsStay
<1>. QED BY <1>4, <1>5, <1>6, <1>7, <1>8, <1>9, <1>10, <1>11 DEF ControlInv

(* Whoever may end an active lease began after every boundary.             *)
LEMMA TimesAreLate ==
    ASSUME ControlInv, NEW c \in Calls, call[c].step \in {"heartbeat", "return", "expire"},
           ActiveRow(call[c].lease), NEW at \in Times(c)
    PROVE  /\ call[c].lease \in Leases /\ at \in Nat /\ at <= now
           /\ \A m \in Leases : fence[m].freshAfter <= at
<1>1. call[c].begun \in Nat /\ now \in Nat /\ at \in call[c].begun .. now
  BY Boundaries DEF Times
<1>2. at \in Nat /\ at <= now /\ call[c].begun <= at
  BY <1>1
<1>3. \A m \in Leases : fence[m].freshAfter \in Nat /\ fence[m].freshAfter <= call[c].begun
  BY Boundaries DEF ControlInv, BoundariesAreOrdered
<1>4. call[c].lease \in Leases
  BY DEF ControlInv, CallsAreSound
<1>. QED BY <1>1, <1>2, <1>3, <1>4

LEMMA FindLeaseLiveOK ==
    ASSUME ControlAssumption, ControlInv, NEW c \in Calls, FindLeaseLive(c)
    PROVE  ControlInv'
<1>. DEFINE l == call[c].lease
<1>1. PICK at \in Times(c) : call' = [call EXCEPT ![c].step = "renew", ![c].begun = at]
  BY DEF FindLeaseLive
<1>. DEFINE next == [call[c] EXCEPT !.step = "renew", !.begun = at]
<1>2. /\ l \in Leases /\ at \in Nat /\ at <= now /\ now \in Nat /\ lease \in [Leases -> LeaseRows]
      /\ call[c] \in CallRows /\ call \in [Calls -> CallRows]
  BY TimesAreLate DEF FindLeaseLive, ControlInv, TypeOK
<1>3. /\ next \in CallRows /\ next.step = "renew" /\ next.lease = l /\ next.begun = at
      /\ call' = [call EXCEPT ![c] = next]
  BY <1>1, <1>2 DEF CallRows
<1>4. lease[l].expires \in Nat
  BY <1>2 DEF LeaseRows
<1>5. /\ ActiveRow(l) /\ ~ Locked(l) /\ lease[l].expires > now
      /\ UNCHANGED <<now, session, lease, fence, Evaluation>>
  BY DEF FindLeaseLive
<1>6. at < lease[l].expires /\ lease[l].status # "NONE"
  BY <1>2, <1>4, <1>5 DEF ActiveRow
<1>. HIDE DEF l, next
<1>. QED BY <1>2, <1>3, <1>5, <1>6, CallMovesOK

(* The commit of a renewal: nobody else holds the row.                     *)
LEMMA RenewRow ==
    ASSUME ControlAssumption, ControlInv, NEW c \in Calls, Renew(c)
    PROVE  /\ call[c].step = "renew" /\ call[c].lease \in Leases /\ ActiveRow(call[c].lease)
           /\ call[c].begun < lease[call[c].lease].expires
           /\ call[c].begun + LeaseMs \in Nat
           /\ lease' = [lease EXCEPT ![call[c].lease].expires = call[c].begun + LeaseMs]
           /\ UNCHANGED <<now, session, fence, Evaluation>>
BY Boundaries DEF Renew, ControlInv, CallsAreSound, RenewalsHoldTheirRow, ControlAssumption

LEMMA RenewCommitOK ==
    ASSUME ControlAssumption, ControlInv, NEW c \in Calls, Renew(c)
    PROVE  ControlInv'
<1>1. CallsOnlyEnd
  BY DoneEnds DEF Renew, ControlInv
<1>2. ASSUME NEW d \in Calls, call'[d].step = "renew" PROVE call[d].lease # call[c].lease
  <2>1. d # c /\ call[d].step = "renew"
    BY <1>1, <1>2, IdleRow DEF Renew, Done, CallsOnlyEnd, ControlInv, TypeOK
  <2>. QED BY <2>1, RenewRow DEF ControlInv, RenewalsHoldTheirRow
<1>. QED BY <1>1, <1>2, RenewRow, RenewOK

(* A call that may end the active lease it names, which no heartbeat has   *)
(* locked, does so.                                                        *)
LEMMA CallEndsLeaseOK ==
    ASSUME ControlAssumption, ControlInv, NEW c \in Calls, NEW end \in Ends, NEW at \in Times(c),
           call[c].step \in {"heartbeat", "return", "expire"},
           ActiveRow(call[c].lease), ~ Locked(call[c].lease),
           End(call[c].lease, end, at), Done(c), UNCHANGED <<now, Evaluation>>
    PROVE  ControlInv'
<1>1. /\ call[c].lease \in Leases /\ at \in Nat /\ at <= now
      /\ \A m \in Leases : fence[m].freshAfter <= at
  BY TimesAreLate
<1>2. CallsOnlyEnd
  BY DoneEnds DEF ControlInv
<1>. QED BY <1>1, <1>2, EndOK

LEMMA EndsOK ==
    ASSUME ControlAssumption, ControlInv, NEW c \in Calls,
           FindLeaseOver(c) \/ Release(c) \/ ExpireControl(c)
    PROVE  ControlInv'
<1>1. PICK end \in Ends, at \in Times(c) :
        /\ call[c].step \in {"heartbeat", "return", "expire"}
        /\ ActiveRow(call[c].lease) /\ ~ Locked(call[c].lease)
        /\ End(call[c].lease, end, at) /\ Done(c) /\ UNCHANGED <<now, Evaluation>>
  BY DEF FindLeaseOver, Release, ExpireControl, Ends
<1>. QED BY <1>1, CallEndsLeaseOK

-----------------------------------------------------------------------------
(* The evaluation and the clock.                                           *)

LEMMA EvaluationOK ==
    ASSUME ControlAssumption, ControlInv, Diagnose \/ StartDecision \/ Decide
    PROVE  ControlInv'
<1>1. UNCHANGED <<now, session, lease, fence, call>>
  BY DEF Diagnose, StartDecision, Decide
<1>2. TypeOK'
  <2>1. TypeOK /\ now \in Nat
    BY DEF ControlInv, TypeOK
  <2>2. CASE Diagnose
    <3>1. diagnosis.number + 1 \in Nat
      BY <2>1 DEF TypeOK
    <3>. QED BY <1>1, <2>1, <2>2, <3>1 DEF Diagnose, TypeOK
  <2>3. CASE StartDecision
    BY <1>1, <2>1, <2>3 DEF StartDecision, TypeOK
  <2>4. CASE Decide
    BY <1>1, <2>1, <2>4 DEF Decide, TypeOK
  <2>. QED BY <2>2, <2>3, <2>4
<1>3. CallsAreSound' /\ BoundariesAreOrdered'
  BY <1>1 DEF ControlInv, CallsAreSound, BoundariesAreOrdered, ActiveRow, Pending
<1>4. RenewalsHoldTheirRow'
  BY <1>1 DEF ControlInv, RenewalsHoldTheirRow, ActiveRow
<1>. QED BY <1>1, <1>2, <1>3, <1>4, RowsStay DEF ControlInv

(* The pending fence is the last one, so its evaluation is late enough for *)
(* all of them.                                                            *)
LEMMA CertifyOK ==
    ASSUME ControlAssumption, ControlInv, NEW l \in Leases, Certify(l)
    PROVE  ControlInv'
<1>1. /\ UNCHANGED <<now, session, lease, Evaluation, call>> /\ Pending(l)
      /\ diagnosis.made >= fence[l].freshAfter /\ decision.made >= fence[l].freshAfter
  BY DEF Certify, Fresh
<1>2. /\ fence' \in [Leases -> FenceRows] /\ fence'[l].state = "SATISFIED"
      /\ fence'[l].diagnosed = diagnosis.made /\ fence'[l].decided = decision.made
      /\ fence'[l].freshAfter = fence[l].freshAfter
      /\ \A m \in Leases \ {l} : fence'[m] = fence[m]
      /\ diagnosis.made \in Nat /\ decision.made \in Nat
  BY DEF Certify, ControlInv, TypeOK, FenceRows, FenceStates
<1>3. \A m \in Leases : ~ Pending(m)'
  BY <1>1, <1>2 DEF ControlInv, FencesFollowLeases, Pending
<1>4. \A m \in Leases : /\ fence'[m].freshAfter = fence[m].freshAfter
                        /\ fence'[m].state = "NONE" <=> fence[m].state = "NONE"
  BY <1>1, <1>2 DEF Pending
<1>5. TypeOK'
  BY <1>1, <1>2 DEF ControlInv, TypeOK, Evaluation
<1>6. CallsAreSound' /\ RenewalsHoldTheirRow' /\ OneController' /\ SessionsFollowLeases'
  BY <1>1 DEF ControlInv, CallsAreSound, RenewalsHoldTheirRow, OneController, SessionsFollowLeases,
              ActiveRow, Open
<1>7. FencesFollowLeases'
  BY <1>1, <1>3, <1>4 DEF ControlInv, FencesFollowLeases
<1>8. BoundariesAreOrdered'
  <2>1. \A c \in Calls, m \in Leases :
           call'[c].step \in {"heartbeat", "return", "expire"} /\ lease'[call'[c].lease].status = "ACTIVE" =>
             fence'[m].freshAfter <= call'[c].begun
    BY <1>1, <1>4 DEF ControlInv, BoundariesAreOrdered, ActiveRow
  <2>. QED BY <1>1, <1>3, <1>4, <2>1 DEF ControlInv, BoundariesAreOrdered, ActiveRow
<1>9. NoReturnForgotten'
  <2>1. ASSUME NEW m \in Leases PROVE EvaluatedSince(m)'
    <3>1. /\ fence[m].freshAfter <= fence[l].freshAfter
          /\ fence[m].freshAfter \in Nat /\ fence[l].freshAfter \in Nat
      BY <1>1, Boundaries DEF ControlInv, BoundariesAreOrdered
    <3>2. fence'[l].diagnosed >= fence'[m].freshAfter /\ fence'[l].decided >= fence'[m].freshAfter
      BY <1>1, <1>2, <1>4, <3>1
    <3>. QED BY <1>2, <3>2 DEF EvaluatedSince
  <2>. QED BY <2>1 DEF NoReturnForgotten
<1>. QED BY <1>5, <1>6, <1>7, <1>8, <1>9 DEF ControlInv

LEMMA TickOK ==
    ASSUME ControlAssumption, ControlInv, Tick
    PROVE  ControlInv'
<1>1. /\ UNCHANGED <<session, lease, fence, Evaluation, call>> /\ now' = now + 1 /\ now' \in Nat
  BY Boundaries DEF Tick
<1>2. TypeOK'
  BY <1>1 DEF ControlInv, TypeOK, Evaluation
<1>3. \A c \in Calls : call[c].begun <= now'
  BY <1>1, Boundaries
<1>4. CallsAreSound'
  BY <1>1, <1>3 DEF ControlInv, CallsAreSound
<1>5. \A l \in Leases : fence[l].freshAfter <= now'
  BY <1>1, Boundaries
<1>6. BoundariesAreOrdered'
  BY <1>1, <1>5 DEF ControlInv, BoundariesAreOrdered, ActiveRow, Pending
<1>7. RenewalsHoldTheirRow'
  BY <1>1 DEF ControlInv, RenewalsHoldTheirRow, ActiveRow
<1>. QED BY <1>1, <1>2, <1>4, <1>6, <1>7, RowsStay DEF ControlInv

LEMMA StutterOK ==
    ASSUME ControlInv, UNCHANGED controlVars
    PROVE  ControlInv'
BY RowsStay DEF controlVars, ControlInv, TypeOK, CallsAreSound, RenewalsHoldTheirRow,
                BoundariesAreOrdered, ActiveRow, Pending

-----------------------------------------------------------------------------
(* Theorems.                                                               *)

LEMMA InitOK == ControlAssumption /\ Init => ControlInv
<1>. SUFFICES ASSUME ControlAssumption, Init PROVE ControlInv
  OBVIOUS
<1>1. TypeOK
  BY DEF Init, TypeOK, SessionStatuses, NoRow, LeaseRows, NoFence, FenceRows, FenceStates, Idle, CallRows
<1>2. /\ \A l \in Leases : lease[l].status = "NONE" /\ fence[l].state = "NONE" /\ fence[l].freshAfter = 0
      /\ \A s \in Sessions : session[s] = "NONE"
      /\ \A c \in Calls : call[c].step = "idle" /\ call[c].begun = 0
      /\ now = 1
  BY DEF Init, NoRow, NoFence, Idle
<1>3. CallsAreSound /\ RenewalsHoldTheirRow /\ OneController /\ SessionsFollowLeases /\ FencesFollowLeases
  BY <1>2 DEF CallsAreSound, RenewalsHoldTheirRow, OneController, SessionsFollowLeases,
              FencesFollowLeases, ActiveRow, Open,
              Pending, Ends
<1>4. BoundariesAreOrdered /\ NoReturnForgotten
  BY <1>2 DEF BoundariesAreOrdered, NoReturnForgotten, Pending, Ends
<1>. QED BY <1>1, <1>3, <1>4 DEF ControlInv

LEMMA NextOK ==
    ASSUME ControlAssumption, ControlInv, [Next]_controlVars
    PROVE  ControlInv'
<1>1. ASSUME NEW c \in Calls, CallStep(c) PROVE ControlInv'
  BY <1>1, AsksOK, GivesUpOK, CreateSessionOK, AcquireLeaseOK, FindLeaseLiveOK, RenewCommitOK, EndsOK
     DEF CallStep
<1>2. ASSUME NEW s \in Sessions, Authorize(s) PROVE ControlInv'
  BY <1>2, AuthorizeOK
<1>3. ASSUME NEW l \in Leases, Certify(l) PROVE ControlInv'
  BY <1>3, CertifyOK
<1>. QED BY <1>1, <1>2, <1>3, EvaluationOK, TickOK, StutterOK DEF Next

(* ControlInv holds in every reachable state, however calls interleave.    *)
THEOREM ControlInvariance == Spec => []ControlInv
<1>1. Init => ControlInv
  BY InitOK, ControlAssumption
<1>2. ControlInv /\ [Next]_controlVars => ControlInv'
  BY NextOK, ControlAssumption
<1>. QED BY <1>1, <1>2, PTL DEF Spec

(* The rows and the calls keep their types.                                *)
THEOREM ControlTypeCorrect == Spec => []TypeOK
<1>1. ControlInv => TypeOK
  BY DEF ControlInv
<1>. QED BY <1>1, ControlInvariance, PTL

(* There is one controller at a time.                                      *)
THEOREM ControllerIsOne == Spec => []OneController
<1>1. ControlInv => OneController
  BY DEF ControlInv
<1>. QED BY <1>1, ControlInvariance, PTL

(* Every return of control is evaluated afresh, or still waits for it.     *)
THEOREM ReturnsAreRemembered == Spec => []NoReturnForgotten
<1>1. ControlInv => NoReturnForgotten
  BY DEF ControlInv
<1>. QED BY <1>1, ControlInvariance, PTL

-----------------------------------------------------------------------------
(* Steps.                                                                  *)

(* Which steps change sessions, leases and fences, and how.                *)
LEMMA RowsChange ==
    ASSUME ControlAssumption, ControlInv, [Next]_controlVars
    PROVE  \/ UNCHANGED <<session, lease, fence>> /\ now' >= now
           \/ /\ UNCHANGED <<lease, fence>> /\ now' = now
              /\ \E s \in Sessions : /\ session[s] \in {"NONE", "REQUESTED"}
                                     /\ \A t \in Sessions \ {s} : session'[t] = session[t]
           \/ \E c \in Calls, l \in Leases : AcquireLease(c, l)
           \/ \E c \in Calls : Renew(c)
           \/ /\ now' = now
              /\ \E l \in Leases, end \in Ends, at \in Nat : ActiveRow(l) /\ End(l, end, at)
           \/ \E l \in Leases : Certify(l)
<1>. DEFINE Quiet == UNCHANGED <<session, lease, fence>> /\ now' >= now
            EndsOne == /\ now' = now
                       /\ \E l \in Leases, end \in Ends, at \in Nat : ActiveRow(l) /\ End(l, end, at)
            SessionMoves == /\ UNCHANGED <<lease, fence>> /\ now' = now
                            /\ \E s \in Sessions : /\ session[s] \in {"NONE", "REQUESTED"}
                                                   /\ \A t \in Sessions \ {s} : session'[t] = session[t]
<1>1. now \in Nat /\ session \in [Sessions -> SessionStatuses]
  BY DEF ControlInv, TypeOK
<1>2. ASSUME NEW c \in Calls,
             \/ AskControl(c) \/ AcquireRefused(c) \/ FindLeaseLive(c) \/ TooLate(c) \/ Crash(c)
             \/ \E s \in Sessions : AskLease(c, s)
             \/ \E l \in Leases : AskHeartbeat(c, l) \/ AskReturn(c, l) \/ AskExpire(c, l)
      PROVE  Quiet
  BY <1>1, <1>2
     DEF AskControl, AcquireRefused, FindLeaseLive, TooLate, Crash, AskLease, AskHeartbeat, AskReturn, AskExpire
<1>3. ASSUME NEW c \in Calls, NEW s \in Sessions, CreateSession(c, s) PROVE SessionMoves
  BY <1>1, <1>3 DEF CreateSession
<1>4. ASSUME NEW s \in Sessions, Authorize(s) PROVE SessionMoves
  BY <1>1, <1>4 DEF Authorize
<1>5. ASSUME NEW c \in Calls, FindLeaseOver(c) \/ Release(c) \/ ExpireControl(c) PROVE EndsOne
  <2>. DEFINE l == call[c].lease
  <2>1. PICK end \in Ends, at \in Times(c) : End(l, end, at)
    BY <1>5 DEF FindLeaseOver, Release, ExpireControl, Ends
  <2>2. l \in Leases /\ at \in Nat /\ ActiveRow(l) /\ now' = now
    BY <1>5, TimesAreLate DEF FindLeaseOver, Release, ExpireControl
  <2>. HIDE DEF l
  <2>. QED BY <2>1, <2>2
<1>6. ASSUME Diagnose \/ StartDecision \/ Decide \/ Tick \/ UNCHANGED controlVars PROVE Quiet
  BY <1>1, <1>6 DEF Diagnose, StartDecision, Decide, Tick, controlVars
<1>. HIDE DEF Quiet, EndsOne, SessionMoves
<1>7. \/ Quiet \/ SessionMoves \/ EndsOne
      \/ \E c \in Calls : Renew(c)
      \/ \E c \in Calls, l \in Leases : AcquireLease(c, l)
      \/ \E l \in Leases : Certify(l)
  <2>1. ASSUME NEW c \in Calls, CallStep(c)
        PROVE  \/ Quiet \/ SessionMoves \/ EndsOne
               \/ \E d \in Calls : Renew(d)
               \/ \E d \in Calls, l \in Leases : AcquireLease(d, l)
    BY <1>2, <1>3, <1>5, <2>1 DEF CallStep
  <2>2. CASE \E c \in Calls : CallStep(c)
    BY <2>1, <2>2
  <2>3. CASE \E s \in Sessions : Authorize(s)
    BY <1>4, <2>3
  <2>4. CASE Diagnose \/ StartDecision \/ Decide \/ Tick \/ UNCHANGED controlVars
    BY <1>6, <2>4
  <2>. QED BY <2>2, <2>3, <2>4 DEF Next
<1>. QED BY <1>7 DEF Quiet, EndsOne, SessionMoves

(* A lease that ran out is live again only by a heartbeat that began       *)
(* before it did, and ended rows stay as they are.                         *)
THEOREM RevivalIsInTime == Spec => NoLateRevival
<1>. DEFINE InTime == \A l \in Leases : Lapsed(l) /\ Live(l)' =>
                         \E c \in Calls : /\ call[c].step = "renew" /\ call[c].lease = l
                                          /\ call[c].begun < lease[l].expires
            Stays == /\ \A l \in Leases : lease[l].status \in Ends => lease'[l] = lease[l]
                     /\ \A s \in Sessions : session[s] \in Ends => session'[s] = session[s]
                     /\ \A l \in Leases :
                           fence[l].state \in {"SATISFIED", "SUPERSEDED"} => fence'[l] = fence[l]
<1>1. ASSUME ControlInv, [Next]_controlVars PROVE InTime /\ Stays
  <2>1. /\ now \in Nat /\ lease \in [Leases -> LeaseRows]
        /\ session \in [Sessions -> SessionStatuses] /\ fence \in [Leases -> FenceRows]
        /\ now' \in Nat
    BY <1>1, NextOK, ControlAssumption DEF ControlInv, TypeOK
  <2>2. \A l \in Leases : lease[l].expires \in Nat
    BY <2>1 DEF LeaseRows
  <2>3. ASSUME now' >= now, NEW l \in Leases, Lapsed(l), Live(l)'
        PROVE  lease'[l] # lease[l]
    BY <2>1, <2>2, <2>3 DEF Lapsed, Live
  <2>4. CASE UNCHANGED <<session, lease, fence>> /\ now' >= now
    BY <2>3, <2>4
  <2>5. CASE /\ UNCHANGED <<lease, fence>> /\ now' = now
             /\ \E s \in Sessions : /\ session[s] \in {"NONE", "REQUESTED"}
                                    /\ \A t \in Sessions \ {s} : session'[t] = session[t]
    BY <2>1, <2>3, <2>5 DEF Ends
  <2>6. ASSUME NEW c \in Calls, NEW l \in Leases, AcquireLease(c, l) PROVE InTime /\ Stays
    <3>1. /\ UNCHANGED <<now, fence>> /\ lease[l].status = "NONE"
          /\ \A m \in Leases \ {l} : lease'[m] = lease[m]
          /\ \A m \in Leases : ~ ActiveRow(m)
          /\ Open(call[c].session) /\ session' = [session EXCEPT ![call[c].session] = "ACTIVE"]
      BY <2>1, <2>6 DEF AcquireLease, Acquirable
    <3>2. \A s \in Sessions : session[s] \in Ends => session'[s] = session[s]
      BY <2>1, <3>1 DEF Open, Ends
    <3>. QED BY <3>1, <3>2 DEF Lapsed, Ends
  <2>7. ASSUME NEW c \in Calls, Renew(c) PROVE InTime /\ Stays
    <3>. DEFINE l == call[c].lease
    <3>1. /\ call[c].step = "renew" /\ l \in Leases /\ ActiveRow(l) /\ call[c].begun < lease[l].expires
          /\ lease' = [lease EXCEPT ![l].expires = call[c].begun + LeaseMs]
          /\ UNCHANGED <<now, session, fence>>
      BY <1>1, <2>7, RenewRow, ControlAssumption
    <3>. HIDE DEF l
    <3>2. \A m \in Leases \ {l} : lease'[m] = lease[m]
      BY <2>1, <3>1
    <3>3. InTime
      BY <2>1, <2>3, <3>1, <3>2 DEF l
    <3>. QED BY <3>1, <3>2, <3>3 DEF ActiveRow, Ends
  <2>8. ASSUME now' = now, NEW l \in Leases, NEW end \in Ends, NEW at \in Nat, ActiveRow(l),
               End(l, end, at)
        PROVE  InTime /\ Stays
    <3>1. /\ lease'[l].status = end /\ \A m \in Leases \ {l} : lease'[m] = lease[m]
          /\ session[lease[l].session] = "ACTIVE"
          /\ \A s \in Sessions \ {lease[l].session} : session'[s] = session[s]
          /\ fence[l].state = "NONE"
          /\ \A m \in Leases \ {l} : ~ Pending(m) => fence'[m] = fence[m]
      BY <1>1, <2>8, EndedRows
    <3>2. lease[l].status \notin Ends /\ ~ Live(l)'
      BY <2>8, <3>1 DEF ActiveRow, Live, Ends
    <3>3. InTime
      BY <2>1, <2>3, <2>8, <3>1, <3>2
    <3>4. \A s \in Sessions : session[s] \in Ends => session'[s] = session[s]
      BY <3>1 DEF Ends
    <3>5. \A m \in Leases : fence[m].state \in {"SATISFIED", "SUPERSEDED"} => fence'[m] = fence[m]
      BY <3>1 DEF Pending
    <3>. QED BY <3>1, <3>2, <3>3, <3>4, <3>5
  <2>9. ASSUME NEW l \in Leases, Certify(l) PROVE InTime /\ Stays
    <3>1. /\ UNCHANGED <<now, session, lease>> /\ Pending(l)
          /\ \A m \in Leases \ {l} : fence'[m] = fence[m]
      BY <2>1, <2>9 DEF Certify
    <3>2. InTime
      BY <2>1, <2>3, <3>1
    <3>. QED BY <3>1, <3>2 DEF Pending
  <2>. HIDE DEF InTime, Stays
  <2>. QED BY <1>1, <2>4, <2>5, <2>6, <2>7, <2>8, <2>9, RowsChange, ControlAssumption
<1>. DEFINE Kept == /\ \A l \in Leases : Lapsed(l) /\ Live(l)' =>
                          \E c \in Calls : /\ call[c].step = "renew" /\ call[c].lease = l
                                           /\ call[c].begun < lease[l].expires
                    /\ \A l \in Leases : lease[l].status \in Ends => lease'[l] = lease[l]
                    /\ \A s \in Sessions : session[s] \in Ends => session'[s] = session[s]
                    /\ \A l \in Leases :
                          fence[l].state \in {"SATISFIED", "SUPERSEDED"} => fence'[l] = fence[l]
<1>2. ControlInv /\ [Next]_controlVars => [Kept]_controlVars
  BY <1>1
<1>. HIDE DEF Kept
<1>3. Spec => [][Kept]_controlVars
  BY <1>2, ControlInvariance, PTL DEF Spec
<1>. QED BY <1>3 DEF Kept, NoLateRevival

(* A return is never followed by the agent alone: every step of the code's *)
(* is one of the hand-over's, or none.                                     *)
THEOREM ControlIsHandedOver == Spec => ImplementsHandover
<1>1. Init => Handover!Init
  <2>1. Init => ~ (\E l \in Leases : ActiveRow(l)) /\ ~ (\E l \in Leases : Pending(l))
    BY DEF Init, NoRow, NoFence, ActiveRow, Pending
  <2>. QED BY <2>1 DEF Handover!Init, Control, EvaluationOwed, Live, ActiveRow
<1>2. ASSUME ControlInv, [Next]_controlVars PROVE [Handover!Next]_(Handover!vars)
  <2>. DEFINE Taken == \E l \in Leases : ActiveRow(l)
  <2>1. /\ lease \in [Leases -> LeaseRows] /\ fence \in [Leases -> FenceRows]
    BY <1>2 DEF ControlInv, TypeOK
  <2>2. /\ Control \in {"human", "lapsed", "none"}
        /\ Control # "none" <=> Taken
        /\ EvaluationOwed \in BOOLEAN
    BY DEF Control, EvaluationOwed, Live, ActiveRow
  <2>3. /\ Control' \in {"human", "lapsed", "none"}
        /\ Control' # "none" <=> Taken'
        /\ EvaluationOwed' \in BOOLEAN
    BY DEF Control, EvaluationOwed, Live, ActiveRow
  <2>4. ASSUME \A l \in Leases : (ActiveRow(l)' <=> ActiveRow(l)) /\ (Pending(l)' <=> Pending(l))
        PROVE  [Handover!Next]_(Handover!vars)
    <3>1. (Taken' <=> Taken) /\ EvaluationOwed' = EvaluationOwed
      BY <2>4 DEF EvaluationOwed
    <3>2. \/ Control' = Control
          \/ Control = "human" /\ Control' = "lapsed"
          \/ Control = "lapsed" /\ Control' = "human"
      BY <2>2, <2>3, <3>1
    <3>. QED BY <3>1, <3>2 DEF Handover!Next, Handover!Lapse, Handover!Renew, Handover!vars
  <2>5. CASE UNCHANGED <<lease, fence>>
    BY <2>4, <2>5 DEF ActiveRow, Pending
  <2>6. ASSUME NEW c \in Calls, NEW l \in Leases, AcquireLease(c, l) PROVE Handover!Next
    <3>1. ~ Taken /\ UNCHANGED fence
      BY <2>6 DEF AcquireLease, Acquirable
    <3>2. Taken'
      BY <2>1, <2>6 DEF AcquireLease, ActiveRow
    <3>3. EvaluationOwed' = EvaluationOwed
      BY <3>1 DEF EvaluationOwed, Pending
    <3>. QED BY <2>2, <2>3, <3>1, <3>2, <3>3 DEF Handover!Next, Handover!Take
  <2>7. ASSUME NEW c \in Calls, Renew(c) PROVE [Handover!Next]_(Handover!vars)
    <3>1. \A m \in Leases : lease'[m].status = lease[m].status /\ fence' = fence
      BY <2>1, <2>7 DEF Renew, LeaseRows
    <3>. QED BY <2>4, <3>1 DEF ActiveRow, Pending
  <2>8. ASSUME NEW l \in Leases, NEW end \in Ends, NEW at \in Nat, ActiveRow(l), End(l, end, at)
        PROVE  Handover!Next
    <3>1. /\ lease'[l].status = end /\ Pending(l)'
          /\ \A m \in Leases \ {l} : lease'[m] = lease[m] /\ lease[m].status # "ACTIVE"
      BY <1>2, <2>8, EndedRows
    <3>2. Taken /\ ~ Taken'
      BY <2>8, <3>1 DEF ActiveRow, Ends
    <3>3. EvaluationOwed' = TRUE
      BY <2>3, <3>1 DEF EvaluationOwed
    <3>. QED BY <2>2, <2>3, <3>2, <3>3 DEF Handover!Next, Handover!Return
  <2>9. ASSUME NEW l \in Leases, Certify(l) PROVE Handover!Next
    <3>1. /\ Pending(l) /\ (\A m \in Leases : ~ Pending(m)')
          /\ lease' = lease /\ now' = now
      BY <1>2, <2>1, <2>9 DEF Certify, ControlInv, FencesFollowLeases, Pending
    <3>2. Control' = Control
      BY <3>1 DEF Control, Live, ActiveRow
    <3>3. EvaluationOwed /\ EvaluationOwed' = FALSE
      BY <3>1 DEF EvaluationOwed
    <3>. QED BY <3>2, <3>3 DEF Handover!Next, Handover!Evaluated
  <2>. QED BY <1>2, <2>5, <2>6, <2>7, <2>8, <2>9, RowsChange, ControlAssumption
<1>. QED BY <1>1, <1>2, ControlInvariance, PTL DEF Spec, ImplementsHandover, Handover!Spec

-----------------------------------------------------------------------------
(* Control is claimed under the fence.                                     *)

Active == {l \in Leases : ActiveRow(l)}

RunOut == \E l \in Active : lease[l].expires <= now

(* The claim is control of the incident; the rows that may hold it are its *)
(* control leases.                                                         *)
ControlFence == INSTANCE FencedClaimProofs WITH
    Holders <- Leases,
    phase   <- IF Active = {} THEN "open" ELSE "claimed",
    holders <- Active,
    lapsed  <- RunOut

OneActive == Active \in {{}} \cup {{l} : l \in Leases}

LEMMA ActiveIsOne == ControlInv => OneActive
<1>. SUFFICES ASSUME ControlInv PROVE Active \in {{}} \cup {{l} : l \in Leases}
  BY DEF OneActive
<1>1. CASE Active = {}
  BY <1>1
<1>2. CASE Active # {}
  <2>1. PICK l \in Active : TRUE
    BY <1>2
  <2>2. \A m \in Active : m = l
    BY <2>1 DEF Active, ControlInv, OneController
  <2>. QED BY <2>1, <2>2 DEF Active
<1>. QED BY <1>1, <1>2

LEMMA ControlStepIsFenced ==
    ASSUME ControlAssumption, ControlInv, ControlInv', OneActive', [Next]_controlVars
    PROVE  [ControlFence!Next]_(ControlFence!vars)
<1>1. lease \in [Leases -> LeaseRows] /\ now \in Nat /\ now' \in Nat
  BY DEF ControlInv, TypeOK
<1>2. /\ Active' \in {{}} \cup {{l} : l \in Leases}
      /\ RunOut \in BOOLEAN /\ RunOut' \in BOOLEAN
      /\ RunOut => Active # {}
  BY DEF OneActive, RunOut
<1>3. CASE lease' = lease
  <2>1. Active' = Active
    BY <1>3 DEF Active, ActiveRow
  <2>2. RunOut' => Active # {}
    BY <2>1 DEF RunOut
  <2>. QED
    BY <1>2, <2>1, <2>2 DEF ControlFence!Next, ControlFence!LeaseMoves, ControlFence!vars
<1>4. ASSUME NEW c \in Calls, NEW l \in Leases, AcquireLease(c, l) PROVE ControlFence!Next
  <2>1. Active = {}
    BY <1>4 DEF AcquireLease, Acquirable, Active
  <2>2. l \in Active'
    BY <1>1, <1>4 DEF AcquireLease, Active, ActiveRow
  <2>. QED
    BY <1>2, <2>1, <2>2 DEF ControlFence!Next, ControlFence!Claim, ControlFence!AtMostOne
<1>5. ASSUME NEW c \in Calls, Renew(c)
      PROVE  [ControlFence!Next]_(ControlFence!vars)
  <2>1. \A m \in Leases : lease'[m].status = lease[m].status
    BY <1>1, <1>5 DEF Renew, LeaseRows
  <2>2. Active' = Active /\ Active # {}
    BY <1>5, <2>1, RenewRow DEF Active, ActiveRow
  <2>. QED BY <1>2, <2>2 DEF ControlFence!Next, ControlFence!LeaseMoves, ControlFence!vars
<1>6. ASSUME NEW l \in Leases, NEW end \in Ends, NEW at \in Nat, ActiveRow(l), End(l, end, at)
      PROVE  ControlFence!Next
  <2>1. /\ lease'[l].status = end
        /\ \A m \in Leases \ {l} : lease'[m] = lease[m] /\ lease[m].status # "ACTIVE"
    BY <1>6, EndedRows
  <2>2. Active' = {} /\ ~ RunOut' /\ Active # {}
    BY <1>6, <2>1 DEF Active, ActiveRow, Ends, RunOut
  <2>. QED BY <1>2, <2>2 DEF ControlFence!Next, ControlFence!Settle
<1>7. ASSUME NEW l \in Leases, Certify(l) PROVE lease' = lease
  BY <1>7 DEF Certify
<1>. QED BY <1>3, <1>4, <1>5, <1>6, <1>7, RowsChange

(* Control of an incident is claimed like any other work of AIRA: every    *)
(* step is one of the fenced claim's. So one lease at most is in force,    *)
(* and while its time runs no other one takes its place, however old the   *)
(* NOW() of the transactions around it. (acquireControlLease, heartbeat)   *)
THEOREM ControlIsFenced ==
    Spec => ControlFence!Spec /\ []ControlFence!Exclusive /\ ControlFence!HeldIsKept
<1>1. Init => ControlFence!Init
  <2>1. Init => Active = {}
    BY DEF Init, NoRow, Active, ActiveRow
  <2>. QED BY <2>1 DEF ControlFence!Init, RunOut
<1>2. ControlInv /\ ControlInv' /\ OneActive' /\ [Next]_controlVars
        => [ControlFence!Next]_(ControlFence!vars)
  BY ControlStepIsFenced, ControlAssumption
<1>3. Spec => ControlFence!Spec
  BY <1>1, <1>2, ActiveIsOne, ControlInvariance, PTL DEF Spec, ControlFence!Spec
<1>. QED BY <1>3, ControlFence!Exclusion, ControlFence!Kept, PTL

=============================================================================
