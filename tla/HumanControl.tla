---------------------------- MODULE HumanControl ----------------------------
(***************************************************************************)
(* Human takeover of one incident: sessions are requested and authorized,  *)
(* a session's control lease is acquired, renewed by heartbeats, and       *)
(* released or expired, and every end of a lease leaves a return fence     *)
(* that a fresh diagnosis and a fresh recovery decision satisfy.           *)
(*                                                                         *)
(* Every index, lease and fence of the code is per incident. A repository  *)
(* call is one PostgreSQL transaction and one action at its commit; what a *)
(* service reads before it is an action of its own. A heartbeat takes two: *)
(* the clock may pass the expiry between the check, made with the row      *)
(* locked, and the commit of the renewal, and readers do not wait for row  *)
(* locks. Within a transaction NOW() is the time it began, which row locks *)
(* may leave in the past by the time its statements run, so a call         *)
(* remembers when it came this far. Identities of operators are left out:  *)
(* they only refuse calls, and a release may be forced by anyone.          *)
(***************************************************************************)
EXTENDS Naturals, FiniteSets

CONSTANTS
    Sessions,      \* takeover sessions
    Leases,        \* control leases
    Calls,         \* calls in progress at once
    NoSession,     \* null, as the session of a lease or a call
    NoLease,       \* null, as the lease of a call
    LeaseMs,       \* length of a control lease
    MaxNow,        \* bound on the clock
    MaxDiagnoses   \* bound on the diagnoses made

ASSUME ControlAssumption ==
    /\ NoSession \notin Sessions
    /\ NoLease \notin Leases
    /\ LeaseMs \in Nat \ {0}
    /\ MaxNow \in Nat
    /\ MaxDiagnoses \in Nat

VARIABLES
    now,        \* the clock of the database and of every process
    session,    \* status of every takeover session
    lease,      \* the control leases
    fence,      \* the return fence of each lease
    diagnosis,  \* the current diagnosis
    decision,   \* the current recovery decision
    deciding,   \* the diagnosis a decision run has read
    call        \* what each call in progress is about to do

controlVars == <<now, session, lease, fence, diagnosis, decision, deciding, call>>

-----------------------------------------------------------------------------
(* Rows.                                                                   *)

SessionStatuses == {"NONE", "REQUESTED", "AUTHORIZED", "ACTIVE", "RELEASED", "EXPIRED"}
FenceStates == {"NONE", "REQUIRES_FRESH_EVALUATION", "SATISFIED", "SUPERSEDED"}
Ends == {"RELEASED", "EXPIRED"}

NoRow == [status |-> "NONE", session |-> NoSession, expires |-> 0]
NoFence == [state |-> "NONE", freshAfter |-> 0, diagnosed |-> 0, decided |-> 0]
Idle == [step |-> "idle", session |-> NoSession, lease |-> NoLease, begun |-> 0]

ActiveRow(l) == lease[l].status = "ACTIVE"

(* getActiveLeaseForIncident, which both fences' readers ask.              *)
Live(l) == lease[l].status = "ACTIVE" /\ lease[l].expires > now

(* The partial unique index on sessions.                                   *)
Open(s) == session[s] \in {"AUTHORIZED", "ACTIVE"}

Pending(l) == fence[l].state = "REQUIRES_FRESH_EVALUATION"

Init ==
    /\ now = 1
    /\ session = [s \in Sessions |-> "NONE"]
    /\ lease = [l \in Leases |-> NoRow]
    /\ fence = [l \in Leases |-> NoFence]
    /\ diagnosis = [number |-> 0, made |-> 0]
    /\ decision = [basis |-> 0, made |-> 0]
    /\ deciding = 0
    /\ call = [c \in Calls |-> Idle]

Evaluation == <<diagnosis, decision, deciding>>

Step(c, step, s, l) ==
    call' = [call EXCEPT ![c] = [step |-> step, session |-> s, lease |-> l, begun |-> now]]

Done(c) == call' = [call EXCEPT ![c] = Idle]

(* The NOW() of the transaction a call runs.                               *)
Times(c) == call[c].begun .. now

(* A heartbeat has found the lease live and holds its row until it commits.*)
Locked(l) == \E c \in Calls : call[c].step = "renew" /\ call[c].lease = l

-----------------------------------------------------------------------------
(* Requesting, authorizing and acquiring.                                  *)

(* requestControl finds no live lease.                                     *)
AskControl(c) ==
    /\ call[c].step = "idle"
    /\ ~ \E l \in Leases : Live(l)
    /\ Step(c, "request", NoSession, NoLease)
    /\ UNCHANGED <<now, session, lease, fence, Evaluation>>

CreateSession(c, s) ==
    /\ call[c].step = "request"
    /\ session[s] = "NONE"
    /\ session' = [session EXCEPT ![s] = "REQUESTED"]
    /\ Done(c)
    /\ UNCHANGED <<now, lease, fence, Evaluation>>

(* Mutant: without the unique index any requested session is authorized.   *)
AuthorizeAny(s) ==
    /\ session[s] = "REQUESTED"
    /\ session' = [session EXCEPT ![s] = "AUTHORIZED"]
    /\ UNCHANGED <<now, lease, fence, Evaluation, call>>

Authorize(s) ==
    /\ session[s] = "REQUESTED"
    /\ ~ \E t \in Sessions : Open(t)
    /\ session' = [session EXCEPT ![s] = "AUTHORIZED"]
    /\ UNCHANGED <<now, lease, fence, Evaluation, call>>

(* acquireControl and takeControl have read the session.                   *)
AskLease(c, s) ==
    /\ call[c].step = "idle"
    /\ session[s] = "AUTHORIZED"
    /\ Step(c, "acquire", s, NoLease)
    /\ UNCHANGED <<now, session, lease, fence, Evaluation>>

(* acquireControlLease: the session's row is locked, its status and the    *)
(* incident's leases are read again.                                       *)
Acquirable(c) == Open(call[c].session) /\ ~ \E l \in Leases : ActiveRow(l)

AcquireLease(c, l) ==
    /\ call[c].step = "acquire"
    /\ Acquirable(c)
    /\ lease[l].status = "NONE"
    /\ \E at \in Times(c) :
         lease' = [lease EXCEPT ![l] = [status |-> "ACTIVE", session |-> call[c].session,
                                        expires |-> at + LeaseMs]]
    /\ session' = [session EXCEPT ![call[c].session] = "ACTIVE"]
    /\ Done(c)
    /\ UNCHANGED <<now, fence, Evaluation>>

AcquireRefused(c) ==
    /\ call[c].step = "acquire"
    /\ ~ Acquirable(c)
    /\ Done(c)
    /\ UNCHANGED <<now, session, lease, fence, Evaluation>>

-----------------------------------------------------------------------------
(* The end of a lease. The trigger on control_leases makes its fence in    *)
(* the same transaction, and supersedes the one still pending.             *)

(* Mutant: the trigger fires for a release only.                           *)
FencedIfReleased(l, end, at) ==
    IF end # "RELEASED" THEN fence
    ELSE [m \in Leases |->
           IF m = l THEN [NoFence EXCEPT !.state = "REQUIRES_FRESH_EVALUATION", !.freshAfter = at]
           ELSE IF Pending(m) THEN [fence[m] EXCEPT !.state = "SUPERSEDED"] ELSE fence[m]]

(* Mutant: the trigger takes an older fence for good enough.               *)
FencedUnlessPending(l, end, at) ==
    [m \in Leases |->
       IF m = l THEN [NoFence EXCEPT !.freshAfter = at,
                        !.state = IF \E o \in Leases : Pending(o) THEN "SUPERSEDED"
                                  ELSE "REQUIRES_FRESH_EVALUATION"]
       ELSE fence[m]]

Fenced(l, end, at) ==
    [m \in Leases |->
       IF m = l THEN [NoFence EXCEPT !.state = "REQUIRES_FRESH_EVALUATION", !.freshAfter = at]
       ELSE IF Pending(m) THEN [fence[m] EXCEPT !.state = "SUPERSEDED"] ELSE fence[m]]

(* Mutant: the release leaves the session RELEASING.                       *)
EndReleasing(l, end, at) ==
    /\ lease' = [lease EXCEPT ![l].status = end]
    /\ session' = [session EXCEPT ![lease[l].session] = IF end = "RELEASED" THEN "RELEASING" ELSE end]
    /\ fence' = Fenced(l, end, at)

End(l, end, at) ==
    /\ lease' = [lease EXCEPT ![l].status = end]
    /\ session' = [session EXCEPT ![lease[l].session] = end]
    /\ fence' = Fenced(l, end, at)

(* A client knows the lease it renews.                                     *)
AskHeartbeat(c, l) ==
    /\ call[c].step = "idle"
    /\ lease[l].status # "NONE"
    /\ Step(c, "heartbeat", NoSession, l)
    /\ UNCHANGED <<now, session, lease, fence, Evaluation>>

(* Mutant: heartbeatLease does not look at the expiry.                     *)
FindLeaseActive(c) ==
    LET l == call[c].lease IN
    /\ call[c].step = "heartbeat"
    /\ ActiveRow(l) /\ ~ Locked(l)
    /\ \E at \in Times(c) : call' = [call EXCEPT ![c].step = "renew", ![c].begun = at]
    /\ UNCHANGED <<now, session, lease, fence, Evaluation>>

(* heartbeatLease locks the row and compares its expiry with Date.now().   *)
FindLeaseLive(c) ==
    LET l == call[c].lease IN
    /\ call[c].step = "heartbeat"
    /\ ActiveRow(l) /\ ~ Locked(l)
    /\ lease[l].expires > now
    /\ \E at \in Times(c) : call' = [call EXCEPT ![c].step = "renew", ![c].begun = at]
    /\ UNCHANGED <<now, session, lease, fence, Evaluation>>

(* The renewal commits, and counts from the NOW() of its transaction.      *)
Renew(c) ==
    /\ call[c].step = "renew"
    /\ lease' = [lease EXCEPT ![call[c].lease].expires = call[c].begun + LeaseMs]
    /\ Done(c)
    /\ UNCHANGED <<now, session, fence, Evaluation>>

(* An expired lease is ended for good, and the caller is told so after the *)
(* commit.                                                                 *)
FindLeaseOver(c) ==
    LET l == call[c].lease IN
    /\ call[c].step = "heartbeat"
    /\ ActiveRow(l) /\ ~ Locked(l)
    /\ lease[l].expires <= now
    /\ \E at \in Times(c) : End(l, "EXPIRED", at)
    /\ Done(c)
    /\ UNCHANGED <<now, Evaluation>>

(* returnControl has found the lease live.                                 *)
AskReturn(c, l) ==
    /\ call[c].step = "idle"
    /\ Live(l)
    /\ Step(c, "return", NoSession, l)
    /\ UNCHANGED <<now, session, lease, fence, Evaluation>>

(* releaseControlLease does not look at the expiry.                        *)
Release(c) ==
    LET l == call[c].lease IN
    /\ call[c].step = "return"
    /\ ActiveRow(l) /\ ~ Locked(l)
    /\ \E at \in Times(c) : End(l, "RELEASED", at)
    /\ Done(c)
    /\ UNCHANGED <<now, Evaluation>>

(* expireControl asks for the end of a lease by its name.                  *)
AskExpire(c, l) ==
    /\ call[c].step = "idle"
    /\ lease[l].status # "NONE"
    /\ Step(c, "expire", NoSession, l)
    /\ UNCHANGED <<now, session, lease, fence, Evaluation>>

(* expireControlLease ends an active lease, run out or not.                *)
ExpireControl(c) ==
    LET l == call[c].lease IN
    /\ call[c].step = "expire"
    /\ ActiveRow(l) /\ ~ Locked(l)
    /\ \E at \in Times(c) : End(l, "EXPIRED", at)
    /\ Done(c)
    /\ UNCHANGED <<now, Evaluation>>

(* A lease that is no longer active: refused, or answered as before.       *)
TooLate(c) ==
    /\ call[c].step \in {"heartbeat", "return", "expire"}
    /\ ~ ActiveRow(call[c].lease)
    /\ Done(c)
    /\ UNCHANGED <<now, session, lease, fence, Evaluation>>

-----------------------------------------------------------------------------
(* The fresh evaluation.                                                   *)

Diagnose ==
    /\ diagnosis.number < MaxDiagnoses
    /\ diagnosis' = [number |-> diagnosis.number + 1, made |-> now]
    /\ UNCHANGED <<now, session, lease, fence, decision, deciding, call>>

(* A decision run reads the current diagnosis and saves its decision       *)
(* later, and perhaps another one on the same diagnosis.                   *)
StartDecision ==
    /\ diagnosis.number # deciding
    /\ deciding' = diagnosis.number
    /\ UNCHANGED <<now, session, lease, fence, diagnosis, decision, call>>

Decide ==
    /\ deciding # 0
    /\ decision' = [basis |-> deciding, made |-> now]
    /\ UNCHANGED <<now, session, lease, fence, diagnosis, deciding, call>>

(* Mutant: the decision's basis is not compared with the diagnosis.        *)
FreshDecision(boundary) == decision.made >= boundary

Fresh(boundary) ==
    /\ diagnosis.number > 0
    /\ diagnosis.made >= boundary
    /\ decision.basis = diagnosis.number
    /\ decision.made >= boundary

(* certifyFreshEvaluation, which locks the pending fence.                  *)
Certify(l) ==
    /\ Pending(l)
    /\ Fresh(fence[l].freshAfter)
    /\ fence' = [fence EXCEPT ![l].state = "SATISFIED", ![l].diagnosed = diagnosis.made,
                              ![l].decided = decision.made]
    /\ UNCHANGED <<now, session, lease, Evaluation, call>>

-----------------------------------------------------------------------------
(* A process dies between two transactions of a call, or in one, which     *)
(* rolls it back.                                                          *)
Crash(c) ==
    /\ call[c].step # "idle"
    /\ Done(c)
    /\ UNCHANGED <<now, session, lease, fence, Evaluation>>

Tick ==
    /\ now < MaxNow
    /\ now' = now + 1
    /\ UNCHANGED <<session, lease, fence, Evaluation, call>>

CallStep(c) ==
    \/ AskControl(c)
    \/ \E s \in Sessions : CreateSession(c, s) \/ AskLease(c, s)
    \/ \E l \in Leases : AcquireLease(c, l) \/ AskHeartbeat(c, l) \/ AskReturn(c, l) \/ AskExpire(c, l)
    \/ AcquireRefused(c)
    \/ FindLeaseLive(c) \/ Renew(c) \/ FindLeaseOver(c)
    \/ Release(c)
    \/ ExpireControl(c)
    \/ TooLate(c)
    \/ Crash(c)

Next ==
    \/ \E c \in Calls : CallStep(c)
    \/ \E s \in Sessions : Authorize(s)
    \/ \E l \in Leases : Certify(l)
    \/ Diagnose \/ StartDecision \/ Decide
    \/ Tick

Spec == Init /\ [][Next]_controlVars

-----------------------------------------------------------------------------
(* The invariant, by parts.                                                *)

LeaseRows == [status : {"NONE", "ACTIVE"} \cup Ends, session : Sessions \cup {NoSession}, expires : Nat]
FenceRows == [state : FenceStates, freshAfter : Nat, diagnosed : Nat, decided : Nat]
CallRows == [step : {"idle", "request", "acquire", "heartbeat", "renew", "return", "expire"},
             session : Sessions \cup {NoSession}, lease : Leases \cup {NoLease}, begun : Nat]

(* Every variable has its type.                                            *)
TypeOK ==
    /\ now \in Nat
    /\ session \in [Sessions -> SessionStatuses]
    /\ lease \in [Leases -> LeaseRows]
    /\ fence \in [Leases -> FenceRows]
    /\ diagnosis \in [number : Nat, made : Nat]
    /\ decision \in [basis : Nat, made : Nat]
    /\ deciding \in Nat
    /\ call \in [Calls -> CallRows]

CallsAreSound ==
    \A c \in Calls :
       /\ call[c].begun <= now
       /\ call[c].step = "acquire" => call[c].session \in Sessions /\ session[call[c].session] # "NONE"
       /\ call[c].step \in {"heartbeat", "renew", "return", "expire"} =>
            call[c].lease \in Leases /\ lease[call[c].lease].status # "NONE"

(* A row that is locked stays active, and is locked for one heartbeat,     *)
(* which began before the lease ran out.                                   *)
RenewalsHoldTheirRow ==
    /\ \A c \in Calls : call[c].step = "renew" =>
          ActiveRow(call[c].lease) /\ call[c].begun < lease[call[c].lease].expires
    /\ \A c, d \in Calls :
          call[c].step = "renew" /\ call[d].step = "renew" /\ call[c].lease = call[d].lease => c = d

(* Only one operator controls the incident: at most one lease is active,   *)
(* and at most one session is on its way to one (acquireControlLease and   *)
(* authorizeSession).                                                      *)
OneController ==
    /\ \A l, m \in Leases : ActiveRow(l) /\ ActiveRow(m) => l = m
    /\ \A s, t \in Sessions : Open(s) /\ Open(t) => s = t

(* A session is active exactly while its lease is, ends as its lease ends, *)
(* and has one lease in its life, although releases, expiries and          *)
(* heartbeats race (releaseControlLease, heartbeatLease).                  *)
SessionsFollowLeases ==
    /\ \A l \in Leases : lease[l].status # "NONE" =>
          lease[l].session \in Sessions /\ session[lease[l].session] = lease[l].status
    /\ \A l, m \in Leases :
          lease[l].status # "NONE" /\ lease[m].status # "NONE" /\ lease[l].session = lease[m].session => l = m
    /\ \A s \in Sessions : session[s] \in {"ACTIVE"} \cup Ends =>
          \E l \in Leases : lease[l].status # "NONE" /\ lease[l].session = s

(* Every end of a lease has its fence, and one fence at most is pending.   *)
FencesFollowLeases ==
    /\ \A l \in Leases : fence[l].state # "NONE" <=> lease[l].status \in Ends
    /\ \A l, m \in Leases : Pending(l) /\ Pending(m) => l = m

(* Return boundaries lie in the past, and whoever is about to end the      *)
(* active lease has begun after all of them; the pending one is the last.  *)
BoundariesAreOrdered ==
    /\ \A l \in Leases : fence[l].freshAfter <= now
    /\ \A c \in Calls, l \in Leases :
          call[c].step \in {"heartbeat", "return", "expire"} /\ ActiveRow(call[c].lease) =>
             fence[l].freshAfter <= call[c].begun
    /\ \A l, m \in Leases : Pending(l) => fence[m].freshAfter <= fence[l].freshAfter

(* No end of a lease is forgotten: a fence is pending until an evaluation  *)
(* made no earlier than the NOW() of the transaction that ended the lease  *)
(* has been certified, however many operators take and return control in   *)
(* between (the trigger of migration 0093 and certifyFreshEvaluation).     *)
EvaluatedSince(l) ==
    \E m \in Leases :
       /\ fence[m].state = "SATISFIED"
       /\ fence[m].diagnosed >= fence[l].freshAfter
       /\ fence[m].decided >= fence[l].freshAfter

NoReturnForgotten ==
    \A l \in Leases :
       lease[l].status \in Ends => EvaluatedSince(l) \/ \E m \in Leases : Pending(m)

ControlInv ==
    /\ TypeOK
    /\ CallsAreSound
    /\ RenewalsHoldTheirRow
    /\ OneController
    /\ SessionsFollowLeases
    /\ FencesFollowLeases
    /\ BoundariesAreOrdered
    /\ NoReturnForgotten

-----------------------------------------------------------------------------
(* Properties.                                                             *)

Lapsed(l) == ActiveRow(l) /\ lease[l].expires <= now

Over(l) == lease[l].status \in Ends \/ Lapsed(l)

(* A lease that ran out, which readers take for over, comes back only as a *)
(* heartbeat commits that began before it ran out; no later one revives    *)
(* it, whichever renewals, releases and expiries are under way. A lease or *)
(* a session that was ended never comes back, and fences that are no       *)
(* longer pending stay as they are (heartbeatLease).                       *)
NoLateRevival ==
    [][/\ \A l \in Leases : Lapsed(l) /\ Live(l)' =>
             \E c \in Calls : /\ call[c].step = "renew" /\ call[c].lease = l
                              /\ call[c].begun < lease[l].expires
       /\ \A l \in Leases : lease[l].status \in Ends => lease'[l] = lease[l]
       /\ \A s \in Sessions : session[s] \in Ends => session'[s] = session[s]
       /\ \A l \in Leases : fence[l].state \in {"SATISFIED", "SUPERSEDED"} => fence'[l] = fence[l]]_controlVars

(* Who controls the incident, as readers see it. While a lapsed lease has  *)
(* not been ended, no reader sees a human in control, and no fence that    *)
(* its end would leave.                                                    *)
Control ==
    IF \E l \in Leases : Live(l) THEN "human"
    ELSE IF \E l \in Leases : ActiveRow(l) THEN "lapsed"
    ELSE "none"

EvaluationOwed == \E l \in Leases : Pending(l)

(* Every end of a lease leaves an evaluation owed, which neither taking    *)
(* control again nor time pays, and only a certification does; a lease     *)
(* that ran out is still ended, or renewed, before anyone else takes       *)
(* control (ControlHandover).                                              *)
Handover == INSTANCE ControlHandover WITH control <- Control, owed <- EvaluationOwed
ImplementsHandover == Handover!Spec

=============================================================================
