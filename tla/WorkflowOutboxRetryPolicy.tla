---------------------- MODULE WorkflowOutboxRetryPolicy ----------------------
(***************************************************************************)
(* The transport retry policy of the workflow outbox: which publication    *)
(* failures are worth another attempt, and how long to wait for it.        *)
(*                                                                         *)
(* Translated from services/workflowOutbox/workflowOutboxRetryPolicy.js.   *)
(* An error is abstracted to the two fields the policy looks at: the       *)
(* "retryable" flag (which may be unset) and the class of its code.        *)
(***************************************************************************)
EXTENDS Integers

CONSTANTS
    BaseDelay,      \* baseDelayMs
    DelayCap,       \* maxDelayMs, applied before the jitter
    JitterPercent   \* jitterRatio, in percent

ASSUME RetryPolicyAssumption ==
    /\ BaseDelay \in Nat \ {0}
    /\ DelayCap \in Nat \ {0}
    /\ JitterPercent \in 0 .. 100

Flags == {"true", "false", "unset"}
Codes == {"permanent", "transient", "unknown"}
Errors == [flag : Flags, code : Codes]

(* An explicit "false" wins, then a code known to be permanent, then an    *)
(* explicit "true", then a code known to be transient; anything else is    *)
(* not retried.                                                            *)
IsRetryable(error) ==
    /\ error.flag # "false"
    /\ error.code # "permanent"
    /\ error.flag = "true" \/ error.code = "transient"

(* calculateBaseDelay: doubling from BaseDelay, capped.                    *)
CappedDelay(attempt) ==
    LET exponent == IF attempt > 1 THEN attempt - 1 ELSE 0
        delay    == BaseDelay * 2^exponent
    IN  IF delay < DelayCap THEN delay ELSE DelayCap

(* Math.round of a percentage of d.                                        *)
Percent(d, percent) == (d * percent * 2 + 100) \div 200

(* applyJitter: whatever random() answers, the delay stays within          *)
(* JitterPercent of the capped one -- above the cap, too.                  *)
Delays(attempt) ==
    LET d == CappedDelay(attempt)
    IN  {x \in Nat : /\ x >= Percent(d, 100 - JitterPercent)
                     /\ x <= Percent(d, 100 + JitterPercent)}

(* evaluate: what is done with an event whose attempt-th attempt failed.   *)
Verdict(error, attempt, maxAttempts) ==
    IF IsRetryable(error) /\ attempt < maxAttempts THEN "retry" ELSE "deadLetter"
=============================================================================
