--------------------------- MODULE ControlHandover ---------------------------
(***************************************************************************)
(* What human control leaves behind: whenever it is returned, an           *)
(* evaluation is owed, and stays owed however often control is taken       *)
(* again, until one is certified. The agent is let through while no human  *)
(* is in control and no evaluation is owed. Control that lapses lets it    *)
(* through too: nothing is owed for it before it is returned. So what may  *)
(* be relied on is that a return is never followed by the agent alone, and *)
(* not that lapsed control holds it.                                       *)
(***************************************************************************)
VARIABLES
    control,  \* "human", "lapsed" (ran out but not returned) or "none"
    owed      \* an evaluation is owed

vars == <<control, owed>>

Init == control = "none" /\ owed = FALSE

Take == control = "none" /\ control' \in {"human", "lapsed"} /\ UNCHANGED owed

Lapse == control = "human" /\ control' = "lapsed" /\ UNCHANGED owed

Renew == control = "lapsed" /\ control' = "human" /\ UNCHANGED owed

Return == control # "none" /\ control' = "none" /\ owed' = TRUE

Evaluated == owed /\ owed' = FALSE /\ UNCHANGED control

Next == Take \/ Lapse \/ Renew \/ Return \/ Evaluated

Spec == Init /\ [][Next]_vars
=============================================================================
