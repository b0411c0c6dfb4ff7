-------------------------- MODULE ProtectedStageDocs --------------------------
(***************************************************************************)
(* What docs/architecture/CRASH_RECOVERY.md and the header of the          *)
(* execution worker promise of a stage whose worker dies, with the runtime *)
(* recovery deployed, and the code does not do.                            *)
(***************************************************************************)
EXTENDS ProtectedStage

CONSTANTS r1, r2, r3, p1, p2

DocsProcessOf == [r \in Runs |-> IF r = r1 THEN p1 ELSE p2]

(* "Execution is never blindly replayed after ambiguous interruption": the *)
(* handler runs under the job's first claim only. The recovery never       *)
(* dispatches an abandoned execution, but claim takes an ABANDONED         *)
(* checkpoint whatever its resumeSafety, so a redelivered copy replays it. *)
NeverReplayed == \A r \in Runs : run[r].pc = "handler" => run[r].token = 1

(* "PROCESSING, process dies, ABANDONED, SAFE, resume": a stage that does  *)
(* not mutate is taken up again, as long as somebody can. No checkpoint    *)
(* says SAFE before it is settled, so the resolver blocks every one.       *)
AbandonedIsResumed ==
    checkpoint.status = "ABANDONED" ~>
       checkpoint.status # "ABANDONED" \/ \A r \in Runs : stage[r].pc # "waiting"

=============================================================================
