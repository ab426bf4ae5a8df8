------------------------------ MODULE ToolBatch ------------------------------
(***************************************************************************)
(* What executing a batch of tool calls promises the turn, whatever the    *)
(* tools, the user and the scheduler do: every call is settled once, the   *)
(* batch is reported when all of them are, and what the user decided about *)
(* the batch can only become more severe until then.                       *)
(***************************************************************************)
EXTENDS Naturals

CONSTANTS
  Tools,    \* the calls of the batch
  Gravest   \* verdicts are 0 (go on) .. Gravest (shut down)

VARIABLES
  open,     \* calls without a result
  verdict,  \* how the batch will end
  reported  \* the turn has the results

vars == <<open, verdict, reported>>

Init == open = Tools /\ verdict = 0 /\ reported = FALSE

\* The last call settled reports the batch.
Settle(tool) ==
  /\ tool \in open
  /\ open' = open \ {tool}
  /\ reported' = (open' = {})
  /\ UNCHANGED verdict

Decide ==
  /\ ~reported
  /\ \E graver \in verdict .. Gravest : verdict' = graver
  /\ UNCHANGED <<open, reported>>

Next == Decide \/ \E tool \in Tools : Settle(tool)

Spec == Init /\ [][Next]_vars
=============================================================================
