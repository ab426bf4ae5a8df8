---------------------------- MODULE ToolDialogue ----------------------------
(***************************************************************************)
(* What a turn promises about tool calls, whatever the provider, the user  *)
(* and the disk do: the provider is only asked when no call is open, calls *)
(* are only opened by its answer, and they are settled between answers.    *)
(***************************************************************************)
EXTENDS Naturals

CONSTANT Calls  \* ids of tool calls

VARIABLES
  open,   \* calls without a result
  state   \* "composing" a request, "listening" to the answer, or "over"

vars == <<open, state>>

Init == open = {} /\ state = "composing"

Ask ==
  /\ state = "composing"
  /\ open = {}
  /\ state' = "listening"
  /\ UNCHANGED open

OpenCall ==
  /\ state = "listening"
  /\ \E id \in Calls : open' = open \cup {id}
  /\ UNCHANGED state

\* The answer is complete, cut short or failed.
Heard ==
  /\ state = "listening"
  /\ state' = "composing"
  /\ UNCHANGED open

Settle ==
  /\ state = "composing"
  /\ open' \in SUBSET open
  /\ UNCHANGED state

\* The turn may end with calls open; the last ones may be settled with it.
Finish ==
  /\ state # "over"
  /\ state' = "over"
  /\ open' = open \/ (state = "composing" /\ open' \in SUBSET open)

Next == Ask \/ OpenCall \/ Heard \/ Settle \/ Finish

Spec == Init /\ [][Next]_vars
=============================================================================
