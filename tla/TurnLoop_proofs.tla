-------------------------- MODULE TurnLoop_proofs --------------------------
(***************************************************************************)
(* Proofs about TurnLoop, for every bound of the model and every size of   *)
(* the two budgets: the provider is only asked so many times in a row      *)
(* without an answer; every variable stays in its range; a replay is one   *)
(* step of the disk; the turn keeps the promise of ToolDialogue; what the  *)
(* provider is asked next is on disk; no content is lost and none is there *)
(* twice; and each call has one result before the provider is asked again. *)
(***************************************************************************)
EXTENDS TurnLoop, Selection_proofs, TLAPS

\* Where the phase is known.  Tool responses send the phase back to streaming,
\* so a batch must not run in a turn that is complete.
PhaseAtPlace ==
  /\ pc \in {"connect", "poll", "decide", "backoff"} => phase = "Streaming"
  /\ pc = "tools" => phase = "Executing"

RetryTyped ==
  retry \in [failures : 0 .. MaxRetries, changed : BOOLEAN, rebuilds : 0 .. MaxRebuilds]

FruitlessTyped == "fruitless" \in DOMAIN hist /\ hist.fruitless \in Nat

\* The response being read, or the one the turn ended in, is not paid for yet.
Unpaid == IF pc \in {"poll", "decide", "done"} \/ phase = "Complete" THEN 1 ELSE 0

\* Every request without an answer but that one was paid for by a budget.
RequestsPaid == hist.fruitless <= retry.failures + retry.rebuilds + Unpaid

\* The inductive invariant.
BudgetInv == PhaseAtPlace /\ RetryTyped /\ FruitlessTyped /\ RequestsPaid

\* The turn begins with full budgets and nothing asked.
LEMMA BudgetInit == Init => BudgetInv
BY TurnConstants DEF Init, BudgetInv, PhaseAtPlace, RetryTyped, FruitlessTyped, RequestsPaid,
   Unpaid

\* A step that ends the turn, or leaves the phase and the budgets alone on its
\* way back to the head of the loop, owes nothing new.
LEMMA EndStep ==
  ASSUME BudgetInv, pc' = "done", retry' = retry, hist' = hist
  PROVE  BudgetInv'
<1>1. PhaseAtPlace' /\ RetryTyped' /\ FruitlessTyped'
  BY DEF BudgetInv, PhaseAtPlace, RetryTyped, FruitlessTyped
<1>2. Unpaid' = 1 /\ Unpaid \in {0, 1}
  BY DEF Unpaid
<1>3. retry.failures \in Nat /\ retry.rebuilds \in Nat /\ hist.fruitless \in Nat
  BY TurnConstants DEF BudgetInv, RetryTyped, FruitlessTyped
<1>4. RequestsPaid'
  BY <1>2, <1>3 DEF BudgetInv, RequestsPaid
<1> QED
  BY <1>1, <1>4 DEF BudgetInv

\* A cycle or a batch that goes back to the head of the loop counts nothing.
LEMMA BackToTopStep ==
  ASSUME BudgetInv, pc \in {"leave", "tools"}, pc' = "top",
         phase' = (IF pc = "tools" THEN "Streaming" ELSE phase),
         retry' = retry, hist' = hist
  PROVE  BudgetInv'
<1>1. PhaseAtPlace' /\ RetryTyped' /\ FruitlessTyped'
  BY DEF BudgetInv, PhaseAtPlace, RetryTyped, FruitlessTyped
<1>2. Unpaid' = Unpaid
  BY DEF BudgetInv, PhaseAtPlace, Unpaid
<1>3. RequestsPaid'
  BY <1>2 DEF BudgetInv, RequestsPaid
<1> QED
  BY <1>1, <1>3 DEF BudgetInv

\* The head of the loop: a request is sent, and no longer paid for, only by
\* Connected, which is reached from a phase that is not complete.
LEMMA LoopHeadStep ==
  ASSUME BudgetInv, LoopHead
  PROVE  BudgetInv'
<1> USE TurnConstants DEF BudgetInv, PhaseAtPlace, RetryTyped, FruitlessTyped, RequestsPaid,
        Unpaid
<1>1. CASE CompleteEarly
  BY <1>1 DEF CompleteEarly
<1>2. CASE NoInterrupt
  BY <1>2 DEF NoInterrupt, diskVars, builderVars, toolVars, rxVars
<1>3. CASE StartTurn
  BY <1>3 DEF StartTurn
<1>4. CASE FinishTurn
  BY <1>4 DEF FinishTurn, End
<1>5. CASE OpenRequest
  BY <1>5 DEF OpenRequest
<1>6. CASE Connected
  BY <1>6 DEF Connected, FruitlessLimit
<1>7. CASE ConnectFails
  BY <1>7, EndStep DEF ConnectFails, End
<1> QED
  BY <1>1, <1>2, <1>3, <1>4, <1>5, <1>6, <1>7 DEF LoopHead

\* A content part or a real finish: nothing is left to pay for.
LEMMA AdvancingStep ==
  ASSUME BudgetInv, retry' = (IF got THEN retry ELSE NoFailures),
         "fruitless" \in DOMAIN hist', hist'.fruitless = 0, PhaseAtPlace'
  PROVE  BudgetInv'
<1>1. NoFailures \in [failures : 0 .. MaxRetries, changed : BOOLEAN,
                      rebuilds : 0 .. MaxRebuilds]
  BY TurnConstants DEF NoFailures
<1>2. RetryTyped'
  BY <1>1 DEF BudgetInv, RetryTyped
<1>3. FruitlessTyped'
  BY DEF FruitlessTyped
<1>4. retry'.failures \in Nat /\ retry'.rebuilds \in Nat /\ Unpaid' \in {0, 1}
  BY <1>2, TurnConstants DEF RetryTyped, Unpaid
<1>5. RequestsPaid'
  BY <1>4 DEF RequestsPaid
<1> QED
  BY <1>2, <1>3, <1>5 DEF BudgetInv

\* A failed or rebuilt response: the budget it uses up pays for it.
LEMMA PayingStep ==
  ASSUME BudgetInv, pc = "poll", pc' \in {"backoff", "leave"}, phase' = "Streaming",
         RetryTyped', hist' = hist,
         retry'.failures + retry'.rebuilds = retry.failures + retry.rebuilds + 1
  PROVE  BudgetInv'
<1>1. PhaseAtPlace' /\ FruitlessTyped'
  BY DEF BudgetInv, PhaseAtPlace, FruitlessTyped
<1>2. Unpaid = 1 /\ Unpaid' = 0
  BY DEF Unpaid
<1>3. retry.failures \in Nat /\ retry.rebuilds \in Nat /\ hist.fruitless \in Nat
      /\ retry'.failures \in Nat /\ retry'.rebuilds \in Nat
  BY TurnConstants DEF BudgetInv, RetryTyped, FruitlessTyped
<1>4. RequestsPaid'
  BY <1>2, <1>3 DEF BudgetInv, RequestsPaid
<1> QED
  BY <1>1, <1>4 DEF BudgetInv

\* The events of a response: each of them that ends it without an answer
\* uses up a retry or a rebuild.
LEMMA ProviderEventStep ==
  ASSUME BudgetInv, ProviderEvent
  PROVE  BudgetInv'
<1> USE TurnConstants DEF BudgetInv, PhaseAtPlace, RetryTyped, FruitlessTyped, RequestsPaid,
        Unpaid
<1>1. CASE ContentPart \/ CallPart
  <2>1. hist'.fruitless = 0 /\ "fruitless" \in DOMAIN hist'
    BY <1>1 DEF ContentPart, CallPart, Advances
  <2>2. PhaseAtPlace'
    BY <1>1 DEF ContentPart, CallPart
  <2> QED
    BY <1>1, <2>1, <2>2, AdvancingStep DEF ContentPart, CallPart, Advances
<1>2. CASE FlushText \/ FlushCall \/ Quiet
  BY <1>2 DEF FlushText, FlushCall, Quiet
<1>3. CASE Patch
  BY <1>3 DEF Patch
<1>4. CASE Finished \/ FinishedRefused
  <2>1. hist'.fruitless = 0 /\ "fruitless" \in DOMAIN hist'
    BY <1>4 DEF Finished, FinishedRefused, Advances
  <2>2. PhaseAtPlace'
    BY <1>4 DEF Finished, FinishedRefused
  <2> QED
    BY <1>4, <2>1, <2>2, AdvancingStep DEF Finished, FinishedRefused, Advances
<1>5. CASE Rebuild
  <2>1. retry' = [retry EXCEPT !.changed = FALSE, !.rebuilds = @ + 1]
    BY <1>5 DEF Rebuild
  <2>2. retry.rebuilds < MaxRebuilds
    BY <1>5 DEF Rebuild, MayRebuild
  <2>3. RetryTyped'
    <3>1. retry.rebuilds + 1 \in 0 .. MaxRebuilds
      BY <2>2
    <3> QED
      BY <2>1, <3>1
  <2>4. retry'.failures + retry'.rebuilds = retry.failures + retry.rebuilds + 1
    BY <2>1
  <2>5. pc = "poll" /\ pc' = "leave" /\ phase' = "Streaming" /\ hist' = hist
    BY <1>5 DEF Rebuild
  <2> QED
    BY <2>3, <2>4, <2>5, PayingStep
<1>6. CASE RebuildRefused \/ StreamErrorFatal
  BY <1>6, EndStep DEF RebuildRefused, StreamErrorFatal, End
<1>7. CASE StreamErrorRetried
  <2>1. retry' = [retry EXCEPT !.failures = retry.failures + 1]
    BY <1>7 DEF StreamErrorRetried, Attempt
  <2>2. retry.failures < MaxRetries
    BY <1>7 DEF StreamErrorRetried, CanRetry
  <2>3. RetryTyped'
    BY <2>1, <2>2
  <2>4. retry'.failures + retry'.rebuilds = retry.failures + retry.rebuilds + 1
    BY <2>1
  <2>5. pc = "poll" /\ pc' = "backoff" /\ phase' = "Streaming" /\ hist' = hist
    BY <1>7 DEF StreamErrorRetried
  <2> QED
    BY <2>3, <2>4, <2>5, PayingStep
<1> QED
  BY <1>1, <1>2, <1>3, <1>4, <1>5, <1>6, <1>7 DEF ProviderEvent

\* The menu: going on and replying are answers of the user, the other choices
\* end the turn.
LEMMA MenuStep ==
  ASSUME BudgetInv, Menu
  PROVE  BudgetInv'
<1> USE TurnConstants DEF BudgetInv, PhaseAtPlace, RetryTyped, FruitlessTyped, RequestsPaid,
        Unpaid
<1>1. CASE KeepGoing
  BY <1>1 DEF KeepGoing, MenuOpen
<1>2. CASE Stop
  BY <1>2 DEF Stop, MenuOpen
<1>3. CASE Abort
  BY <1>3 DEF Abort, End
<1>4. CASE ReplyNow
  BY <1>4 DEF ReplyNow
<1>5. CASE Escalate
  BY <1>5 DEF Escalate, End
<1> QED
  BY <1>1, <1>2, <1>3, <1>4, <1>5 DEF Menu

\* A batch of tools, in a phase that is not complete.
LEMMA ToolsStep ==
  ASSUME BudgetInv, Tools
  PROVE  BudgetInv'
<1> USE TurnConstants DEF BudgetInv, PhaseAtPlace, RetryTyped, FruitlessTyped, RequestsPaid,
        Unpaid
<1>1. CASE StartTools
  BY <1>1 DEF StartTools
<1>2. CASE ToolsCompleted \/ ToolsStopped \/ ToolsEscalated
  <2>1. pc = "tools" /\ phase' = "Streaming" /\ retry' = retry /\ hist' = hist
    BY <1>2 DEF ToolsCompleted, ToolsStopped, ToolsEscalated, CommitResponses
  <2>2. pc' \in {"top", "done"}
    BY <1>2 DEF ToolsCompleted, ToolsStopped, ToolsEscalated, CommitResponses, End
  <2>3. CASE pc' = "top"
    BY <2>1, <2>3, BackToTopStep
  <2>4. CASE pc' = "done"
    BY <2>1, <2>4, EndStep
  <2> QED
    BY <2>2, <2>3, <2>4
<1>3. CASE ToolsRestarted
  BY <1>3 DEF ToolsRestarted
<1>4. CASE ToolInterruptPassed
  BY <1>4 DEF ToolInterruptPassed
<1> QED
  BY <1>1, <1>2, <1>3, <1>4 DEF Tools

\* Permissions, the end of the backoff, the end of a cycle, the dropped future.
LEMMA OtherTurnStep ==
  ASSUME BudgetInv, Decide \/ BackoffElapsed \/ LeaveStreaming \/ FutureDropped
  PROVE  BudgetInv'
<1> USE TurnConstants DEF BudgetInv, PhaseAtPlace, RetryTyped, FruitlessTyped, RequestsPaid,
        Unpaid
<1>1. CASE Decide
  BY <1>1 DEF Decide
<1>2. CASE BackoffElapsed
  BY <1>2 DEF BackoffElapsed
<1>3. CASE LeaveStreaming
  <2>1. pc = "leave" /\ phase' = phase /\ retry' = retry /\ hist' = hist
    BY <1>3 DEF LeaveStreaming
  <2>2. pc' \in {"top", "done"}
    BY <1>3 DEF LeaveStreaming, CycleSaved, CycleLost, End
  <2>3. CASE pc' = "top"
    BY <2>1, <2>3, BackToTopStep
  <2>4. CASE pc' = "done"
    BY <2>1, <2>4, EndStep
  <2> QED
    BY <2>2, <2>3, <2>4
<1>4. CASE FutureDropped
  BY <1>4 DEF FutureDropped, End
<1> QED
  BY <1>1, <1>2, <1>3, <1>4

\* Signals ask the provider nothing.
LEMMA UserStep ==
  ASSUME BudgetInv, User
  PROVE  BudgetInv'
<1> USE TurnConstants DEF BudgetInv, PhaseAtPlace, RetryTyped, FruitlessTyped, RequestsPaid,
        Unpaid
<1>1. CASE Press
  BY <1>1 DEF Press
<1>2. CASE RequestShutdown
  BY <1>2 DEF RequestShutdown
<1>3. CASE Killed
  BY <1>3 DEF Killed, End
<1> QED
  BY <1>1, <1>2, <1>3 DEF User

\* Every step keeps the budgets' invariant.
LEMMA BudgetStep ==
  ASSUME BudgetInv, [Next]_vars
  PROVE  BudgetInv'
<1>1. CASE Turn
  BY <1>1, LoopHeadStep, ProviderEventStep, MenuStep, ToolsStep, OtherTurnStep DEF Turn
<1>2. CASE User
  BY <1>2, UserStep
<1>3. CASE UNCHANGED vars
  BY <1>3 DEF vars, BudgetInv, PhaseAtPlace, RetryTyped, FruitlessTyped, RequestsPaid, Unpaid
<1> QED
  BY <1>1, <1>2, <1>3 DEF Next, Done

\* So it holds of every state.
LEMMA BudgetAlways == Spec => []BudgetInv
<1>1. BudgetInv /\ [Next]_vars => BudgetInv'
  BY BudgetStep
<1> QED
  BY BudgetInit, <1>1, PTL DEF Spec

\* Failed streams and rebuilds together ask the provider no more often in a
\* row than the two budgets allow (stream/retry.rs and handle_llm_event),
\* whatever the interrupts, the tools and the failing writes in between.
THEOREM RequestsAreBounded == Spec => []FruitlessRequestsBounded
<1>1. BudgetInv => FruitlessRequestsBounded
  BY TurnConstants DEF BudgetInv, RetryTyped, FruitlessTyped, RequestsPaid, Unpaid,
     FruitlessRequestsBounded, FruitlessLimit
<1> QED
  BY BudgetAlways, <1>1, PTL

-----------------------------------------------------------------------------
(***************************************************************************)
(* What a turn does to the conversation: the operators on conversations,   *)
(* event by event, and the types of the state.                             *)
(***************************************************************************)

\* The events of a conversation: a tool call has an id.
ProperEvent == {e \in Event : e.kind = "call" => e.id \in Calls}

-----------------------------------------------------------------------------
(* The events and the operators on conversations are typed.                *)

\* What the turn appends to a conversation.
LEMMA EventsProper ==
  /\ Request \in ProperEvent /\ Reply \in ProperEvent
  /\ \A chunks \in Seq(Chunks) : Text(chunks) \in ProperEvent
  /\ \A id \in Calls : Call(id) \in ProperEvent
  /\ \A id \in Calls, by \in Authors : Result(id, by) \in ProperEvent
BY DEF ProperEvent, Event, Request, Reply, Text, Call, Result, Kinds, Authors, NoCall

\* The turn that may have gone before.
LEMMA PastTurnProper == PastTurn \in Seq(ProperEvent) /\ 1 \in Calls /\ 0 \in Chunks
<1>1. 1 \in Calls /\ 0 \in Chunks
  BY TurnConstants DEF Calls, Chunks
<1>2. <<0>> \in Seq(Chunks)
  BY <1>1
<1>3. Call(1) \in ProperEvent /\ Result(1, "executor") \in ProperEvent
      /\ Text(<<0>>) \in ProperEvent /\ Request \in ProperEvent
  BY <1>1, <1>2, EventsProper DEF Authors
<1> QED
  BY <1>1, <1>3 DEF PastTurn

\* The content buffer is committed as one event, or not at all when empty.
LEMMA PartialCases ==
  ASSUME stream \in Seq(ProperEvent), text \in Seq(Chunks)
  PROVE  /\ stream \o Partial \in Seq(ProperEvent)
         /\ \/ text = <<>> /\ stream \o Partial = stream
            \/ text # <<>> /\ stream \o Partial = Append(stream, Text(text))
<1>1. CASE text = <<>>
  BY <1>1 DEF Partial
<1>2. CASE text # <<>>
  <2>1. Text(text) \in ProperEvent
    BY EventsProper
  <2>2. Partial = <<Text(text)>>
    BY <1>2 DEF Partial
  <2> HIDE DEF Partial
  <2>3. stream \o <<Text(text)>> = Append(stream, Text(text))
    BY <2>1
  <2> QED
    BY <1>2, <2>1, <2>2, <2>3
<1> QED
  BY <1>1, <1>2

\* The last of a set of positions.
LEMMA LastOf ==
  ASSUME NEW n \in Nat, NEW S \in SUBSET (1 .. n), S # {}
  PROVE  LET last == CHOOSE i \in S : \A j \in S : j <= i
         IN last \in S /\ \A j \in S : j <= last
<1> DEFINE seen == {i \in 0 .. n : (\E j \in S : j <= i) => \E j \in S : \A k \in S : k <= i => k <= j}
<1>1. 0 \in seen
  OBVIOUS
<1>2. ASSUME NEW i \in 0 .. n - 1, i \in seen PROVE i + 1 \in seen
  <2>1. i + 1 \in 0 .. n /\ \A k \in S : k \in 1 .. n
    OBVIOUS
  <2>2. CASE i + 1 \in S
    <3>1. \A k \in S : k <= i + 1 => k <= i + 1
      OBVIOUS
    <3>2. \E j \in S : \A k \in S : k <= i + 1 => k <= j
      BY <2>2, <3>1
    <3> QED
      BY <2>1, <3>2
  <2>3. CASE i + 1 \notin S
    <3>1. \A k \in S : k <= i + 1 <=> k <= i
      BY <2>1, <2>3
    <3> QED
      BY <1>2, <2>1, <3>1
  <2> QED
    BY <2>2, <2>3
<1> HIDE DEF seen
<1>3. n \in seen
  BY <1>1, <1>2, InductionUpTo
<1>4. \A j \in S : j <= n
  OBVIOUS
<1>5. \E j \in S : \A k \in S : k <= j
  BY <1>3, <1>4 DEF seen
<1> QED
  BY <1>5

\* A turn that is replaced is cut off the end.
LEMMA TrimmedCut ==
  ASSUME NEW E, NEW s \in Seq(E)
  PROVE  \E m \in 0 .. Len(s) : Trimmed(s) = SubSeq(s, 1, m)
<1> DEFINE said == Indices(s, "request") \cup Indices(s, "reply")
<1>1. CASE said = {}
  <2>1. Trimmed(s) = SubSeq(s, 1, 0) /\ 0 \in 0 .. Len(s)
    BY <1>1 DEF Trimmed
  <2> QED
    BY <2>1
<1>2. CASE said # {}
  <2>1. said \in SUBSET (1 .. Len(s)) /\ Len(s) \in Nat
    BY DEF Indices
  <2>2. PICK last : last = CHOOSE i \in said : \A j \in said : j <= i
    OBVIOUS
  <2>3. Trimmed(s) = SubSeq(s, 1, last - 1)
    BY <1>2, <2>2 DEF Trimmed
  <2>4. last \in said
    <3> HIDE DEF said
    <3> QED
      BY <1>2, <2>1, <2>2, LastOf
  <2>5. last - 1 \in 0 .. Len(s)
    <3> HIDE DEF said
    <3> QED
      BY <2>1, <2>4
  <2> QED
    BY <2>3, <2>5
<1> QED
  BY <1>1, <1>2

\* So it holds events of the conversation only.
LEMMA TrimmedTyped ==
  ASSUME NEW E, NEW s \in Seq(E)
  PROVE  Trimmed(s) \in Seq(E)
<1>1. PICK m \in 0 .. Len(s) : Trimmed(s) = SubSeq(s, 1, m)
  BY TrimmedCut
<1>2. SubSeq(s, 1, m) \in Seq(E)
  OBVIOUS
<1> QED
  BY <1>1, <1>2

\* What a refusal discards is the text at the end of the conversation.
LEMMA TrailingTextCut ==
  ASSUME NEW E, NEW s \in Seq(E)
  PROVE  \E m \in 0 .. Len(s) : /\ WithoutTrailingText(s) = SubSeq(s, 1, m)
                                /\ \A i \in m + 1 .. Len(s) : s[i].kind = "text"
<1> DEFINE kept == {i \in DOMAIN s : s[i].kind # "text"}
<1>1. Len(s) \in Nat /\ DOMAIN s = 1 .. Len(s)
  OBVIOUS
<1>2. CASE kept = {}
  <2>1. WithoutTrailingText(s) = SubSeq(s, 1, 0)
    BY <1>2 DEF WithoutTrailingText
  <2>2. \A i \in 0 + 1 .. Len(s) : s[i].kind = "text"
    BY <1>1, <1>2
  <2> QED
    BY <1>1, <2>1, <2>2
<1>3. CASE kept # {}
  <2>1. kept \in SUBSET (1 .. Len(s))
    BY <1>1
  <2>2. PICK last : last = CHOOSE i \in kept : \A j \in kept : j <= i
    OBVIOUS
  <2>3. WithoutTrailingText(s) = SubSeq(s, 1, last)
    BY <1>3, <2>2 DEF WithoutTrailingText
  <2>4. last \in kept /\ \A j \in kept : j <= last
    <3> HIDE DEF kept
    <3> QED
      BY <1>1, <1>3, <2>1, <2>2, LastOf
  <2>5. \A i \in last + 1 .. Len(s) : s[i].kind = "text"
    <3>1. SUFFICES ASSUME NEW i \in last + 1 .. Len(s), i \in kept PROVE FALSE
      BY <1>1, <2>1, <2>4
    <3> QED
      BY <1>1, <2>1, <2>4, <3>1
  <2>6. last \in 0 .. Len(s)
    BY <1>1, <2>1, <2>4
  <2> QED
    BY <2>3, <2>5, <2>6
<1> QED
  BY <1>2, <1>3

-----------------------------------------------------------------------------
(* sanitize.                                                               *)

\* The results it adds have the id of a call.
LEMMA RepairedTyped ==
  ASSUME NEW e \in ProperEvent, NEW answered
  PROVE  Repaired(e, answered) \in Seq(ProperEvent)
<1>1. e.kind = "call" => Result(e.id, "interrupted") \in ProperEvent
  BY EventsProper DEF ProperEvent, Authors
<1> QED
  BY <1>1 DEF Repaired

\* It leaves a conversation of events.
LEMMA SanitizedTyped ==
  ASSUME NEW s \in Seq(ProperEvent)
  PROVE  Sanitized(s) \in Seq(ProperEvent)
<1> DEFINE paired == OrphanResultsRemoved(s)
           seqs == [i \in DOMAIN paired |-> Repaired(paired[i], Answered(s))]
<1>1. paired \in Seq(ProperEvent)
  BY PickPlaces DEF OrphanResultsRemoved
<1>2. Sanitized(s) = FlattenSeq(seqs)
  BY DEF Sanitized
<1> HIDE DEF paired
<1>3. seqs \in Seq(Seq(ProperEvent))
  <2>1. DOMAIN paired = 1 .. Len(paired) /\ Len(paired) \in Nat
        /\ \A i \in 1 .. Len(paired) : paired[i] \in ProperEvent
    BY <1>1
  <2>2. \A i \in 1 .. Len(paired) : Repaired(paired[i], Answered(s)) \in Seq(ProperEvent)
    BY <2>1, RepairedTyped
  <2> QED
    BY <2>1, <2>2
<1> HIDE DEF seqs
<1>4. PICK f : Flattens(f, seqs, ProperEvent)
  BY <1>3, FlattenDefined
<1>5. f[Len(seqs)] \in Seq(ProperEvent)
  <2>1. Len(seqs) \in 0 .. Len(seqs)
    BY <1>3
  <2> QED
    BY <1>4, <2>1 DEF Flattens
<1> QED
  BY <1>2, <1>4, <1>5 DEF Flattens

\* A call that no result answers.
Dangling(s, i) == s[i].kind = "call" /\ s[i].id \notin Answered(s)

\* What sanitize makes of the first k events of a conversation: home[i] is
\* where event i has gone, and what is new is the result behind a dangling call.
Repairs(home, t, s, k) ==
  /\ home \in [1 .. k -> 1 .. Len(t)]
  /\ \A i \in 1 .. k : t[home[i]] = s[i]
  /\ \A i, j \in 1 .. k : i < j => home[i] < home[j]
  /\ \A i \in 1 .. k : Dangling(s, i) =>
       home[i] + 1 \in 1 .. Len(t) /\ t[home[i] + 1] = Result(s[i].id, "interrupted")
  /\ \A q \in 1 .. Len(t) :
       \/ \E i \in 1 .. k : q = home[i]
       \/ \E i \in 1 .. k : Dangling(s, i) /\ q = home[i] + 1
IsRepaired(t, s, k) == \E home : Repairs(home, t, s, k)

\* One event more.
LEMMA RepairOneMore ==
  ASSUME NEW s \in Seq(ProperEvent), NEW k \in 0 .. Len(s) - 1, NEW t \in Seq(ProperEvent),
         IsRepaired(t, s, k),
         NEW u, u = t \o Repaired(s[k + 1], Answered(s))
  PROVE  u \in Seq(ProperEvent) /\ IsRepaired(u, s, k + 1)
<1> DEFINE e == s[k + 1]
           n == Len(t) + 1
<1>1. PICK home : Repairs(home, t, s, k)
  BY DEF IsRepaired
<1>2. k + 1 \in 1 .. Len(s) /\ e \in ProperEvent /\ Len(t) \in Nat /\ k \in Nat
  OBVIOUS
<1> DEFINE next == [i \in 1 .. k + 1 |-> IF i = k + 1 THEN n ELSE home[i]]
<1>3. \A i \in 1 .. k : home[i] \in 1 .. Len(t)
  BY <1>1 DEF Repairs
<1>4. next[k + 1] = n /\ \A i \in 1 .. k : next[i] = home[i]
  BY <1>2
<1>5. \A i \in 1 .. k + 1 : i = k + 1 \/ i \in 1 .. k
  BY <1>2
<1>6. \A m \in Nat : m >= n => next \in [1 .. k + 1 -> 1 .. m]
  BY <1>2, <1>3, <1>4, <1>5
<1> HIDE DEF next
<1>7. \A i, j \in 1 .. k + 1 : i < j => next[i] < next[j]
  <2>1. SUFFICES ASSUME NEW i \in 1 .. k + 1, NEW j \in 1 .. k + 1, i < j
                 PROVE  next[i] < next[j]
    OBVIOUS
  <2>2. i \in 1 .. k
    BY <1>2, <1>5, <2>1
  <2>3. CASE j = k + 1
    BY <1>2, <1>3, <1>4, <2>2, <2>3
  <2>4. CASE j # k + 1
    BY <1>1, <1>4, <1>5, <2>1, <2>2, <2>4 DEF Repairs
  <2> QED
    BY <2>3, <2>4
<1>8. CASE Dangling(s, k + 1)
  <2> DEFINE r == Result(e.id, "interrupted")
  <2>1. r \in ProperEvent
    BY <1>2, <1>8, EventsProper DEF Dangling, ProperEvent, Authors
  <2>2. u = t \o <<e, r>>
    BY <1>8 DEF Dangling, Repaired
  <2> HIDE DEF r, e
  <2>3. /\ u \in Seq(ProperEvent) /\ Len(u) = n + 1 /\ u[n] = e /\ u[n + 1] = r
        /\ \A q \in 1 .. Len(t) : u[q] = t[q]
    BY <1>2, <2>1, <2>2
  <2>4. \A i \in 1 .. k + 1 : u[next[i]] = s[i]
    <3>1. SUFFICES ASSUME NEW i \in 1 .. k + 1 PROVE u[next[i]] = s[i]
      OBVIOUS
    <3>2. CASE i = k + 1
      BY <1>4, <2>3, <3>2 DEF e
    <3>3. CASE i # k + 1
      <4>1. i \in 1 .. k /\ next[i] = home[i]
        BY <1>4, <1>5, <3>3
      <4>2. t[home[i]] = s[i] /\ home[i] \in 1 .. Len(t)
        BY <1>1, <1>3, <4>1 DEF Repairs
      <4> QED
        BY <2>3, <4>1, <4>2
    <3> QED
      BY <3>2, <3>3
  <2>5. \A i \in 1 .. k + 1 : Dangling(s, i) =>
          next[i] + 1 \in 1 .. Len(u) /\ u[next[i] + 1] = Result(s[i].id, "interrupted")
    <3>1. SUFFICES ASSUME NEW i \in 1 .. k + 1, Dangling(s, i)
                   PROVE  /\ next[i] + 1 \in 1 .. Len(u)
                          /\ u[next[i] + 1] = Result(s[i].id, "interrupted")
      OBVIOUS
    <3>2. CASE i = k + 1
      BY <1>2, <1>4, <2>3, <3>2 DEF r, e
    <3>3. CASE i # k + 1
      <4>1. i \in 1 .. k /\ next[i] = home[i]
        BY <1>4, <1>5, <3>3
      <4>2. home[i] + 1 \in 1 .. Len(t) /\ t[home[i] + 1] = Result(s[i].id, "interrupted")
        BY <1>1, <3>1, <4>1 DEF Repairs
      <4> QED
        BY <1>2, <2>3, <4>1, <4>2
    <3> QED
      BY <3>2, <3>3
  <2>6. \A q \in 1 .. Len(u) : \/ \E i \in 1 .. k + 1 : q = next[i]
                               \/ \E i \in 1 .. k + 1 : Dangling(s, i) /\ q = next[i] + 1
    <3>1. SUFFICES ASSUME NEW q \in 1 .. Len(u)
                   PROVE  \/ \E i \in 1 .. k + 1 : q = next[i]
                          \/ \E i \in 1 .. k + 1 : Dangling(s, i) /\ q = next[i] + 1
      OBVIOUS
    <3>2. CASE q = n
      BY <1>2, <1>4, <3>2
    <3>3. CASE q = n + 1
      BY <1>2, <1>4, <1>8, <3>3
    <3>4. CASE q # n /\ q # n + 1
      <4>1. q \in 1 .. Len(t)
        BY <1>2, <2>3, <3>4
      <4>2. \/ \E i \in 1 .. k : q = home[i]
            \/ \E i \in 1 .. k : Dangling(s, i) /\ q = home[i] + 1
        BY <1>1, <4>1 DEF Repairs
      <4>3. \A i \in 1 .. k : i \in 1 .. k + 1
        BY <1>2
      <4> QED
        BY <1>4, <4>2, <4>3
    <3> QED
      BY <3>2, <3>3, <3>4
  <2>7. next \in [1 .. k + 1 -> 1 .. Len(u)]
    BY <1>2, <1>6, <2>3
  <2>8. Repairs(next, u, s, k + 1)
    BY <1>7, <2>4, <2>5, <2>6, <2>7 DEF Repairs
  <2> QED
    BY <2>3, <2>8 DEF IsRepaired
<1>9. CASE ~Dangling(s, k + 1)
  <2>2. u = t \o <<e>>
    BY <1>9 DEF Dangling, Repaired
  <2> HIDE DEF e
  <2>3. /\ u \in Seq(ProperEvent) /\ Len(u) = n /\ u[n] = e
        /\ \A q \in 1 .. Len(t) : u[q] = t[q]
    BY <1>2, <2>2
  <2>4. \A i \in 1 .. k + 1 : u[next[i]] = s[i]
    <3>1. SUFFICES ASSUME NEW i \in 1 .. k + 1 PROVE u[next[i]] = s[i]
      OBVIOUS
    <3>2. CASE i = k + 1
      BY <1>4, <2>3, <3>2 DEF e
    <3>3. CASE i # k + 1
      <4>1. i \in 1 .. k /\ next[i] = home[i]
        BY <1>4, <1>5, <3>3
      <4>2. t[home[i]] = s[i] /\ home[i] \in 1 .. Len(t)
        BY <1>1, <1>3, <4>1 DEF Repairs
      <4> QED
        BY <2>3, <4>1, <4>2
    <3> QED
      BY <3>2, <3>3
  <2>5. \A i \in 1 .. k + 1 : Dangling(s, i) =>
          next[i] + 1 \in 1 .. Len(u) /\ u[next[i] + 1] = Result(s[i].id, "interrupted")
    <3>1. SUFFICES ASSUME NEW i \in 1 .. k + 1, Dangling(s, i)
                   PROVE  /\ next[i] + 1 \in 1 .. Len(u)
                          /\ u[next[i] + 1] = Result(s[i].id, "interrupted")
      OBVIOUS
    <3>2. i \in 1 .. k /\ next[i] = home[i]
      BY <1>4, <1>5, <1>9, <3>1
    <3>3. home[i] + 1 \in 1 .. Len(t) /\ t[home[i] + 1] = Result(s[i].id, "interrupted")
      BY <1>1, <3>1, <3>2 DEF Repairs
    <3> QED
      BY <1>2, <2>3, <3>2, <3>3
  <2>6. \A q \in 1 .. Len(u) : \/ \E i \in 1 .. k + 1 : q = next[i]
                               \/ \E i \in 1 .. k + 1 : Dangling(s, i) /\ q = next[i] + 1
    <3>1. SUFFICES ASSUME NEW q \in 1 .. Len(u)
                   PROVE  \/ \E i \in 1 .. k + 1 : q = next[i]
                          \/ \E i \in 1 .. k + 1 : Dangling(s, i) /\ q = next[i] + 1
      OBVIOUS
    <3>2. CASE q = n
      BY <1>2, <1>4, <3>2
    <3>4. CASE q # n
      <4>1. q \in 1 .. Len(t)
        BY <1>2, <2>3, <3>4
      <4>2. \/ \E i \in 1 .. k : q = home[i]
            \/ \E i \in 1 .. k : Dangling(s, i) /\ q = home[i] + 1
        BY <1>1, <4>1 DEF Repairs
      <4>3. \A i \in 1 .. k : i \in 1 .. k + 1
        BY <1>2
      <4> QED
        BY <1>4, <4>2, <4>3
    <3> QED
      BY <3>2, <3>4
  <2>7. next \in [1 .. k + 1 -> 1 .. Len(u)]
    BY <1>2, <1>6, <2>3
  <2>8. Repairs(next, u, s, k + 1)
    BY <1>7, <2>4, <2>5, <2>6, <2>7 DEF Repairs
  <2> QED
    BY <2>3, <2>8 DEF IsRepaired
<1> QED
  BY <1>8, <1>9

\* The conversation sanitize makes, event by event.
Sanitizes(f, s) ==
  /\ f \in [0 .. Len(s) -> Seq(ProperEvent)]
  /\ f[0] = <<>>
  /\ \A i \in 1 .. Len(s) : f[i] = f[i - 1] \o Repaired(s[i], Answered(s))
  /\ Sanitized(s) = f[Len(s)]

\* Where every result has a call, sanitize removes nothing.
LEMMA SanitizedStepwise ==
  ASSUME NEW s \in Seq(ProperEvent), Answered(s) \subseteq Called(s)
  PROVE  \E f : Sanitizes(f, s)
<1> DEFINE n == Len(s)
           seqs == [i \in 1 .. n |-> Repaired(s[i], Answered(s))]
<1>1. OrphanResultsRemoved(s) = s
  <2>1. PICK S : S = {i \in DOMAIN s : s[i].kind = "result" => s[i].id \in Called(s)}
    OBVIOUS
  <2>2. ASSUME NEW i \in 1 .. Len(s) PROVE i \in S
    BY <2>1 DEF Answered, Indices
  <2>3. Pick(s, S) = s
    BY <2>2, PickAll
  <2> QED
    BY <2>1, <2>3 DEF OrphanResultsRemoved
<1>2. n \in Nat /\ DOMAIN s = 1 .. n /\ \A i \in 1 .. n : s[i] \in ProperEvent
  OBVIOUS
<1>3. Sanitized(s) = FlattenSeq(seqs)
  BY <1>1, <1>2 DEF Sanitized
<1>4. \A i \in 1 .. n : Repaired(s[i], Answered(s)) \in Seq(ProperEvent)
  BY <1>2, RepairedTyped
<1>5. seqs \in Seq(Seq(ProperEvent)) /\ Len(seqs) = n
      /\ \A i \in 1 .. n : seqs[i] = Repaired(s[i], Answered(s))
  BY <1>2, <1>4
<1> HIDE DEF seqs, n
<1>6. PICK f : Flattens(f, seqs, ProperEvent)
  BY <1>5, FlattenDefined
<1>7. /\ f \in [0 .. n -> Seq(ProperEvent)] /\ f[0] = <<>> /\ Sanitized(s) = f[n]
      /\ \A i \in 1 .. n : f[i] = f[i - 1] \o Repaired(s[i], Answered(s))
  BY <1>3, <1>5, <1>6 DEF Flattens
<1> QED
  BY <1>7 DEF Sanitizes, n

\* What sanitize changes is what Repairs says.
LEMMA SanitizedShape ==
  ASSUME NEW s \in Seq(ProperEvent), Answered(s) \subseteq Called(s)
  PROVE  Sanitized(s) \in Seq(ProperEvent) /\ IsRepaired(Sanitized(s), s, Len(s))
<1> DEFINE n == Len(s)
<1>2. n \in Nat
  OBVIOUS
<1>3. PICK f : Sanitizes(f, s)
  BY SanitizedStepwise
<1> HIDE DEF n
<1>7. /\ f \in [0 .. n -> Seq(ProperEvent)] /\ f[0] = <<>> /\ Sanitized(s) = f[n]
      /\ \A i \in 1 .. n : f[i] = f[i - 1] \o Repaired(s[i], Answered(s))
  BY <1>3 DEF Sanitizes, n
<1> DEFINE done == {k \in 0 .. n : IsRepaired(f[k], s, k)}
<1>8. 0 \in done
  <2> DEFINE home == [i \in 1 .. 0 |-> 1]
  <2>1. Len(f[0]) = 0
    BY <1>7
  <2>2. Repairs(home, f[0], s, 0)
    BY <2>1 DEF Repairs
  <2>3. 0 \in 0 .. n
    BY <1>2
  <2> QED
    BY <2>2, <2>3 DEF IsRepaired
<1>9. ASSUME NEW k \in 0 .. n - 1, k \in done PROVE k + 1 \in done
  <2>1. k + 1 \in 1 .. n /\ (k + 1) - 1 = k /\ k \in 0 .. n
    BY <1>2
  <2>2. f[k] \in Seq(ProperEvent) /\ IsRepaired(f[k], s, k)
    BY <1>7, <1>9, <2>1
  <2>3. f[k + 1] = f[k] \o Repaired(s[k + 1], Answered(s))
    BY <1>7, <2>1
  <2>4. IsRepaired(f[k + 1], s, k + 1)
    <3>1. PICK u : u = f[k + 1]
      OBVIOUS
    <3>2. IsRepaired(u, s, k + 1)
      BY <2>2, <2>3, <3>1, RepairOneMore DEF n
    <3> QED
      BY <3>1, <3>2
  <2>5. k + 1 \in 0 .. n
    BY <2>1
  <2> QED
    BY <2>4, <2>5
<1> HIDE DEF done
<1>10. n \in done
  BY <1>2, <1>8, <1>9, InductionUpTo
<1>11. IsRepaired(Sanitized(s), s, n)
  BY <1>7, <1>10 DEF done
<1> QED
  BY <1>2, <1>7, <1>11 DEF n

-----------------------------------------------------------------------------
(* What of a conversation sanitize has not added.                          *)

\* One event more.
LEMMA UnrepairedAppend ==
  ASSUME NEW E, NEW s \in Seq(E), NEW e \in E
  PROVE  Unrepaired(Append(s, e)) =
           IF e.by # "interrupted" THEN Append(Unrepaired(s), e) ELSE Unrepaired(s)
<1> DEFINE n == Len(s)
           t == Append(s, e)
<1>1. PICK S : S = {i \in DOMAIN s : s[i].by # "interrupted"}
  OBVIOUS
<1>2. PICK T : T = {i \in DOMAIN t : t[i].by # "interrupted"}
  OBVIOUS
<1>3. DOMAIN s = 1 .. n /\ DOMAIN t = 1 .. n + 1 /\ n \in Nat /\ t[n + 1] = e
      /\ \A i \in 1 .. n : t[i] = s[i]
  OBVIOUS
<1> HIDE DEF t
<1>4. \A i \in 1 .. n : i \in S <=> i \in T
  BY <1>1, <1>2, <1>3
<1>5. n + 1 \in T <=> e.by # "interrupted"
  BY <1>2, <1>3
<1>6. Pick(t, T) = IF n + 1 \in T THEN Append(Pick(s, S), e) ELSE Pick(s, S)
  BY <1>4, PickAppend DEF t
<1> QED
  BY <1>1, <1>2, <1>5, <1>6 DEF Unrepaired, t

\* The results sanitize adds are all that it changes.
LEMMA UnrepairedSanitized ==
  ASSUME NEW s \in Seq(ProperEvent), Answered(s) \subseteq Called(s)
  PROVE  Unrepaired(Sanitized(s)) = Unrepaired(s)
<1> DEFINE n == Len(s)
<1>1. n \in Nat /\ \A i \in 1 .. n : s[i] \in ProperEvent
  OBVIOUS
<1>2. PICK S : S = {i \in DOMAIN s : s[i].by # "interrupted"}
  OBVIOUS
<1>3. PICK P : P = Picks(s, S)
  OBVIOUS
<1>4. Unrepaired(s) = P[n] /\ P[0] = <<>>
      /\ \A i \in 1 .. n : P[i] = IF s[i].by # "interrupted" THEN Append(P[i - 1], s[i]) ELSE P[i - 1]
  <2>1. Unrepaired(s) = P[n]
    BY <1>2, <1>3, PickIsLast DEF Unrepaired
  <2>2. P[0] = <<>>
    BY <1>3, PicksDefined
  <2>3. \A i \in 1 .. n : P[i] = IF i \in S THEN Append(P[i - 1], s[i]) ELSE P[i - 1]
    BY <1>3, PicksDefined
  <2>4. \A i \in 1 .. n : i \in S <=> s[i].by # "interrupted"
    BY <1>2
  <2> QED
    BY <2>1, <2>2, <2>3, <2>4
<1>5. PICK f : Sanitizes(f, s)
  BY SanitizedStepwise
<1> HIDE DEF n
<1>6. /\ f \in [0 .. n -> Seq(ProperEvent)] /\ f[0] = <<>> /\ Sanitized(s) = f[n]
      /\ \A i \in 1 .. n : f[i] = f[i - 1] \o Repaired(s[i], Answered(s))
  BY <1>5 DEF Sanitizes, n
<1> DEFINE same == {k \in 0 .. n : Unrepaired(f[k]) = P[k]}
<1>7. 0 \in same
  <2>1. Unrepaired(<<>>) = <<>>
    <3>1. PICK T : T = {i \in DOMAIN <<>> : <<>>[i].by # "interrupted"}
      OBVIOUS
    <3>2. <<>> \in Seq(ProperEvent) /\ Len(<<>>) = 0
      OBVIOUS
    <3>3. Picks(<<>>, T)[0] = <<>>
      BY <3>2, PicksDefined
    <3> QED
      BY <3>1, <3>2, <3>3, PickIsLast DEF Unrepaired
  <2>2. 0 \in 0 .. n
    BY <1>1
  <2> QED
    BY <1>4, <1>6, <2>1, <2>2
<1>8. ASSUME NEW k \in 0 .. n - 1, k \in same PROVE k + 1 \in same
  <2> DEFINE e == s[k + 1]
             r == Result(e.id, "interrupted")
  <2>1. k + 1 \in 1 .. n /\ (k + 1) - 1 = k /\ k \in 0 .. n
    BY <1>1
  <2>2. e \in ProperEvent /\ f[k] \in Seq(ProperEvent)
    BY <1>1, <1>6, <2>1
  <2>3. Unrepaired(f[k]) = P[k]
    BY <1>8
  <2>4. P[k + 1] = IF e.by # "interrupted" THEN Append(P[k], e) ELSE P[k]
    BY <1>4, <2>1
  <2>5. f[k + 1] = f[k] \o Repaired(e, Answered(s))
    BY <1>6, <2>1
  <2>6. Unrepaired(Append(f[k], e)) = P[k + 1]
    <3> HIDE DEF e
    <3>1. Unrepaired(Append(f[k], e)) =
            IF e.by # "interrupted" THEN Append(Unrepaired(f[k]), e) ELSE Unrepaired(f[k])
      BY <2>2, UnrepairedAppend
    <3> QED
      BY <2>3, <2>4, <3>1
  <2>7. CASE e.kind = "call" /\ e.id \notin Answered(s)
    <3>1. r \in ProperEvent /\ r.by = "interrupted"
      BY <2>2, <2>7, EventsProper DEF ProperEvent, Authors, Result
    <3>2. f[k + 1] = f[k] \o <<e, r>>
      BY <2>5, <2>7 DEF Repaired
    <3> HIDE DEF e, r
    <3>3. f[k + 1] = Append(Append(f[k], e), r) /\ Append(f[k], e) \in Seq(ProperEvent)
      BY <2>2, <3>1, <3>2
    <3>4. Unrepaired(f[k + 1]) = Unrepaired(Append(f[k], e))
      BY <3>1, <3>3, UnrepairedAppend
    <3>5. Unrepaired(f[k + 1]) = P[k + 1] /\ k + 1 \in 0 .. n
      BY <2>1, <2>6, <3>4
    <3> QED
      BY <3>5
  <2>8. CASE ~(e.kind = "call" /\ e.id \notin Answered(s))
    <3>1. f[k + 1] = f[k] \o <<e>>
      BY <2>5, <2>8 DEF Repaired
    <3> HIDE DEF e
    <3>2. f[k + 1] = Append(f[k], e)
      BY <2>2, <3>1
    <3>3. Unrepaired(f[k + 1]) = P[k + 1] /\ k + 1 \in 0 .. n
      BY <2>1, <2>6, <3>2
    <3> QED
      BY <3>3
  <2> QED
    BY <2>7, <2>8
<1> HIDE DEF same
<1>9. n \in same
  BY <1>1, <1>7, <1>8, InductionUpTo
<1> QED
  BY <1>4, <1>6, <1>9 DEF same

-----------------------------------------------------------------------------
(* The calls to run, and their plan.                                       *)

\* The positions of the calls of the last turn that have no result.
UnrespondedAt(s) ==
  {i \in Indices(s, "call") : i >= TurnStart(s) /\ s[i].id \notin Answered(s)}

\* Unresponded takes the calls at these positions, and no other.
LEMMA UnrespondedPlaces ==
  ASSUME NEW s \in Seq(ProperEvent)
  PROVE  /\ Unresponded(s) \in Seq(ProperEvent)
         /\ \E place : PlacedAt(place, Unresponded(s), s, UnrespondedAt(s))
<1>1. PICK S : S = UnrespondedAt(s)
  OBVIOUS
<1>2. Unresponded(s) = Pick(s, S)
  BY <1>1 DEF Unresponded, UnrespondedAt
<1>3. Pick(s, S) \in Seq(ProperEvent) /\ IsPlaced(Pick(s, S), s, S)
  BY PickPlaces
<1> QED
  BY <1>1, <1>2, <1>3 DEF IsPlaced

\* Each of them is a call, with an id.
LEMMA UnrespondedCalls ==
  ASSUME NEW s \in Seq(ProperEvent), NEW i \in 1 .. Len(Unresponded(s))
  PROVE  Unresponded(s)[i].kind = "call" /\ Unresponded(s)[i].id \in Calls
<1>1. PICK place : PlacedAt(place, Unresponded(s), s, UnrespondedAt(s))
  BY UnrespondedPlaces
<1>2. PICK j \in 1 .. Len(s) : j \in UnrespondedAt(s) /\ Unresponded(s)[i] = s[j]
  BY <1>1 DEF PlacedAt
<1>3. s[j].kind = "call" /\ s[j] \in ProperEvent
  BY <1>2 DEF UnrespondedAt, Indices
<1> QED
  BY <1>2, <1>3 DEF ProperEvent

Entries == [Calls -> {"none", "approved", "resolved"}]
PlanEntry == [id : Calls, work : {"approved", "resolved", "orphan"}]

\* The plan has an entry for each of them.
LEMMA PlanTyped ==
  ASSUME NEW s \in Seq(ProperEvent), NEW entries \in Entries
  PROVE  PlanFor(s, entries) \in Seq(PlanEntry) /\ Taken(s, entries) \in Entries
<1> DEFINE calls == Unresponded(s)
           first(i) == \A j \in 1 .. i - 1 : calls[j].id # calls[i].id
           work(i) == IF first(i) THEN entries[calls[i].id] ELSE "none"
           entry(i) == [id |-> calls[i].id, work |-> IF work(i) = "none" THEN "orphan" ELSE work(i)]
<1>1. calls \in Seq(ProperEvent)
  BY UnrespondedPlaces
<1>2. ASSUME NEW i \in 1 .. Len(calls) PROVE entry(i) \in PlanEntry
  <2>1. calls[i].id \in Calls
    BY <1>2, UnrespondedCalls
  <2>2. work(i) \in {"none", "approved", "resolved"}
    <3> HIDE DEF first, calls
    <3> QED
      BY <2>1 DEF Entries
  <2> HIDE DEF work, calls
  <2> QED
    BY <2>1, <2>2 DEF PlanEntry
<1>3. PlanFor(s, entries) = [i \in DOMAIN calls |-> entry(i)]
  BY DEF PlanFor
<1>4. PlanFor(s, entries) \in Seq(PlanEntry)
  <2> HIDE DEF calls, entry
  <2>1. DOMAIN calls = 1 .. Len(calls) /\ Len(calls) \in Nat
    BY <1>1
  <2> QED
    BY <1>2, <1>3, <2>1
<1>5. Taken(s, entries) \in Entries
  BY DEF Taken, Entries
<1> QED
  BY <1>4, <1>5

-----------------------------------------------------------------------------
(* Type correctness.                                                       *)

EnvTyped ==
  /\ env \in [chunks : 0 .. MaxChunks, calls : 0 .. MaxCalls, inResponse : 0 .. MaxCalls,
              presses : 0 .. MaxPresses, metadata : 0 .. MaxMetadata]
  /\ env.inResponse <= env.calls

HistTyped == "discarded" \in DOMAIN hist

StreamsTyped ==
  stream \in Seq(ProperEvent) /\ disk \in Seq(ProperEvent) /\ text \in Seq(Chunks)

PlaceTyped ==
  /\ pc \in Places /\ phase \in Phases /\ ending \in Endings
  /\ openCall \in Calls \cup {NoCall}

FlagsTyped ==
  /\ dirty \in BOOLEAN /\ trim \in BOOLEAN /\ restart \in BOOLEAN /\ got \in BOOLEAN
  /\ turnRx \in BOOLEAN /\ innerRx \in BOOLEAN /\ backoffRx \in BOOLEAN
  /\ shutdown \in BOOLEAN

FaultsTyped == faults \in 0 .. MaxFaults

ToolsTyped == pending \in Entries /\ plan \in Seq(PlanEntry)

\* The inductive invariant: TypeOK, and more about the events, the environment
\* and the history.
Typed ==
  /\ StreamsTyped /\ PlaceTyped /\ FlagsTyped /\ FaultsTyped /\ ToolsTyped
  /\ EnvTyped /\ HistTyped

\* At the start.
LEMMA TypedInit == Init => Typed
<1> SUFFICES ASSUME Init PROVE Typed
  OBVIOUS
<1>1. StreamsTyped
  <2>1. Request \in ProperEvent
    BY EventsProper
  <2>2. stream \in {<<>>, <<Request>>, PastTurn} /\ disk = stream /\ text = <<>>
    BY DEF Init
  <2>3. <<>> \in Seq(ProperEvent) /\ <<Request>> \in Seq(ProperEvent)
    BY <2>1
  <2>4. stream \in Seq(ProperEvent)
    BY <2>2, <2>3, PastTurnProper
  <2> QED
    BY <2>2, <2>4 DEF StreamsTyped
<1>2. EnvTyped /\ HistTyped
  BY TurnConstants DEF Init, EnvTyped, HistTyped
<1>3. ToolsTyped
  BY DEF Init, ToolsTyped, Entries
<1>5. PlaceTyped
  BY DEF Init, PlaceTyped, Places, Phases, Endings, NoCall
<1>6. FlagsTyped
  BY DEF Init, FlagsTyped
<1>7. FaultsTyped
  BY TurnConstants DEF Init, FaultsTyped
<1> QED
  BY <1>1, <1>2, <1>3, <1>5, <1>6, <1>7 DEF Typed

\* A scope that is dropped or flushed leaves the disk as it was or writes the
\* conversation it holds.
Written(s) == disk' \in {disk, s} /\ faults' \in faults .. MaxFaults

\* Whatever becomes of a scope, the disk has what was there or what is given.
LEMMA ScopesWrite ==
  ASSUME FaultsTyped, NEW s, NEW unsaved \in BOOLEAN,
         \/ DropScope(s, unsaved) \/ Flushed(s) \/ FlushFails(s) \/ FlushAndDrop(s, unsaved)
         \/ UNCHANGED diskVars
  PROVE  Written(s)
BY TurnConstants
DEF FaultsTyped, Written, DropScope, Flushed, FlushFails, FlushAndDrop, diskVars

\* A write fails at most as often as it may.
LEMMA WritesTyped ==
  ASSUME FaultsTyped, NEW s, Written(s)
  PROVE  FaultsTyped'
BY TurnConstants DEF FaultsTyped, Written

\* Every step writes what it leaves in memory, or nothing.
LEMMA StepWrites ==
  ASSUME Typed, Turn \/ User
  PROVE  Written(stream')
<1> USE DEF Typed, FlagsTyped
<1> DEFINE unsaved == dirty \/ text # <<>>
<1>1. unsaved \in BOOLEAN
  OBVIOUS
<1>2. CASE LoopHead
  BY <1>2, ScopesWrite
  DEF LoopHead, CompleteEarly, NoInterrupt, StartTurn, FinishTurn, OpenRequest, Connected, ConnectFails
<1>3. CASE ProviderEvent
  <2> HIDE DEF unsaved
  <2>1. CASE StreamErrorFatal
    <3>1. FlushAndDrop(stream', unsaved)
      BY <2>1 DEF StreamErrorFatal, unsaved
    <3> QED
      BY <1>1, <3>1, ScopesWrite
  <2>2. CASE RebuildRefused
    BY <2>2, ScopesWrite DEF RebuildRefused
  <2> QED
    BY <1>3, <2>1, <2>2, ScopesWrite
    DEF ProviderEvent, ContentPart, CallPart, FlushText, FlushCall, Quiet, Patch, Finished,
        FinishedRefused, Rebuild, StreamErrorRetried
<1>4. CASE Menu
  BY <1>4, ScopesWrite DEF Menu, KeepGoing, Stop, Abort, ReplyNow, Escalate
<1>5. CASE Tools
  BY <1>5, ScopesWrite
  DEF Tools, StartTools, ToolsCompleted, ToolsStopped, ToolsEscalated, ToolsRestarted,
      ToolInterruptPassed, CommitResponses
<1>6. CASE Decide \/ BackoffElapsed
  BY <1>6, ScopesWrite DEF Decide, BackoffElapsed
<1>7. CASE LeaveStreaming
  BY <1>7, ScopesWrite DEF LeaveStreaming, CycleSaved, CycleLost
<1>8. CASE FutureDropped
  BY <1>8, ScopesWrite DEF FutureDropped
<1>9. CASE User
  BY <1>9, ScopesWrite DEF User, Press, RequestShutdown, Killed
<1> QED
  BY <1>2, <1>3, <1>4, <1>5, <1>6, <1>7, <1>8, <1>9 DEF Turn

\* The phase of a turn that is read on.
LEMMA PhaseAfterTyped == \A s : PhaseAfter(s) \in Phases
BY DEF PhaseAfter, Phases

\* Steps lead from place to place.
LEMMA PlaceStep ==
  ASSUME Typed, Turn \/ User
  PROVE  PlaceTyped'
<1>0. PlaceTyped
  BY DEF Typed
<1> USE DEF PlaceTyped, Places, Phases, Endings, NoCall, builderVars, End
<1>1. CASE LoopHead
  BY <1>0, <1>1
  DEF LoopHead, CompleteEarly, NoInterrupt, StartTurn, FinishTurn, OpenRequest, Connected, ConnectFails
<1>2. CASE ProviderEvent
  <2>1. CASE CallPart
    <3>1. env.inResponse + 1 \in Calls /\ env.calls + 1 \in Calls
      <4>1. env.calls \in 0 .. MaxCalls /\ env.inResponse \in 0 .. MaxCalls
            /\ env.inResponse <= env.calls
        BY DEF Typed, EnvTyped
      <4>2. env.calls < MaxCalls
        BY <2>1 DEF CallPart
      <4> QED
        BY <4>1, <4>2, TurnConstants DEF Calls
    <3>2. NextCallId \in Calls
      BY <3>1 DEF NextCallId
    <3> QED
      BY <1>0, <2>1, <3>2 DEF CallPart
  <2>2. CASE Finished \/ FinishedRefused
    <3>1. phase' \in Phases
      BY <2>2, PhaseAfterTyped DEF Finished, FinishedRefused
    <3> QED
      BY <1>0, <2>2, <3>1 DEF Finished, FinishedRefused, BuilderReset
  <2> QED
    BY <1>0, <1>2, <2>1, <2>2
    DEF ProviderEvent, ContentPart, FlushText, FlushCall, Quiet, Patch, Rebuild,
        RebuildRefused, StreamErrorFatal, StreamErrorRetried, BuilderReset
<1>3. CASE Menu
  BY <1>0, <1>3 DEF Menu, KeepGoing, Stop, Abort, ReplyNow, Escalate, BuilderReset
<1>4. CASE Tools
  BY <1>0, <1>4
  DEF Tools, StartTools, ToolsCompleted, ToolsStopped, ToolsEscalated, ToolsRestarted,
      ToolInterruptPassed, CommitResponses
<1>5. CASE Decide \/ BackoffElapsed \/ LeaveStreaming \/ FutureDropped
  BY <1>0, <1>5 DEF Decide, BackoffElapsed, LeaveStreaming, CycleSaved, CycleLost, FutureDropped
<1>6. CASE User
  BY <1>0, <1>6 DEF User, Press, RequestShutdown, Killed
<1> QED
  BY <1>1, <1>2, <1>3, <1>4, <1>5, <1>6 DEF Turn

\* Flags are set and cleared.
LEMMA FlagsStep ==
  ASSUME Typed, Turn \/ User
  PROVE  FlagsTyped'
<1>0. FlagsTyped
  BY DEF Typed
<1> USE DEF FlagsTyped, rxVars, toolVars, End
<1>1. CASE LoopHead
  BY <1>0, <1>1
  DEF LoopHead, CompleteEarly, NoInterrupt, StartTurn, FinishTurn, OpenRequest, Connected, ConnectFails
<1>2. CASE ProviderEvent
  BY <1>0, <1>2
  DEF ProviderEvent, ContentPart, CallPart, FlushText, FlushCall, Quiet, Patch, Finished,
      FinishedRefused, Rebuild, RebuildRefused, StreamErrorFatal, StreamErrorRetried, Advances
<1>3. CASE Menu
  BY <1>0, <1>3 DEF Menu, KeepGoing, Stop, Abort, ReplyNow, Escalate, MenuTaken
<1>4. CASE Tools
  BY <1>0, <1>4
  DEF Tools, StartTools, ToolsCompleted, ToolsStopped, ToolsEscalated, ToolsRestarted,
      ToolInterruptPassed, CommitResponses
<1>5. CASE Decide \/ BackoffElapsed \/ LeaveStreaming \/ FutureDropped
  BY <1>0, <1>5 DEF Decide, BackoffElapsed, LeaveStreaming, CycleSaved, CycleLost, FutureDropped
<1>6. CASE User
  BY <1>0, <1>6 DEF User, Press, RequestShutdown, Killed
<1> QED
  BY <1>1, <1>2, <1>3, <1>4, <1>5, <1>6 DEF Turn

\* Events are appended, cut off the end or repaired.
LEMMA StreamsStep ==
  ASSUME Typed, Turn \/ User
  PROVE  StreamsTyped'
<1>1. stream \in Seq(ProperEvent) /\ disk \in Seq(ProperEvent) /\ text \in Seq(Chunks)
      /\ stream \o Partial \in Seq(ProperEvent) /\ <<>> \in Seq(Chunks)
  BY PartialCases DEF Typed, StreamsTyped
<1>2. ASSUME stream' \in Seq(ProperEvent), text' \in {text, <<>>} PROVE StreamsTyped'
  <2>1. disk' \in {disk, stream'}
    BY StepWrites DEF Written
  <2> QED
    BY <1>1, <1>2, <2>1 DEF StreamsTyped
<1> USE DEF builderVars, BuilderReset
<1>3. CASE LoopHead
  <2>1. WithRequest(stream) \in Seq(ProperEvent)
    <3>1. Trimmed(stream) \in Seq(ProperEvent) /\ Request \in ProperEvent
      BY <1>1, TrimmedTyped, EventsProper
    <3> QED
      BY <1>1, <3>1 DEF WithRequest
  <2>2. Sanitized(stream) \in Seq(ProperEvent)
    BY <1>1, SanitizedTyped
  <2> QED
    BY <1>1, <1>2, <1>3, <2>1, <2>2
    DEF LoopHead, CompleteEarly, NoInterrupt, StartTurn, FinishTurn, OpenRequest, Connected, ConnectFails
<1>4. CASE ProviderEvent
  <2>1. CASE ContentPart
    <3>1. env.chunks + 1 \in Chunks
      <4>1. env.chunks \in 0 .. MaxChunks
        BY DEF Typed, EnvTyped
      <4>2. env.chunks < MaxChunks
        BY <2>1 DEF ContentPart
      <4> QED
        BY <4>1, <4>2, TurnConstants DEF Chunks
    <3>2. text' \in Seq(Chunks) /\ stream' = stream /\ disk' = disk
      BY <1>1, <2>1, <3>1 DEF ContentPart, diskVars
    <3> QED
      BY <1>1, <3>2 DEF StreamsTyped
  <2>2. CASE FlushCall
    <3>1. openCall \in Calls
      BY <2>2 DEF FlushCall, Typed, PlaceTyped
    <3>2. Append(stream, Call(openCall)) \in Seq(ProperEvent)
      BY <1>1, <3>1, EventsProper
    <3> QED
      BY <1>1, <1>2, <2>2, <3>2 DEF FlushCall
  <2>3. CASE FinishedRefused
    <3>1. PICK m \in 0 .. Len(stream) : WithoutTrailingText(stream) = SubSeq(stream, 1, m)
      BY <1>1, TrailingTextCut
    <3>2. SubSeq(stream, 1, m) \in Seq(ProperEvent)
      BY <1>1
    <3> QED
      BY <1>1, <1>2, <2>3, <3>1, <3>2 DEF FinishedRefused
  <2> QED
    BY <1>1, <1>2, <1>4, <2>1, <2>2, <2>3
    DEF ProviderEvent, CallPart, FlushText, Quiet, Patch, Finished, Rebuild, RebuildRefused,
        StreamErrorFatal, StreamErrorRetried, CommittedPartial
<1>5. CASE Menu
  <2>1. Append(stream \o Partial, Reply) \in Seq(ProperEvent)
    BY <1>1, EventsProper
  <2> QED
    BY <1>1, <1>2, <1>5, <2>1 DEF Menu, KeepGoing, Stop, Abort, ReplyNow, Escalate
<1>6. CASE Tools
  <2>1. CASE ToolsCompleted \/ ToolsStopped \/ ToolsEscalated
    <3>1. stream \o Responses \in Seq(ProperEvent)
      <4>1. plan \in Seq(PlanEntry)
        BY DEF Typed, ToolsTyped
      <4>2. /\ DOMAIN plan = 1 .. Len(plan) /\ Len(plan) \in Nat
            /\ \A i \in 1 .. Len(plan) : plan[i] \in PlanEntry
        BY <4>1
      <4>5. \A i \in 1 .. Len(plan) : plan[i].id \in Calls /\ plan[i].work \in {"approved"} \cup Authors
        <5>1. \A e \in PlanEntry : e.id \in Calls /\ e.work \in {"approved"} \cup Authors
          BY DEF PlanEntry, Authors
        <5> QED
          BY <4>2, <5>1
      <4>3. \A i \in 1 .. Len(plan) :
              Result(plan[i].id, IF plan[i].work = "approved" THEN "executor" ELSE plan[i].work)
                \in ProperEvent
        BY <4>5, EventsProper DEF Authors
      <4>4. Responses \in Seq(ProperEvent)
        BY <4>2, <4>3 DEF Responses
      <4> QED
        BY <1>1, <4>4
    <3> QED
      BY <1>1, <1>2, <2>1, <3>1 DEF ToolsCompleted, ToolsStopped, ToolsEscalated, CommitResponses
  <2> QED
    BY <1>1, <1>2, <1>6, <2>1 DEF Tools, StartTools, ToolsRestarted, ToolInterruptPassed
<1>7. CASE Decide \/ BackoffElapsed \/ LeaveStreaming \/ FutureDropped
  BY <1>1, <1>2, <1>7 DEF Decide, BackoffElapsed, LeaveStreaming, FutureDropped
<1>8. CASE User
  BY <1>1, <1>2, <1>8 DEF User, Press, RequestShutdown, Killed
<1> QED
  BY <1>3, <1>4, <1>5, <1>6, <1>7, <1>8 DEF Turn

\* The plan and the entries that are left.
LEMMA ToolsTypedStep ==
  ASSUME Typed, Turn \/ User
  PROVE  ToolsTyped'
<1>1. pending \in Entries /\ plan \in Seq(PlanEntry) /\ <<>> \in Seq(PlanEntry)
      /\ stream \in Seq(ProperEvent)
  BY DEF Typed, ToolsTyped, StreamsTyped
<1>2. CASE Decide
  <2>1. PICK work \in {"approved", "resolved"} :
          pending' = [pending EXCEPT ![Last(stream).id] = work]
    BY <1>2 DEF Decide
  <2>2. pending' \in Entries
    BY <1>1, <2>1 DEF Entries
  <2>3. plan' = plan
    BY <1>2 DEF Decide
  <2> QED
    BY <1>1, <2>2, <2>3 DEF ToolsTyped
<1>3. CASE StartTools
  <2>1. PICK entries \in Prepared :
          plan' = PlanFor(stream, entries) /\ pending' = Taken(stream, entries)
    BY <1>3 DEF StartTools
  <2>2. entries \in Entries
    BY <1>1, <2>1 DEF Prepared, Entries
  <2> QED
    BY <1>1, <2>1, <2>2, PlanTyped DEF ToolsTyped
<1>4. ASSUME pending' = pending, plan' \in {plan, <<>>} PROVE ToolsTyped'
  BY <1>1, <1>4 DEF ToolsTyped
<1> USE DEF toolVars
<1>5. CASE LoopHead
  BY <1>4, <1>5
  DEF LoopHead, CompleteEarly, NoInterrupt, StartTurn, FinishTurn, OpenRequest, Connected, ConnectFails
<1>6. CASE ProviderEvent
  BY <1>4, <1>6
  DEF ProviderEvent, ContentPart, CallPart, FlushText, FlushCall, Quiet, Patch, Finished,
      FinishedRefused, Rebuild, RebuildRefused, StreamErrorFatal, StreamErrorRetried
<1>7. CASE Menu
  BY <1>4, <1>7 DEF Menu, KeepGoing, Stop, Abort, ReplyNow, Escalate
<1>8. CASE Tools
  BY <1>3, <1>4, <1>8
  DEF Tools, ToolsCompleted, ToolsStopped, ToolsEscalated, ToolsRestarted, ToolInterruptPassed,
      CommitResponses
<1>9. CASE BackoffElapsed \/ LeaveStreaming \/ FutureDropped
  BY <1>4, <1>9 DEF BackoffElapsed, LeaveStreaming, FutureDropped
<1>10. CASE User
  BY <1>4, <1>10 DEF User, Press, RequestShutdown, Killed
<1> QED
  BY <1>2, <1>5, <1>6, <1>7, <1>8, <1>9, <1>10 DEF Turn

\* The history keeps its fields.
LEMMA HistStep ==
  ASSUME Typed, Turn \/ User
  PROVE  HistTyped'
<1>1. HistTyped
  BY DEF Typed
<1> USE DEF HistTyped
<1>2. CASE LoopHead
  BY <1>1, <1>2
  DEF LoopHead, CompleteEarly, NoInterrupt, StartTurn, FinishTurn, OpenRequest, Connected, ConnectFails
<1>3. CASE ProviderEvent
  BY <1>1, <1>3
  DEF ProviderEvent, ContentPart, CallPart, FlushText, FlushCall, Quiet, Patch, Finished, Advances,
      FinishedRefused, Rebuild, RebuildRefused, StreamErrorFatal, StreamErrorRetried
<1>4. CASE Menu
  BY <1>1, <1>4 DEF Menu, KeepGoing, Stop, Abort, ReplyNow, Escalate
<1>5. CASE Tools
  BY <1>1, <1>5
  DEF Tools, StartTools, ToolsCompleted, ToolsStopped, ToolsEscalated, ToolsRestarted,
      ToolInterruptPassed, CommitResponses
<1>6. CASE Decide \/ BackoffElapsed \/ LeaveStreaming \/ FutureDropped \/ User
  BY <1>1, <1>6
  DEF Decide, BackoffElapsed, LeaveStreaming, FutureDropped, User, Press, RequestShutdown, Killed
<1> QED
  BY <1>2, <1>3, <1>4, <1>5, <1>6 DEF Turn

\* What the provider and the user have done is counted within its bounds.
LEMMA EnvStep ==
  ASSUME Typed, Turn \/ User
  PROVE  EnvTyped'
<1>1. EnvTyped
  BY DEF Typed
<1>3. ASSUME env' = env PROVE EnvTyped'
  BY <1>1, <1>3 DEF EnvTyped
<1>4. CASE LoopHead
  <2>1. CASE Connected
    BY <1>1, <2>1, TurnConstants DEF Connected, EnvTyped
  <2> QED
    BY <1>3, <1>4, <2>1
    DEF LoopHead, CompleteEarly, NoInterrupt, StartTurn, FinishTurn, OpenRequest, ConnectFails
<1>5. CASE ProviderEvent
  <2>1. CASE ContentPart
    <3>1. env' = [env EXCEPT !.chunks = env.chunks + 1] /\ env.chunks < MaxChunks
      BY <2>1 DEF ContentPart
    <3>2. env.chunks + 1 \in 0 .. MaxChunks
      <4>1. env.chunks \in 0 .. MaxChunks
        BY <1>1 DEF EnvTyped
      <4> QED
        BY <3>1, <4>1, TurnConstants
    <3> QED
      BY <1>1, <3>1, <3>2 DEF EnvTyped
  <2>2. CASE CallPart
    <3>1. env' = [env EXCEPT !.calls = env.calls + 1, !.inResponse = env.inResponse + 1]
          /\ env.calls < MaxCalls
      BY <2>2 DEF CallPart
    <3>2. /\ env.calls + 1 \in 0 .. MaxCalls /\ env.inResponse + 1 \in 0 .. MaxCalls
          /\ env.inResponse + 1 <= env.calls + 1
      <4>1. env.calls \in 0 .. MaxCalls /\ env.inResponse \in 0 .. MaxCalls
            /\ env.inResponse <= env.calls
        BY <1>1 DEF EnvTyped
      <4> QED
        BY <3>1, <4>1, TurnConstants
    <3> QED
      BY <1>1, <3>1, <3>2 DEF EnvTyped
  <2>3. CASE Patch
    <3>1. env' = [env EXCEPT !.metadata = env.metadata - 1] /\ env.metadata > 0
      BY <2>3 DEF Patch
    <3>2. env.metadata - 1 \in 0 .. MaxMetadata
      <4>1. env.metadata \in 0 .. MaxMetadata
        BY <1>1 DEF EnvTyped
      <4> QED
        BY <3>1, <4>1, TurnConstants
    <3> QED
      BY <1>1, <3>1, <3>2 DEF EnvTyped
  <2> QED
    BY <1>3, <1>5, <2>1, <2>2, <2>3
    DEF ProviderEvent, FlushText, FlushCall, Quiet, Finished,
        FinishedRefused, Rebuild, RebuildRefused, StreamErrorFatal, StreamErrorRetried
<1>6. CASE Menu
  BY <1>3, <1>6 DEF Menu, KeepGoing, Stop, Abort, ReplyNow, Escalate
<1>7. CASE Tools
  BY <1>3, <1>7
  DEF Tools, StartTools, ToolsCompleted, ToolsStopped, ToolsEscalated, ToolsRestarted,
      ToolInterruptPassed, CommitResponses
<1>8. CASE Decide \/ BackoffElapsed \/ LeaveStreaming \/ FutureDropped
  BY <1>3, <1>8 DEF Decide, BackoffElapsed, LeaveStreaming, FutureDropped
<1>9. CASE User
  BY <1>1, <1>9, TurnConstants DEF User, Press, RequestShutdown, Killed, EnvTyped
<1> QED
  BY <1>4, <1>5, <1>6, <1>7, <1>8, <1>9 DEF Turn

\* The invariant is inductive.
LEMMA TypedStep ==
  ASSUME Typed, [Next]_vars
  PROVE  Typed'
<1>1. CASE Turn \/ User
  <2>1. FaultsTyped'
    BY <1>1, StepWrites, WritesTyped DEF Typed
  <2> QED
    BY <1>1, <2>1, StreamsStep, PlaceStep, FlagsStep, ToolsTypedStep, EnvStep, HistStep DEF Typed
<1>2. CASE UNCHANGED vars
  BY <1>2
  DEF vars, Typed, StreamsTyped, PlaceTyped, FlagsTyped, FaultsTyped, ToolsTyped, EnvTyped, HistTyped
<1> QED
  BY <1>1, <1>2 DEF Next, Done

\* So the types hold of every state.
LEMMA TypedAlways == Spec => []Typed
<1>1. Typed /\ [Next]_vars => Typed'
  BY TypedStep
<1> QED
  BY TypedInit, <1>1, PTL DEF Spec

\* The state of a turn stays within its types: what is appended to the
\* conversation is an event, a plan is made of calls of the conversation, the
\* budgets and the faults within their bounds.
THEOREM TypeCorrect == Spec => []TypeOK
<1>1. Typed /\ BudgetInv => TypeOK
  <2> SUFFICES ASSUME Typed, BudgetInv PROVE TypeOK
    OBVIOUS
  <2>1. PlaceTyped /\ FlagsTyped /\ FaultsTyped /\ RetryTyped
    BY DEF Typed, BudgetInv
  <2>2. stream \in Seq(Event) /\ disk \in Seq(Event) /\ text \in Seq(Chunks)
    BY DEF Typed, StreamsTyped, ProperEvent
  <2>3. pending \in [Calls -> {"none", "approved", "resolved"}]
        /\ plan \in Seq([id : Calls, work : {"approved", "resolved", "orphan"}])
    BY DEF Typed, ToolsTyped, Entries, PlanEntry
  <2> QED
    BY <2>1, <2>2, <2>3 DEF TypeOK, PlaceTyped, FlagsTyped, FaultsTyped, RetryTyped
<1> QED
  BY TypedAlways, BudgetAlways, <1>1, PTL

-----------------------------------------------------------------------------
(***************************************************************************)
(* What a conversation is made of, on the screen and on disk: the replay   *)
(* is one step of the disk, and the calls and results of the turn are the  *)
(* promise of ToolDialogue.                                                *)
(***************************************************************************)

(* The ids of a conversation, by kind of event.                            *)

Ids(s, kind) == {s[i].id : i \in Indices(s, kind)}

\* Called and Answered are such sets, and a conversation without a request has
\* no id of one.
LEMMA IdsOf ==
  ASSUME NEW s
  PROVE  /\ Called(s) = Ids(s, "call") /\ Answered(s) = Ids(s, "result")
         /\ \A kind : Ids(s, kind) = {} <=> Indices(s, kind) = {}
BY DEF Called, Answered, Ids

\* An event more.
LEMMA IdsAppend ==
  ASSUME NEW s \in Seq(ProperEvent), NEW e \in ProperEvent, NEW kind
  PROVE  Ids(Append(s, e), kind) = IF e.kind = kind THEN Ids(s, kind) \cup {e.id} ELSE Ids(s, kind)
<1> DEFINE n == Len(s)
<1>1. PICK t : t = Append(s, e)
  OBVIOUS
<1>2. /\ DOMAIN s = 1 .. n /\ DOMAIN t = 1 .. n + 1 /\ n \in Nat /\ t[n + 1] = e
      /\ \A i \in 1 .. n : t[i] = s[i]
  BY <1>1
<1>3. \A i \in 1 .. n + 1 : i = n + 1 \/ i \in 1 .. n
  BY <1>2
<1>4. \A i \in 1 .. n : i \in 1 .. n + 1
  BY <1>2
<1> HIDE DEF n
<1>5. Ids(t, kind) = IF e.kind = kind THEN Ids(s, kind) \cup {e.id} ELSE Ids(s, kind)
  BY <1>2, <1>3, <1>4 DEF Ids, Indices
<1> QED
  BY <1>1, <1>5

\* Some events more.
LEMMA IdsConcat ==
  ASSUME NEW s \in Seq(ProperEvent), NEW r \in Seq(ProperEvent), NEW kind
  PROVE  Ids(s \o r, kind) = Ids(s, kind) \cup Ids(r, kind)
<1>1. PICK t : t = s \o r
  OBVIOUS
<1>2. /\ DOMAIN s = 1 .. Len(s) /\ DOMAIN r = 1 .. Len(r) /\ DOMAIN t = 1 .. Len(s) + Len(r)
      /\ Len(s) \in Nat /\ Len(r) \in Nat
      /\ \A i \in 1 .. Len(s) : t[i] = s[i]
      /\ \A i \in 1 .. Len(r) : t[Len(s) + i] = r[i]
  BY <1>1
<1>3. Ids(t, kind) \subseteq Ids(s, kind) \cup Ids(r, kind)
  <2>1. SUFFICES ASSUME NEW i \in 1 .. Len(s) + Len(r), t[i].kind = kind
                 PROVE  t[i].id \in Ids(s, kind) \cup Ids(r, kind)
    BY <1>2 DEF Ids, Indices
  <2>2. CASE i \in 1 .. Len(s)
    BY <1>2, <2>1, <2>2 DEF Ids, Indices
  <2>3. CASE i \notin 1 .. Len(s)
    <3>1. i - Len(s) \in 1 .. Len(r) /\ Len(s) + (i - Len(s)) = i
      BY <1>2, <2>3
    <3>2. t[i] = r[i - Len(s)]
      BY <1>2, <3>1
    <3> QED
      BY <1>2, <2>1, <3>1, <3>2 DEF Ids, Indices
  <2> QED
    BY <2>2, <2>3
<1>4. Ids(s, kind) \subseteq Ids(t, kind)
  <2>1. \A i \in 1 .. Len(s) : i \in 1 .. Len(s) + Len(r)
    BY <1>2
  <2> QED
    BY <1>2, <2>1 DEF Ids, Indices
<1>5. Ids(r, kind) \subseteq Ids(t, kind)
  <2>1. \A i \in 1 .. Len(r) : Len(s) + i \in 1 .. Len(s) + Len(r)
    BY <1>2
  <2> QED
    BY <1>2, <2>1 DEF Ids, Indices
<1> QED
  BY <1>1, <1>3, <1>4, <1>5

\* What a refusal discards has no other kind than text.
LEMMA IdsCut ==
  ASSUME NEW s \in Seq(ProperEvent), NEW kind, kind # "text"
  PROVE  Ids(WithoutTrailingText(s), kind) = Ids(s, kind)
<1>1. PICK m \in 0 .. Len(s) : /\ WithoutTrailingText(s) = SubSeq(s, 1, m)
                               /\ \A i \in m + 1 .. Len(s) : s[i].kind = "text"
  BY TrailingTextCut
<1>2. PICK t : t = SubSeq(s, 1, m)
  OBVIOUS
<1>3. /\ DOMAIN s = 1 .. Len(s) /\ DOMAIN t = 1 .. m /\ Len(s) \in Nat /\ m \in Nat
      /\ \A i \in 1 .. m : t[i] = s[i] /\ i \in 1 .. Len(s)
  BY <1>2
<1>4. \A i \in 1 .. Len(s) : s[i].kind = kind => i \in 1 .. m
  BY <1>1, <1>3
<1>5. Ids(t, kind) = Ids(s, kind)
  BY <1>3, <1>4 DEF Ids, Indices
<1> QED
  BY <1>1, <1>2, <1>5

\* Repaired, a conversation has a result for each of its calls, and nothing
\* else is new.
LEMMA IdsSanitized ==
  ASSUME NEW s \in Seq(ProperEvent), Answered(s) \subseteq Called(s)
  PROVE  /\ Ids(Sanitized(s), "result") = Ids(s, "call")
         /\ \A kind : kind # "result" => Ids(Sanitized(s), kind) = Ids(s, kind)
<1>1. PICK t : t = Sanitized(s)
  OBVIOUS
<1>2. PICK home : Repairs(home, t, s, Len(s))
  BY <1>1, SanitizedShape DEF IsRepaired
<1>3. t \in Seq(ProperEvent)
  BY <1>1, SanitizedShape
<1>4. DOMAIN s = 1 .. Len(s) /\ DOMAIN t = 1 .. Len(t)
  BY <1>3
<1>5. \A i \in 1 .. Len(s) : home[i] \in 1 .. Len(t) /\ t[home[i]] = s[i]
  BY <1>2 DEF Repairs
<1>6. \A kind : Ids(s, kind) \subseteq Ids(t, kind)
  BY <1>4, <1>5 DEF Ids, Indices
<1>7. ASSUME NEW q \in 1 .. Len(t)
      PROVE  \/ \E i \in 1 .. Len(s) : t[q] = s[i]
             \/ \E i \in 1 .. Len(s) : Dangling(s, i) /\ t[q] = Result(s[i].id, "interrupted")
  BY <1>2 DEF Repairs
<1>8. \A id, by : Result(id, by).kind = "result" /\ Result(id, by).id = id
  BY DEF Result
<1>9. ASSUME NEW kind, kind # "result" PROVE Ids(t, kind) = Ids(s, kind)
  <2>1. SUFFICES ASSUME NEW q \in 1 .. Len(t), t[q].kind = kind PROVE t[q].id \in Ids(s, kind)
    BY <1>4, <1>6 DEF Ids, Indices
  <2>2. PICK i \in 1 .. Len(s) : t[q] = s[i]
    BY <1>7, <1>8, <1>9, <2>1
  <2> QED
    BY <1>4, <2>1, <2>2 DEF Ids, Indices
<1>10. Ids(t, "result") \subseteq Ids(s, "call")
  <2>1. SUFFICES ASSUME NEW q \in 1 .. Len(t), t[q].kind = "result" PROVE t[q].id \in Ids(s, "call")
    BY <1>4 DEF Ids, Indices
  <2>2. CASE \E i \in 1 .. Len(s) : t[q] = s[i]
    <3>1. t[q].id \in Answered(s)
      BY <1>4, <2>1, <2>2 DEF Answered, Indices
    <3> QED
      BY <3>1 DEF Called, Ids
  <2>3. CASE \E i \in 1 .. Len(s) : Dangling(s, i) /\ t[q] = Result(s[i].id, "interrupted")
    BY <1>4, <1>8, <2>3 DEF Dangling, Ids, Indices
  <2> QED
    BY <1>7, <2>2, <2>3
<1>11. Ids(s, "call") \subseteq Ids(t, "result")
  <2>1. SUFFICES ASSUME NEW i \in 1 .. Len(s), s[i].kind = "call" PROVE s[i].id \in Ids(t, "result")
    BY <1>4 DEF Ids, Indices
  <2>2. CASE s[i].id \in Answered(s)
    BY <1>6, <2>2 DEF Answered, Ids
  <2>3. CASE s[i].id \notin Answered(s)
    <3>1. home[i] + 1 \in 1 .. Len(t) /\ t[home[i] + 1] = Result(s[i].id, "interrupted")
      BY <1>2, <2>1, <2>3 DEF Repairs, Dangling
    <3> QED
      BY <1>4, <1>8, <3>1 DEF Ids, Indices
  <2> QED
    BY <2>2, <2>3
<1> QED
  BY <1>1, <1>9, <1>10, <1>11

\* Where a turn starts, with the old one replaced or left.
LEMMA FirstStreams ==
  ASSUME stream \in {<<>>, <<Request>>, PastTurn}
  PROVE  WithRequest(stream) \in
           {<<Request>>, Append(<<Request>>, Request), Append(PastTurn, Request)}
<1>1. Trimmed(<<>>) = <<>>
  BY DEF Trimmed, Indices
<1>2. Trimmed(<<Request>>) = <<>>
  <2>1. Indices(<<Request>>, "request") \cup Indices(<<Request>>, "reply") = {1}
    BY DEF Indices, Request
  <2>2. (CHOOSE i \in {1} : \A j \in {1} : j <= i) = 1
    OBVIOUS
  <2>3. Trimmed(<<Request>>) = SubSeq(<<Request>>, 1, 1 - 1)
    BY <2>1, <2>2 DEF Trimmed
  <2> QED
    BY <2>3
<1>3. Trimmed(PastTurn) = <<>>
  <2>1. Indices(PastTurn, "request") \cup Indices(PastTurn, "reply") = {1}
    BY DEF Indices, Request, PastTurn, Call, Result, Text
  <2>2. (CHOOSE i \in {1} : \A j \in {1} : j <= i) = 1
    OBVIOUS
  <2>3. Trimmed(PastTurn) = SubSeq(PastTurn, 1, 1 - 1)
    BY <2>1, <2>2 DEF Trimmed
  <2> QED
    BY <2>3 DEF PastTurn
<1>4. Append(<<>>, Request) = <<Request>>
  OBVIOUS
<1> QED
  BY <1>1, <1>2, <1>3, <1>4 DEF WithRequest

\* A turn begins, whatever went before, with each call answered.
LEMMA FirstIds ==
  /\ \A s \in {<<>>, <<Request>>, PastTurn} : Called(s) = Answered(s)
  /\ \A s \in {<<Request>>, Append(<<Request>>, Request), Append(PastTurn, Request)} :
       Called(s) = Answered(s) /\ Ids(s, "request") # {}
<1>1. Request.kind = "request" /\ Request \in ProperEvent
  BY EventsProper DEF Request
<1>2. \A kind : Ids(<<>>, kind) = {}
  BY DEF Ids, Indices
<1>3. Ids(<<Request>>, "call") = {} /\ Ids(<<Request>>, "result") = {}
      /\ Ids(<<Request>>, "request") # {}
  BY <1>1 DEF Ids, Indices
<1>4. Ids(PastTurn, "call") = {1} /\ Ids(PastTurn, "result") = {1}
  <2>1. Indices(PastTurn, "call") = {2} /\ Indices(PastTurn, "result") = {3}
    BY DEF Indices, PastTurn, Request, Call, Result, Text
  <2>2. PastTurn[2].id = 1 /\ PastTurn[3].id = 1
    BY DEF PastTurn, Call, Result
  <2> QED
    BY <2>1, <2>2 DEF Ids
<1>5. ASSUME NEW s \in Seq(ProperEvent)
      PROVE  /\ Ids(Append(s, Request), "call") = Ids(s, "call")
             /\ Ids(Append(s, Request), "result") = Ids(s, "result")
             /\ Ids(Append(s, Request), "request") # {}
  <2>1. \A kind : Ids(Append(s, Request), kind) =
          IF Request.kind = kind THEN Ids(s, kind) \cup {Request.id} ELSE Ids(s, kind)
    BY <1>1, IdsAppend
  <2> QED
    BY <1>1, <2>1
<1>6. <<Request>> \in Seq(ProperEvent) /\ PastTurn \in Seq(ProperEvent)
  BY <1>1, PastTurnProper
<1>7. \A s \in {<<>>, <<Request>>, PastTurn} : Ids(s, "call") = Ids(s, "result")
  BY <1>2, <1>3, <1>4
<1>8. \A s \in {<<Request>>, Append(<<Request>>, Request), Append(PastTurn, Request)} :
        Ids(s, "call") = Ids(s, "result") /\ Ids(s, "request") # {}
  BY <1>3, <1>4, <1>5, <1>6
<1> QED
  BY <1>7, <1>8, IdsOf

-----------------------------------------------------------------------------
(* Calls and requests, step by step.                                       *)

\* The steps that add calls, results or the request of the turn.
Adds == FlushCall \/ StartTurn \/ OpenRequest \/ ToolsCompleted \/ ToolsStopped \/ ToolsEscalated

Tracked == {"call", "result", "request"}

\* No other step changes which calls, results and requests there are.
LEMMA IdsKept ==
  ASSUME Typed, Turn \/ User, ~Adds
  PROVE  \A kind \in Tracked : Ids(stream', kind) = Ids(stream, kind)
<1> SUFFICES ASSUME NEW kind \in Tracked PROVE Ids(stream', kind) = Ids(stream, kind)
  OBVIOUS
<1>1. stream \in Seq(ProperEvent) /\ text \in Seq(Chunks)
  BY DEF Typed, StreamsTyped
<1>2. Text(text).kind = "text" /\ Reply.kind = "reply" /\ kind # "text" /\ kind # "reply"
      /\ Text(text) \in ProperEvent /\ Reply \in ProperEvent
  BY <1>1, EventsProper DEF Text, Reply, Tracked
<1>3. /\ stream \o Partial \in Seq(ProperEvent)
      /\ Ids(stream \o Partial, kind) = Ids(stream, kind)
  <2>1. Ids(Append(stream, Text(text)), kind) = Ids(stream, kind)
    BY <1>1, <1>2, IdsAppend
  <2> QED
    BY <1>1, <2>1, PartialCases
<1>4. CASE LoopHead
  BY <1>3, <1>4 DEF LoopHead, CompleteEarly, NoInterrupt, FinishTurn, Connected, ConnectFails, Adds
<1>5. CASE ProviderEvent
  <2>1. Ids(WithoutTrailingText(stream), kind) = Ids(stream, kind)
    BY <1>1, <1>2, IdsCut
  <2> QED
    BY <1>3, <1>5, <2>1
    DEF ProviderEvent, ContentPart, CallPart, FlushText, Quiet, Patch, Finished, FinishedRefused,
        Rebuild, RebuildRefused, StreamErrorFatal, StreamErrorRetried, CommittedPartial, Adds
<1>6. CASE Menu
  <2>1. Ids(Append(stream \o Partial, Reply), kind) = Ids(stream, kind)
    <3>1. PICK s \in Seq(ProperEvent) : s = stream \o Partial
      BY <1>3
    <3>2. Ids(Append(s, Reply), kind) = Ids(s, kind)
      BY <1>2, IdsAppend
    <3> QED
      BY <1>3, <3>1, <3>2
  <2> QED
    BY <1>3, <1>6, <2>1 DEF Menu, KeepGoing, Stop, Abort, ReplyNow, Escalate
<1>7. CASE Tools
  BY <1>7 DEF Tools, StartTools, ToolsRestarted, ToolInterruptPassed, Adds
<1>8. CASE Decide \/ BackoffElapsed \/ LeaveStreaming \/ FutureDropped
  BY <1>8 DEF Decide, BackoffElapsed, LeaveStreaming, FutureDropped
<1>9. CASE User
  BY <1>9 DEF User, Press, RequestShutdown, Killed
<1> QED
  BY <1>4, <1>5, <1>6, <1>7, <1>8, <1>9 DEF Turn

\* A turn that has not begun has the conversation it found.
IdleStart ==
  phase = "Idle" =>
    /\ stream \in {<<>>, <<Request>>, PastTurn} /\ disk = stream
    /\ text = <<>> /\ env.chunks = 0
    /\ pc \in {"top", "dispatch", "done"}

\* Each result, and each entry of the plan, has a call.
CallsKnown ==
  /\ Answered(stream) \subseteq Called(stream)
  /\ pc = "tools" => \A i \in DOMAIN plan : plan[i].id \in Called(stream)

\* The provider is asked when each call has a result.
AllAnswered == pc = "connect" => Called(stream) = Answered(stream)

\* A conversation on disk that has a request has one in memory.
RequestInMemory == Ids(disk, "request") # {} => Ids(stream, "request") # {}

CallInv == IdleStart /\ CallsKnown /\ AllAnswered /\ RequestInMemory

\* The turn starts with every call of the past answered.
LEMMA CallInit == Init => CallInv
<1> SUFFICES ASSUME Init PROVE CallInv
  OBVIOUS
<1>1. IdleStart
  BY DEF Init, IdleStart
<1>2. Called(stream) = Answered(stream) /\ pc = "top" /\ disk = stream
  BY FirstIds DEF Init
<1> QED
  BY <1>1, <1>2 DEF CallInv, CallsKnown, AllAnswered, RequestInMemory

\* The results of a batch are for calls of its plan.
LEMMA ResponsesTyped ==
  ASSUME Typed
  PROVE  /\ Responses \in Seq(ProperEvent)
         /\ Len(Responses) = Len(plan) /\ DOMAIN plan = 1 .. Len(plan)
         /\ \A i \in 1 .. Len(plan) :
              /\ Responses[i].kind = "result" /\ Responses[i].id = plan[i].id
              /\ Responses[i].chunks = <<>> /\ Responses[i].by # "interrupted"
<1>1. plan \in Seq(PlanEntry)
  BY DEF Typed, ToolsTyped
<1>2. /\ DOMAIN plan = 1 .. Len(plan) /\ Len(plan) \in Nat
      /\ \A i \in 1 .. Len(plan) : plan[i] \in PlanEntry
  BY <1>1
<1>3. \A e \in PlanEntry : e.id \in Calls /\ e.work \in {"approved", "resolved", "orphan"}
  BY DEF PlanEntry
<1>4. \A i \in 1 .. Len(plan) :
        Responses[i] = Result(plan[i].id, IF plan[i].work = "approved" THEN "executor" ELSE plan[i].work)
  BY <1>2 DEF Responses
<1>5. ASSUME NEW i \in 1 .. Len(plan)
      PROVE  /\ Responses[i] \in ProperEvent
             /\ Responses[i].kind = "result" /\ Responses[i].id = plan[i].id
             /\ Responses[i].chunks = <<>> /\ Responses[i].by # "interrupted"
  <2>1. PICK by \in {"executor", "resolved", "orphan"} : Responses[i] = Result(plan[i].id, by)
    BY <1>2, <1>3, <1>4
  <2>2. Result(plan[i].id, by) \in ProperEvent
    BY <1>2, <1>3, <2>1, EventsProper DEF Authors
  <2> QED
    BY <2>1, <2>2 DEF Result
<1>6. DOMAIN Responses = 1 .. Len(plan)
  BY <1>2 DEF Responses
<1>7. Responses \in Seq(ProperEvent) /\ Len(Responses) = Len(plan)
  <2>1. Responses = [i \in 1 .. Len(plan) |-> Responses[i]]
    BY <1>2 DEF Responses
  <2>2. PICK f : f = Responses
    OBVIOUS
  <2>3. f = [i \in 1 .. Len(plan) |-> f[i]] /\ \A i \in 1 .. Len(plan) : f[i] \in ProperEvent
    BY <1>5, <2>1, <2>2
  <2>4. f \in Seq(ProperEvent) /\ Len(f) = Len(plan)
    BY <1>2, <2>3
  <2> QED
    BY <2>2, <2>4
<1> QED
  BY <1>2, <1>5, <1>7

\* The entries of a plan are for the unanswered calls, in order.
LEMMA PlanIds ==
  ASSUME NEW s \in Seq(ProperEvent), NEW entries
  PROVE  /\ DOMAIN PlanFor(s, entries) = 1 .. Len(Unresponded(s))
         /\ \A i \in 1 .. Len(Unresponded(s)) : PlanFor(s, entries)[i].id = Unresponded(s)[i].id
<1> DEFINE calls == Unresponded(s)
           first(i) == \A j \in 1 .. i - 1 : calls[j].id # calls[i].id
           work(i) == IF first(i) THEN entries[calls[i].id] ELSE "none"
           entry(i) == [id |-> calls[i].id, work |-> IF work(i) = "none" THEN "orphan" ELSE work(i)]
<1>1. PlanFor(s, entries) = [i \in DOMAIN calls |-> entry(i)]
  BY DEF PlanFor
<1>2. calls \in Seq(ProperEvent)
  BY UnrespondedPlaces
<1>3. \A i : entry(i).id = calls[i].id
  BY DEF entry
<1> HIDE DEF entry, calls
<1>4. DOMAIN calls = 1 .. Len(calls)
  BY <1>2
<1>5. \A i \in 1 .. Len(calls) : PlanFor(s, entries)[i] = entry(i)
  BY <1>1, <1>4
<1>6. \A i \in 1 .. Len(calls) : PlanFor(s, entries)[i].id = calls[i].id
  BY <1>3, <1>5
<1>7. DOMAIN PlanFor(s, entries) = 1 .. Len(calls)
  BY <1>1, <1>4
<1> QED
  BY <1>6, <1>7 DEF calls

\* A plan that is made has entries for calls of the conversation.
LEMMA PlanKnown ==
  ASSUME Typed, StartTools
  PROVE  \A i \in DOMAIN plan' : plan'[i].id \in Called(stream)
<1>1. stream \in Seq(ProperEvent)
  BY DEF Typed, StreamsTyped
<1>2. PICK entries : plan' = PlanFor(stream, entries)
  BY DEF StartTools
<1>3. ASSUME NEW i \in 1 .. Len(Unresponded(stream))
      PROVE  Unresponded(stream)[i].id \in Called(stream)
  <2>1. PICK place : PlacedAt(place, Unresponded(stream), stream, UnrespondedAt(stream))
    BY <1>1, UnrespondedPlaces
  <2>2. PICK j : j \in UnrespondedAt(stream) /\ Unresponded(stream)[i] = stream[j]
    BY <1>3, <2>1 DEF PlacedAt
  <2> QED
    BY <2>2 DEF UnrespondedAt, Called
<1> QED
  BY <1>1, <1>2, <1>3, PlanIds

\* What a batch adds: results, for its plan.
LEMMA CommitIds ==
  ASSUME Typed, CallInv, ToolsCompleted \/ ToolsStopped \/ ToolsEscalated
  PROVE  /\ Ids(stream', "call") = Ids(stream, "call")
         /\ Ids(stream', "request") = Ids(stream, "request")
         /\ Ids(stream, "result") \subseteq Ids(stream', "result")
         /\ Ids(stream', "result") \subseteq Ids(stream, "call")
<1>1. pc = "tools" /\ stream' = stream \o Responses
  BY DEF ToolsCompleted, ToolsStopped, ToolsEscalated, CommitResponses
<1>2. stream \in Seq(ProperEvent) /\ Responses \in Seq(ProperEvent)
  BY ResponsesTyped DEF Typed, StreamsTyped
<1>3. \A kind : Ids(stream', kind) = Ids(stream, kind) \cup Ids(Responses, kind)
  BY <1>1, <1>2, IdsConcat
<1>4. /\ DOMAIN Responses = 1 .. Len(plan) /\ DOMAIN plan = 1 .. Len(plan)
      /\ \A i \in 1 .. Len(plan) : Responses[i].kind = "result" /\ Responses[i].id = plan[i].id
  BY <1>2, ResponsesTyped
<1>5. Ids(Responses, "call") = {} /\ Ids(Responses, "request") = {}
  BY <1>4 DEF Ids, Indices
<1>6. Ids(Responses, "result") \subseteq Ids(stream, "call")
  <2>1. \A i \in 1 .. Len(plan) : plan[i].id \in Ids(stream, "call")
    BY <1>1, <1>4, IdsOf DEF CallInv, CallsKnown
  <2>2. SUFFICES ASSUME NEW i \in 1 .. Len(plan) PROVE Responses[i].id \in Ids(stream, "call")
    BY <1>4 DEF Ids, Indices
  <2> QED
    BY <1>4, <2>1
<1>7. Ids(stream, "result") \subseteq Ids(stream, "call")
  BY IdsOf DEF CallInv, CallsKnown
<1> QED
  BY <1>3, <1>5, <1>6, <1>7

\* A turn that begins.
LEMMA StartIds ==
  ASSUME CallInv, StartTurn
  PROVE  Ids(stream', "call") = Ids(stream', "result") /\ Ids(stream', "request") # {}
<1>1. stream \in {<<>>, <<Request>>, PastTurn} /\ stream' = WithRequest(stream)
  BY DEF CallInv, IdleStart, StartTurn
<1>2. stream' \in {<<Request>>, Append(<<Request>>, Request), Append(PastTurn, Request)}
  BY <1>1, FirstStreams
<1> QED
  BY <1>2, FirstIds, IdsOf

\* A finished call.
LEMMA FlushCallIds ==
  ASSUME Typed, FlushCall
  PROVE  /\ Ids(stream', "call") = Ids(stream, "call") \cup {openCall}
         /\ Ids(stream', "result") = Ids(stream, "result")
         /\ Ids(stream', "request") = Ids(stream, "request")
<1>1. stream \in Seq(ProperEvent) /\ openCall \in Calls
  BY DEF Typed, StreamsTyped, PlaceTyped, FlushCall
<1>2. PICK e \in ProperEvent : e = Call(openCall)
  BY <1>1, EventsProper
<1>3. e.kind = "call" /\ e.id = openCall
  BY <1>2 DEF Call
<1>4. stream' = Append(stream, e)
  BY <1>2 DEF FlushCall
<1>5. \A kind : Ids(stream', kind) =
        IF e.kind = kind THEN Ids(stream, kind) \cup {e.id} ELSE Ids(stream, kind)
  BY <1>1, <1>4, IdsAppend
<1> QED
  BY <1>3, <1>5

\* The invariant is inductive.
LEMMA CallStep ==
  ASSUME Typed, CallInv, Turn \/ User
  PROVE  CallInv'
<1>1. stream \in Seq(ProperEvent)
  BY DEF Typed, StreamsTyped
<1>2. /\ Ids(stream, "result") \subseteq Ids(stream, "call")
      /\ pc = "tools" => \A i \in DOMAIN plan : plan[i].id \in Ids(stream, "call")
      /\ pc = "connect" => Ids(stream, "call") = Ids(stream, "result")
      /\ Ids(disk, "request") # {} => Ids(stream, "request") # {}
  BY IdsOf DEF CallInv, CallsKnown, AllAnswered, RequestInMemory
<1>3. ASSUME /\ Ids(stream', "result") \subseteq Ids(stream', "call")
             /\ pc' = "tools" => \A i \in DOMAIN plan' : plan'[i].id \in Ids(stream', "call")
             /\ pc' = "connect" => Ids(stream', "call") = Ids(stream', "result")
             /\ Ids(stream, "request") # {} => Ids(stream', "request") # {}
      PROVE  CallsKnown' /\ AllAnswered' /\ RequestInMemory'
  <2>1. Called(stream') = Ids(stream', "call") /\ Answered(stream') = Ids(stream', "result")
    BY IdsOf
  <2>2. disk' \in {disk, stream'}
    BY StepWrites DEF Written
  <2> QED
    BY <1>2, <1>3, <2>1, <2>2 DEF CallsKnown, AllAnswered, RequestInMemory
<1>4. CallsKnown' /\ AllAnswered' /\ RequestInMemory'
  <2>1. CASE FlushCall
    <3>1. pc' = "decide"
      BY <2>1 DEF FlushCall
    <3> QED
      BY <1>2, <1>3, <2>1, <3>1, FlushCallIds
  <2>2. CASE StartTurn
    <3>1. pc' = "top"
      BY <2>2 DEF StartTurn
    <3> QED
      BY <1>2, <1>3, <2>2, <3>1, StartIds
  <2>3. CASE OpenRequest
    <3>1. pc' = "connect" /\ stream' = Sanitized(stream)
      BY <2>3 DEF OpenRequest
    <3>2. /\ Ids(stream', "result") = Ids(stream, "call")
          /\ Ids(stream', "call") = Ids(stream, "call")
          /\ Ids(stream', "request") = Ids(stream, "request")
      BY <1>1, <1>2, <3>1, IdsOf, IdsSanitized
    <3> QED
      BY <1>3, <3>1, <3>2
  <2>4. CASE ToolsCompleted \/ ToolsStopped \/ ToolsEscalated
    <3>1. pc' \in {"top", "done"}
      BY <2>4 DEF ToolsCompleted, ToolsStopped, ToolsEscalated, CommitResponses, End
    <3> QED
      BY <1>2, <1>3, <2>4, <3>1, CommitIds
  <2>5. CASE ~Adds
    <3>1. \A kind \in Tracked : Ids(stream', kind) = Ids(stream, kind)
      BY <2>5, IdsKept
    <3>2. pc' = "connect" => pc = "connect"
      BY <2>5
      DEF Turn, User, LoopHead, ProviderEvent, Menu, Tools, CompleteEarly, NoInterrupt, FinishTurn,
          Connected, ConnectFails, ContentPart, CallPart, FlushText, Quiet, Patch, Finished,
          FinishedRefused, Rebuild, RebuildRefused, StreamErrorRetried, StreamErrorFatal, Decide,
          BackoffElapsed, KeepGoing, Stop, Abort, ReplyNow, Escalate, LeaveStreaming, CycleSaved,
          CycleLost, StartTools, ToolsRestarted, ToolInterruptPassed, FutureDropped, Press,
          RequestShutdown, Killed, End, Adds
    <3>3. pc' = "tools" => \A i \in DOMAIN plan' : plan'[i].id \in Ids(stream, "call")
      <4>1. CASE StartTools
        BY <4>1, PlanKnown, IdsOf
      <4>2. CASE ~StartTools
        <5>1. pc' = "tools" => pc = "tools" /\ plan' = plan
          BY <2>5, <4>2
          DEF Turn, User, LoopHead, ProviderEvent, Menu, Tools, CompleteEarly, NoInterrupt, FinishTurn,
              Connected, ConnectFails, ContentPart, CallPart, FlushText, Quiet, Patch, Finished,
              FinishedRefused, Rebuild, RebuildRefused, StreamErrorRetried, StreamErrorFatal, Decide,
              BackoffElapsed, KeepGoing, Stop, Abort, ReplyNow, Escalate, LeaveStreaming, CycleSaved,
              CycleLost, ToolsRestarted, ToolInterruptPassed, FutureDropped, Press,
              RequestShutdown, Killed, End, Adds, toolVars
        <5> QED
          BY <1>2, <5>1
      <4> QED
        BY <4>1, <4>2
    <3> QED
      BY <1>2, <1>3, <3>1, <3>2, <3>3 DEF Tracked
  <2> QED
    BY <2>1, <2>2, <2>3, <2>4, <2>5 DEF Adds
<1>5. IdleStart'
  <2>1. SUFFICES ASSUME phase' = "Idle"
                 PROVE  /\ stream' \in {<<>>, <<Request>>, PastTurn} /\ disk' = stream'
                        /\ text' = <<>> /\ env'.chunks = 0 /\ pc' \in {"top", "dispatch", "done"}
    BY DEF IdleStart
  <2>2. phase = "Idle" => /\ stream \in {<<>>, <<Request>>, PastTurn} /\ disk = stream
                          /\ text = <<>> /\ env.chunks = 0 /\ pc \in {"top", "dispatch", "done"}
    BY DEF CallInv, IdleStart
  <2> USE DEF diskVars, builderVars, End
  <2>3. CASE LoopHead
    BY <2>1, <2>2, <2>3
    DEF LoopHead, CompleteEarly, NoInterrupt, StartTurn, FinishTurn, OpenRequest, Connected, ConnectFails
  <2>4. CASE ProviderEvent
    BY <2>1, <2>2, <2>4
    DEF ProviderEvent, ContentPart, CallPart, FlushText, FlushCall, Quiet, Patch, Finished, PhaseAfter,
        FinishedRefused, Rebuild, RebuildRefused, StreamErrorFatal, StreamErrorRetried
  <2>5. CASE Menu
    BY <2>1, <2>2, <2>5 DEF Menu, MenuOpen, KeepGoing, Stop, Abort, ReplyNow, Escalate
  <2>6. CASE Tools
    BY <2>1, <2>2, <2>6
    DEF Tools, StartTools, ToolsCompleted, ToolsStopped, ToolsEscalated, ToolsRestarted,
        ToolInterruptPassed, CommitResponses
  <2>7. CASE Decide \/ BackoffElapsed \/ LeaveStreaming \/ FutureDropped
    BY <2>1, <2>2, <2>7 DEF Decide, BackoffElapsed, LeaveStreaming, FutureDropped, AtAwait, Executing
  <2>8. CASE User
    <3>1. env' = [env EXCEPT !.presses = env.presses + 1] /\ stream' = stream /\ disk' = disk
          /\ text' = text /\ phase' = phase /\ pc' \in {pc, "done"}
      BY <2>8 DEF User, Press, RequestShutdown, Killed
    <3>2. env'.chunks = env.chunks
      BY <3>1 DEF Typed, EnvTyped
    <3> QED
      BY <2>1, <2>2, <3>1, <3>2
  <2> QED
    BY <2>3, <2>4, <2>5, <2>6, <2>7, <2>8 DEF Turn
<1> QED
  BY <1>4, <1>5 DEF CallInv

\* The calls' invariant holds of every state.
LEMMA CallAlways == Spec => [](Typed /\ BudgetInv /\ CallInv)
<1>1. Typed /\ CallInv /\ [Next]_vars => CallInv'
  <2> SUFFICES ASSUME Typed, CallInv, [Next]_vars PROVE CallInv'
    OBVIOUS
  <2>1. CASE Turn \/ User
    BY <2>1, CallStep
  <2>2. CASE UNCHANGED vars
    BY <2>2 DEF vars, CallInv, IdleStart, CallsKnown, AllAnswered, RequestInMemory
  <2> QED
    BY <2>1, <2>2 DEF Next, Done
<1> QED
  BY TypedAlways, BudgetAlways, CallInit, <1>1, PTL DEF Spec

-----------------------------------------------------------------------------
(* A replay is atomic.                                                     *)

\* No write takes the last request from a conversation on disk: a turn that is
\* replaced goes in the same write in which the request that replaces it comes
\* (start_turn in turn_loop.rs), and nothing else removes one.
THEOREM ReplaysAreAtomic == Spec => ReplayIsAtomic
<1>1. ASSUME Typed, CallInv, [Next]_vars, Indices(disk, "request") # {}
      PROVE  Indices(disk', "request") # {}
  <2>1. Ids(disk, "request") # {} /\ Ids(stream, "request") # {}
    BY <1>1, IdsOf DEF CallInv, RequestInMemory
  <2>2. CASE Turn \/ User
    <3>1. disk' \in {disk, stream'}
      BY <1>1, <2>2, StepWrites DEF Written
    <3>2. Ids(stream', "request") # {}
      <4>1. CASE FlushCall
        BY <1>1, <2>1, <4>1, FlushCallIds
      <4>2. CASE StartTurn
        BY <1>1, <4>2, StartIds
      <4>3. CASE OpenRequest
        <5>1. stream' = Sanitized(stream) /\ stream \in Seq(ProperEvent)
          BY <1>1, <4>3 DEF OpenRequest, Typed, StreamsTyped
        <5>2. Answered(stream) \subseteq Called(stream)
          BY <1>1 DEF CallInv, CallsKnown
        <5> QED
          BY <2>1, <5>1, <5>2, IdsSanitized
      <4>4. CASE ToolsCompleted \/ ToolsStopped \/ ToolsEscalated
        BY <1>1, <2>1, <4>4, CommitIds
      <4>5. CASE ~Adds
        BY <1>1, <2>1, <2>2, <4>5, IdsKept DEF Tracked
      <4> QED
        BY <4>1, <4>2, <4>3, <4>4, <4>5 DEF Adds
    <3> QED
      BY <2>1, <3>1, <3>2, IdsOf
  <2>3. CASE UNCHANGED vars
    BY <1>1, <2>3 DEF vars
  <2> QED
    BY <1>1, <2>2, <2>3 DEF Next, Done
<1>2. Typed /\ CallInv /\ [Next]_vars =>
        [Indices(disk, "request") # {} => Indices(disk', "request") # {}]_vars
  BY <1>1
<1> QED
  BY CallAlways, <1>2, PTL DEF Spec, ReplayIsAtomic

-----------------------------------------------------------------------------
(* The loop implements the dialogue.                                       *)

StateOf(place) ==
  IF place = "done" THEN "over"
  ELSE IF place \in {"poll", "decide"} THEN "listening" ELSE "composing"

\* The calls of a conversation that have no result.
LEMMA OpenIds ==
  ASSUME NEW s \in Seq(ProperEvent)
  PROVE  {id \in Calls : id \in Called(s) \ Answered(s)} = Ids(s, "call") \ Ids(s, "result")
<1>1. Ids(s, "call") \subseteq Calls
  <2>1. \A i \in DOMAIN s : s[i] \in ProperEvent
    OBVIOUS
  <2> QED
    BY <2>1 DEF Ids, Indices, ProperEvent
<1> QED
  BY <1>1, IdsOf

\* Between the states of the dialogue, a step of the loop that opens and
\* settles no call goes as the dialogue does.
LEMMA StateStep ==
  ASSUME BudgetInv, Turn \/ User, ~Adds
  PROVE  \/ StateOf(pc') = StateOf(pc)
         \/ pc = "connect" /\ pc' = "poll"
         \/ StateOf(pc) = "listening" /\ StateOf(pc') = "composing"
         \/ StateOf(pc) # "over" /\ StateOf(pc') = "over"
<1> USE DEF StateOf, End
<1>1. CASE LoopHead
  BY <1>1
  DEF LoopHead, CompleteEarly, NoInterrupt, FinishTurn, Connected, ConnectFails, Adds
<1>2. CASE ProviderEvent
  BY <1>2
  DEF ProviderEvent, ContentPart, CallPart, FlushText, Quiet, Patch, Finished, Adds,
      FinishedRefused, Rebuild, RebuildRefused, StreamErrorFatal, StreamErrorRetried
<1>3. CASE Menu
  BY <1>3 DEF Menu, MenuOpen, KeepGoing, Stop, Abort, ReplyNow, Escalate
<1>4. CASE Tools
  BY <1>4 DEF Tools, StartTools, ToolsRestarted, ToolInterruptPassed, Adds
<1>5. CASE Decide \/ BackoffElapsed \/ LeaveStreaming \/ FutureDropped
  BY <1>5
  DEF Decide, BackoffElapsed, LeaveStreaming, CycleSaved, CycleLost, FutureDropped, AtAwait, Executing
<1>6. CASE User
  BY <1>6 DEF User, Press, RequestShutdown, Killed
<1> QED
  BY <1>1, <1>2, <1>3, <1>4, <1>5, <1>6 DEF Turn

\* What it does to the calls that are open.
LEMMA OpenStep ==
  ASSUME Typed, Typed', CallInv, Turn \/ User
  PROVE  /\ ~Adds => Open' = Open
         /\ FlushCall => Open' = Open \/ Open' = Open \cup {openCall}
         /\ StartTurn \/ OpenRequest => Open' = {}
         /\ ToolsCompleted \/ ToolsStopped \/ ToolsEscalated => Open' \subseteq Open
<1>1. /\ Open = Ids(stream, "call") \ Ids(stream, "result")
      /\ Open' = Ids(stream', "call") \ Ids(stream', "result")
  BY OpenIds DEF Open, Typed, StreamsTyped
<1>2. ~Adds => Open' = Open
  BY <1>1, IdsKept DEF Tracked
<1>3. FlushCall => Open' = Open \/ Open' = Open \cup {openCall}
  BY <1>1, FlushCallIds
<1>4. StartTurn => Open' = {}
  BY <1>1, StartIds
<1>5. OpenRequest => Open' = {}
  <2>1. SUFFICES ASSUME OpenRequest PROVE Open' = {}
    OBVIOUS
  <2>2. stream' = Sanitized(stream) /\ stream \in Seq(ProperEvent)
        /\ Answered(stream) \subseteq Called(stream)
    BY <2>1 DEF OpenRequest, Typed, StreamsTyped, CallInv, CallsKnown
  <2> QED
    BY <1>1, <2>2, IdsSanitized
<1>6. ToolsCompleted \/ ToolsStopped \/ ToolsEscalated => Open' \subseteq Open
  BY <1>1, CommitIds
<1> QED
  BY <1>2, <1>3, <1>4, <1>5, <1>6

\* Every step of the loop is one of the dialogue, or none.
LEMMA DialogueStep ==
  ASSUME Typed, Typed', BudgetInv, CallInv, [Next]_vars
  PROVE  [D!Next]_(D!vars)
<1> DEFINE state == StateOf(pc)
<1>1. CASE UNCHANGED vars
  BY <1>1 DEF vars, Open, D!vars, Called, Answered, Indices
<1>2. CASE Turn \/ User
  <2>1. ASSUME ~Adds PROVE [D!Next]_(D!vars)
    <3>1. Open' = Open
      BY <1>2, <2>1, OpenStep
    <3>2. CASE pc = "connect" /\ pc' = "poll"
      <4>1. Open = {}
        BY <3>2 DEF CallInv, AllAnswered, Open
      <4> QED
        BY <3>1, <3>2, <4>1 DEF D!Next, D!Ask
    <3>3. CASE StateOf(pc') = StateOf(pc)
      BY <3>1, <3>3 DEF StateOf, D!vars
    <3>4. CASE StateOf(pc) = "listening" /\ StateOf(pc') = "composing"
      BY <3>1, <3>4 DEF StateOf, D!Next, D!Heard
    <3>5. CASE StateOf(pc) # "over" /\ StateOf(pc') = "over"
      BY <3>1, <3>5 DEF StateOf, D!Next, D!Finish
    <3> QED
      BY <1>2, <2>1, <3>2, <3>3, <3>4, <3>5, StateStep
  <2>2. ASSUME FlushCall PROVE [D!Next]_(D!vars)
    <3>1. pc = "poll" /\ pc' = "decide" /\ openCall \in Calls
      BY <2>2 DEF FlushCall, Typed, PlaceTyped
    <3>2. Open' = Open \/ Open' = Open \cup {openCall}
      BY <1>2, <2>2, OpenStep
    <3> QED
      BY <3>1, <3>2 DEF D!Next, D!OpenCall, D!vars
  <2>3. ASSUME StartTurn \/ OpenRequest PROVE [D!Next]_(D!vars)
    <3>1. pc = "dispatch" /\ pc' \in {"top", "connect"}
      BY <2>3 DEF StartTurn, OpenRequest
    <3>2. Open' = {}
      BY <1>2, <2>3, OpenStep
    <3> QED
      BY <3>1, <3>2 DEF D!Next, D!Settle
  <2>4. ASSUME ToolsCompleted \/ ToolsStopped \/ ToolsEscalated PROVE [D!Next]_(D!vars)
    <3>1. pc = "tools" /\ pc' \in {"top", "done"}
      BY <2>4 DEF ToolsCompleted, ToolsStopped, ToolsEscalated, CommitResponses, End
    <3>2. Open' \in SUBSET Open
      BY <1>2, <2>4, OpenStep
    <3> QED
      BY <3>1, <3>2 DEF D!Next, D!Settle, D!Finish
  <2> QED
    BY <2>1, <2>2, <2>3, <2>4 DEF Adds
<1> QED
  BY <1>1, <1>2 DEF Next, Done

\* The turn loop implements ToolDialogue, for every number of calls and even
\* where the provider reuses their ids: it only asks the provider when no call
\* is open, opens calls only while it listens and settles them in between
\* (run_turn_loop, sanitize, commit_tool_responses).
THEOREM DialogueImplemented == Spec => ImplementsDialogue
<1>1. Init => D!Init
  <2>1. SUFFICES ASSUME Init PROVE D!Init
    OBVIOUS
  <2>2. Called(stream) = Answered(stream) /\ pc = "top"
    BY <2>1, FirstIds DEF Init
  <2> QED
    BY <2>2 DEF D!Init, Open
<1>2. Typed /\ Typed' /\ BudgetInv /\ CallInv /\ [Next]_vars => [D!Next]_(D!vars)
  BY DialogueStep
<1> QED
  BY CallAlways, <1>1, <1>2, PTL DEF Spec, ImplementsDialogue, D!Spec

-----------------------------------------------------------------------------
(***************************************************************************)
(* What a failing save leaves behind: the next request of a turn repeats   *)
(* nothing that is not on disk.                                            *)
(***************************************************************************)

(* Where the last turn starts.                                             *)

\* At the last request, or at the first event.
LEMMA TurnStartOf ==
  ASSUME NEW s \in Seq(ProperEvent)
  PROVE  \/ Indices(s, "request") = {} /\ TurnStart(s) = 1
         \/ /\ TurnStart(s) \in Indices(s, "request")
            /\ \A j \in Indices(s, "request") : j <= TurnStart(s)
<1> DEFINE asked == Indices(s, "request")
<1>1. asked \in SUBSET (1 .. Len(s)) /\ Len(s) \in Nat
  BY DEF Indices
<1>2. CASE asked = {}
  BY <1>2 DEF TurnStart
<1>3. CASE asked # {}
  <2>1. PICK last : last = CHOOSE i \in asked : \A j \in asked : j <= i
    OBVIOUS
  <2>2. TurnStart(s) = last
    BY <1>3, <2>1 DEF TurnStart
  <2>3. last \in asked /\ \A j \in asked : j <= last
    <3> HIDE DEF asked
    <3> QED
      BY <1>1, <1>3, <2>1, LastOf
  <2> QED
    BY <2>2, <2>3
<1> QED
  BY <1>2, <1>3

\* There is no other such place.
LEMMA TurnStartIs ==
  ASSUME NEW s \in Seq(ProperEvent), NEW k \in Indices(s, "request"),
         \A j \in Indices(s, "request") : j <= k
  PROVE  TurnStart(s) = k
<1>1. \A j \in Indices(s, "request") : j \in Nat
  BY DEF Indices
<1> QED
  BY <1>1, TurnStartOf

\* A request starts a turn.
LEMMA TurnStartAppend ==
  ASSUME NEW s \in Seq(ProperEvent)
  PROVE  /\ Append(s, Request) \in Seq(ProperEvent)
         /\ TurnStart(Append(s, Request)) = Len(s) + 1
         /\ ~UnderWay(Append(s, Request))
<1>1. Request \in ProperEvent /\ Request.kind = "request"
  BY EventsProper DEF Request
<1>2. PICK t \in Seq(ProperEvent) : t = Append(s, Request)
  <2>1. Append(s, Request) \in Seq(ProperEvent)
    BY <1>1
  <2> QED
    BY <2>1
<1>3. DOMAIN t = 1 .. Len(s) + 1 /\ t[Len(s) + 1] = Request /\ Len(s) \in Nat
  BY <1>1, <1>2
<1>4. Len(s) + 1 \in Indices(t, "request") /\ \A j \in Indices(t, "request") : j <= Len(s) + 1
  BY <1>1, <1>3 DEF Indices
<1>5. TurnStart(t) = Len(s) + 1
  BY <1>4, TurnStartIs
<1>6. ~UnderWay(t)
  BY <1>3, <1>5 DEF UnderWay
<1> QED
  BY <1>2, <1>5, <1>6

\* Repaired, a conversation has its last turn where it was.
LEMMA TurnStartHome ==
  ASSUME NEW s \in Seq(ProperEvent), NEW t \in Seq(ProperEvent), s # <<>>,
         NEW home, Repairs(home, t, s, Len(s))
  PROVE  TurnStart(s) \in 1 .. Len(s) /\ TurnStart(t) = home[TurnStart(s)]
<1>1. /\ DOMAIN s = 1 .. Len(s) /\ DOMAIN t = 1 .. Len(t) /\ Len(s) \in Nat /\ Len(t) \in Nat
      /\ 1 \in 1 .. Len(s)
  OBVIOUS
<1>2. \A i \in 1 .. Len(s) : home[i] \in 1 .. Len(t) /\ t[home[i]] = s[i]
  BY DEF Repairs
<1>3. \A i, j \in 1 .. Len(s) : i <= j => home[i] <= home[j]
  <2>1. SUFFICES ASSUME NEW i \in 1 .. Len(s), NEW j \in 1 .. Len(s), i <= j
                 PROVE  home[i] <= home[j]
    OBVIOUS
  <2>2. CASE i = j
    BY <1>1, <1>2, <2>2
  <2>3. CASE i # j
    BY <1>1, <1>2, <2>1, <2>3 DEF Repairs
  <2> QED
    BY <2>2, <2>3
<1>4. ASSUME NEW q \in 1 .. Len(t), t[q].kind = "request"
      PROVE  \E i \in 1 .. Len(s) : q = home[i]
  <2>1. SUFFICES ASSUME NEW i \in 1 .. Len(s), Dangling(s, i), q = home[i] + 1 PROVE FALSE
    BY DEF Repairs
  <2>2. t[q] = Result(s[i].id, "interrupted")
    BY <2>1 DEF Repairs
  <2> QED
    BY <1>4, <2>2 DEF Result
<1>5. CASE Indices(s, "request") = {}
  <2>1. TurnStart(s) = 1
    BY <1>5 DEF TurnStart
  <2>2. \A q \in 1 .. Len(t) : t[q].kind # "request"
    BY <1>1, <1>2, <1>4, <1>5 DEF Indices
  <2>3. TurnStart(t) = 1
    BY <1>1, <2>2 DEF TurnStart, Indices
  <2>4. home[1] = 1
    <3>1. 1 \in 1 .. Len(t)
      BY <1>1, <1>2
    <3>2. PICK i \in 1 .. Len(s) : 1 = home[i] \/ 1 = home[i] + 1
      BY <3>1 DEF Repairs
    <3>3. home[i] \in 1 .. Len(t) /\ home[1] \in 1 .. Len(t) /\ home[1] <= home[i]
      BY <1>1, <1>2, <1>3, <3>2
    <3> QED
      BY <1>1, <3>2, <3>3
  <2> QED
    BY <1>1, <2>1, <2>3, <2>4
<1>6. CASE Indices(s, "request") # {}
  <2>1. PICK k : k = TurnStart(s)
    OBVIOUS
  <2>2. k \in 1 .. Len(s) /\ s[k].kind = "request"
        /\ \A j \in 1 .. Len(s) : s[j].kind = "request" => j <= k
    BY <1>1, <1>6, <2>1, TurnStartOf DEF Indices
  <2>3. home[k] \in Indices(t, "request")
    BY <1>1, <1>2, <2>2 DEF Indices
  <2>4. ASSUME NEW q \in Indices(t, "request") PROVE q <= home[k]
    <3>1. PICK i \in 1 .. Len(s) : q = home[i]
      BY <1>1, <1>4, <2>4 DEF Indices
    <3>2. s[i].kind = "request"
      BY <1>2, <2>4, <3>1 DEF Indices
    <3> QED
      BY <1>3, <2>2, <3>1, <3>2
  <2>5. TurnStart(t) = home[k]
    BY <2>3, <2>4, TurnStartIs
  <2> QED
    BY <2>1, <2>2, <2>5
<1> QED
  BY <1>5, <1>6

\* The results sanitize adds do not put a turn under way.
LEMMA UnderWaySanitized ==
  ASSUME NEW s \in Seq(ProperEvent), Answered(s) \subseteq Called(s), UnderWay(Sanitized(s))
  PROVE  UnderWay(s)
<1>1. PICK t \in Seq(ProperEvent) : t = Sanitized(s)
  BY SanitizedShape
<1>2. PICK home : Repairs(home, t, s, Len(s))
  BY <1>1, SanitizedShape DEF IsRepaired
<1>3. PICK q \in 1 .. Len(t) : q > TurnStart(t) /\ t[q].by # "interrupted"
  BY <1>1 DEF UnderWay
<1>4. PICK i \in 1 .. Len(s) : q = home[i]
  <2>1. SUFFICES ASSUME NEW i \in 1 .. Len(s), Dangling(s, i), q = home[i] + 1 PROVE FALSE
    BY <1>2, <1>3 DEF Repairs
  <2>2. t[q] = Result(s[i].id, "interrupted")
    BY <1>2, <2>1 DEF Repairs
  <2> QED
    BY <1>3, <2>2 DEF Result
<1>5. s # <<>>
  BY <1>4
<1>6. TurnStart(s) \in 1 .. Len(s) /\ TurnStart(t) = home[TurnStart(s)]
  BY <1>2, <1>5, TurnStartHome
<1>7. home[i] \in 1 .. Len(t) /\ home[TurnStart(s)] \in 1 .. Len(t) /\ Len(t) \in Nat /\ Len(s) \in Nat
  BY <1>2, <1>6 DEF Repairs
<1>8. i > TurnStart(s)
  <2>1. SUFFICES ASSUME i <= TurnStart(s) PROVE FALSE
    BY <1>6
  <2>2. home[i] <= home[TurnStart(s)]
    <3>1. CASE i = TurnStart(s)
      BY <1>7, <3>1
    <3>2. CASE i # TurnStart(s)
      <4>1. i < TurnStart(s)
        BY <1>6, <2>1, <3>2
      <4>2. home[i] < home[TurnStart(s)]
        BY <1>2, <1>6, <4>1 DEF Repairs
      <4> QED
        BY <1>7, <4>2
    <3> QED
      BY <3>1, <3>2
  <2> QED
    BY <1>3, <1>4, <1>6, <1>7, <2>2
<1>9. s[i].by # "interrupted"
  BY <1>2, <1>3, <1>4 DEF Repairs
<1> QED
  BY <1>8, <1>9 DEF UnderWay

-----------------------------------------------------------------------------
(* What is on disk.                                                        *)

\* A scope with changes writes them, or a write has failed.
Saves(s) == disk' = s \/ (disk' = disk /\ faults' # 0)

\* A scope with changes writes them, or the write fails.
LEMMA ScopesSave ==
  ASSUME FaultsTyped, NEW s, DropScope(s, TRUE) \/ Flushed(s) \/ FlushFails(s) \/ FlushAndDrop(s, TRUE)
  PROVE  Saves(s)
BY TurnConstants DEF FaultsTyped, Saves, DropScope, Flushed, FlushFails, FlushAndDrop

\* Where the live scope may have changes that are not on disk.
Unsaved == dirty /\ pc \in {"poll", "decide", "backoff", "leave"}

\* Nothing is dropped or flushed when the process is killed.
Cut == ending = "killed"

\* Where no write has failed, the disk has the conversation, except while the
\* live scope has changes, and after a kill.
Saved == faults = 0 => disk = stream \/ Unsaved \/ (pc = "done" /\ Cut)

\* Once a turn is under way, the disk has what sanitize has not added, except
\* while the live scope has changes or once nothing is asked for any more.
Durable ==
  \/ Unrepaired(disk) = Unrepaired(stream)
  \/ ~UnderWay(stream)
  \/ Unsaved
  \/ phase = "Complete"
  \/ pc = "done"

SaveInv == Saved /\ Durable

\* At the start nothing is unsaved.
LEMMA SaveInit == Init => SaveInv
BY DEF Init, SaveInv, Saved, Durable

\* Three ways to keep it: leave both alone, write, or leave the scope changed.
LEMMA NothingWritten ==
  ASSUME SaveInv, stream' = stream, disk' = disk, faults' = faults, phase' = phase,
         Unsaved => Unsaved' \/ (pc' = "done" /\ Cut'),
         pc = "done" => pc' = "done" /\ ending' = ending,
         pc' = "done" /\ pc # "done" => Cut' \/ ~Unsaved
  PROVE  SaveInv'
<1>1. Saved'
  BY DEF SaveInv, Saved, Cut
<1>2. Durable'
  BY DEF SaveInv, Durable
<1> QED
  BY <1>1, <1>2 DEF SaveInv

\* The scope keeps changes that nothing is promised about yet;
LEMMA ChangesUnsaved ==
  ASSUME Unsaved'
  PROVE  SaveInv'
BY DEF SaveInv, Saved, Durable

\* what is in memory is on disk;
LEMMA ChangesSaved ==
  ASSUME disk' = stream'
  PROVE  SaveInv'
BY DEF SaveInv, Saved, Durable

\* the turn ends with it on disk, after a failed write, or cut off.
LEMMA ChangesAtTheEnd ==
  ASSUME disk' = stream' \/ faults' # 0 \/ Cut', pc' = "done"
  PROVE  SaveInv'
BY DEF SaveInv, Saved, Durable

\* The head of the loop: a request that opens a turn may stay in memory alone,
\* one that follows finds the disk as the cycle before left it.
LEMMA SaveLoopHead ==
  ASSUME Typed, CallInv, SaveInv, LoopHead
  PROVE  SaveInv'
<1>1. FaultsTyped /\ stream \in Seq(ProperEvent)
  BY DEF Typed, StreamsTyped
<1>2. ASSUME Saves(stream'), Durable' PROVE SaveInv'
  BY <1>2 DEF Saves, SaveInv, Saved
<1>3. CASE CompleteEarly
  <2>1. Saves(stream') /\ phase' = "Complete"
    BY <1>1, <1>3, ScopesSave DEF CompleteEarly
  <2> QED
    BY <1>2, <2>1 DEF Durable
<1>4. CASE NoInterrupt \/ FinishTurn \/ ConnectFails \/ Connected
  <2>1. /\ stream' = stream /\ disk' = disk /\ faults' = faults /\ phase' = phase
        /\ pc \in {"top", "dispatch", "connect"}
        /\ pc' \in {"dispatch", "done", "poll"}
    BY <1>4 DEF NoInterrupt, FinishTurn, ConnectFails, Connected, End, diskVars
  <2>2. ~Unsaved /\ pc # "done"
    BY <2>1 DEF Unsaved
  <2> QED
    BY <2>1, <2>2, NothingWritten
<1>5. CASE StartTurn
  <2>1. Saves(stream') /\ stream' = Append(IF trim THEN Trimmed(stream) ELSE stream, Request)
    BY <1>1, <1>5, ScopesSave DEF StartTurn, WithRequest
  <2>2. (IF trim THEN Trimmed(stream) ELSE stream) \in Seq(ProperEvent)
    BY <1>1, TrimmedTyped
  <2>3. PICK s \in Seq(ProperEvent) : stream' = Append(s, Request)
    BY <2>1, <2>2
  <2>4. ~UnderWay(stream')
    BY <2>3, TurnStartAppend
  <2> QED
    BY <1>2, <2>1, <2>4 DEF Durable
<1>6. CASE OpenRequest
  <2>1. Saves(stream') /\ stream' = Sanitized(stream) /\ pc = "dispatch" /\ phase = "Streaming"
    BY <1>1, <1>6, ScopesSave DEF OpenRequest
  <2>2. Answered(stream) \subseteq Called(stream)
    BY DEF CallInv, CallsKnown
  <2>3. Unrepaired(stream') = Unrepaired(stream)
    BY <1>1, <2>1, <2>2, UnrepairedSanitized
  <2>4. UnderWay(stream') => UnderWay(stream)
    BY <1>1, <2>1, <2>2, UnderWaySanitized
  <2>5. Unrepaired(disk) = Unrepaired(stream) \/ ~UnderWay(stream)
    BY <2>1 DEF SaveInv, Durable, Unsaved
  <2>6. CASE disk' = stream'
    BY <2>6, ChangesSaved
  <2>7. CASE disk' = disk
    BY <1>2, <2>1, <2>3, <2>4, <2>5, <2>7 DEF Durable
  <2> QED
    BY <2>1, <2>6, <2>7 DEF Saves
<1> QED
  BY <1>3, <1>4, <1>5, <1>6 DEF LoopHead

\* The events of a response change the scope, or nothing.
LEMMA SaveProviderEvent ==
  ASSUME Typed, BudgetInv, SaveInv, ProviderEvent
  PROVE  SaveInv'
<1>1. FaultsTyped /\ stream \in Seq(ProperEvent) /\ text \in Seq(Chunks)
  BY DEF Typed, StreamsTyped
<1>2. CASE \/ ContentPart \/ CallPart \/ FlushText \/ FlushCall \/ Quiet \/ Patch \/ Finished
           \/ FinishedRefused \/ Rebuild
  <2>1. Unsaved'
    BY <1>2
    DEF ContentPart, CallPart, FlushText, FlushCall, Quiet, Patch, Finished, FinishedRefused, Rebuild,
        Unsaved
  <2> QED
    BY <2>1, ChangesUnsaved
<1>3. CASE RebuildRefused
  <2>1. Saves(stream') /\ pc' = "done"
    BY <1>1, <1>3, ScopesSave DEF RebuildRefused, End
  <2> QED
    BY <2>1, ChangesAtTheEnd DEF Saves
<1>4. ASSUME ~(dirty \/ text # <<>>), stream' = stream \o Partial PROVE stream' = stream /\ ~Unsaved
  <2>1. text = <<>>
    BY <1>4
  <2>2. stream \o Partial = stream
    BY <1>1, <2>1, PartialCases DEF Typed, StreamsTyped
  <2> QED
    BY <1>4, <2>2 DEF Unsaved
<1>5. CASE StreamErrorRetried
  <2>1. /\ pc = "poll" /\ phase' = "Streaming" /\ pc' = "backoff" /\ stream' = stream \o Partial
        /\ disk' = disk /\ faults' = faults /\ dirty' = (dirty \/ text # <<>>)
    BY <1>5 DEF StreamErrorRetried, CommittedPartial, diskVars
  <2>2. CASE dirty \/ text # <<>>
    <3>1. Unsaved'
      BY <2>1, <2>2 DEF Unsaved
    <3> QED
      BY <3>1, ChangesUnsaved
  <2>3. CASE ~(dirty \/ text # <<>>)
    <3>1. stream' = stream /\ ~Unsaved
      BY <1>4, <2>1, <2>3
    <3>2. Saved' /\ (Unrepaired(disk') = Unrepaired(stream') \/ ~UnderWay(stream') \/ phase = "Complete")
      BY <2>1, <3>1 DEF SaveInv, Saved, Durable
    <3>3. phase # "Complete"
      BY <2>1 DEF BudgetInv, PhaseAtPlace
    <3> QED
      BY <3>2, <3>3 DEF SaveInv, Durable
  <2> QED
    BY <2>2, <2>3
<1>6. CASE StreamErrorFatal
  <2>1. pc = "poll" /\ pc' = "done" /\ stream' = stream \o Partial
        /\ FlushAndDrop(stream', dirty \/ text # <<>>)
    BY <1>6 DEF StreamErrorFatal, CommittedPartial, End
  <2>2. CASE dirty \/ text # <<>>
    <3>1. FlushAndDrop(stream', TRUE)
      BY <2>1, <2>2 DEF FlushAndDrop
    <3>2. Saves(stream')
      BY <1>1, <3>1, ScopesSave
    <3> QED
      BY <2>1, <3>2, ChangesAtTheEnd DEF Saves
  <2>3. CASE ~(dirty \/ text # <<>>)
    <3>1. stream' = stream /\ ~Unsaved
      BY <1>4, <2>1, <2>3
    <3>2. disk' = disk /\ faults' = faults
      BY <2>1, <2>3 DEF FlushAndDrop, diskVars
    <3>3. disk' = stream' \/ faults' # 0
      BY <2>1, <3>1, <3>2 DEF SaveInv, Saved
    <3> QED
      BY <2>1, <3>3, ChangesAtTheEnd
  <2> QED
    BY <2>2, <2>3
<1> QED
  BY <1>2, <1>3, <1>5, <1>6 DEF ProviderEvent

\* The menu leaves the scope changed, or ends the turn with it dropped.
LEMMA SaveMenu ==
  ASSUME Typed, SaveInv, Menu
  PROVE  SaveInv'
<1>1. FaultsTyped
  BY DEF Typed
<1>2. CASE KeepGoing \/ Stop \/ ReplyNow
  <2>1. Unsaved'
    BY <1>2 DEF KeepGoing, Stop, ReplyNow, Unsaved
  <2> QED
    BY <2>1, ChangesUnsaved
<1>3. CASE Abort \/ Escalate
  <2>1. Saves(stream') /\ pc' = "done"
    BY <1>1, <1>3, ScopesSave DEF Abort, Escalate, End
  <2> QED
    BY <2>1, ChangesAtTheEnd DEF Saves
<1> QED
  BY <1>2, <1>3 DEF Menu

\* Results are flushed before the loop goes on.
LEMMA SaveTools ==
  ASSUME Typed, SaveInv, Tools
  PROVE  SaveInv'
<1>1. FaultsTyped
  BY DEF Typed
<1>2. CASE StartTools \/ ToolsRestarted \/ ToolInterruptPassed
  <2>1. /\ stream' = stream /\ disk' = disk /\ faults' = faults /\ phase' = phase
        /\ pc \in {"dispatch", "tools"} /\ pc' \in {"tools", "top"}
    BY <1>2 DEF StartTools, ToolsRestarted, ToolInterruptPassed, diskVars
  <2>2. ~Unsaved /\ pc # "done"
    BY <2>1 DEF Unsaved
  <2> QED
    BY <2>1, <2>2, NothingWritten
<1>3. CASE ToolsCompleted \/ ToolsStopped \/ ToolsEscalated
  <2>1. disk' = stream' \/ (faults' # 0 /\ pc' = "done")
    <3>1. Flushed(stream') \/ (FlushFails(stream') /\ pc' = "done")
      BY <1>3 DEF ToolsCompleted, ToolsStopped, ToolsEscalated, CommitResponses, End
    <3>2. FlushFails(stream') => Saves(stream')
      BY <1>1, ScopesSave
    <3> QED
      BY <3>1, <3>2 DEF Flushed, Saves
  <2> QED
    BY <2>1, ChangesSaved, ChangesAtTheEnd
<1> QED
  BY <1>2, <1>3 DEF Tools

\* A cycle ends with its changes on disk, or ends the turn.
LEMMA SaveOther ==
  ASSUME Typed, SaveInv, Decide \/ BackoffElapsed \/ LeaveStreaming \/ FutureDropped \/ User
  PROVE  SaveInv'
<1>1. FaultsTyped /\ dirty \in BOOLEAN
  BY DEF Typed, FlagsTyped
<1>2. CASE Decide \/ BackoffElapsed
  <2>1. /\ stream' = stream /\ disk' = disk /\ faults' = faults /\ phase' = phase
        /\ pc \in {"decide", "backoff"} /\ pc' \in {"poll", "leave"} /\ dirty' = dirty
    BY <1>2 DEF Decide, BackoffElapsed, diskVars
  <2>2. Unsaved => Unsaved'
    BY <2>1 DEF Unsaved
  <2> QED
    BY <2>1, <2>2, NothingWritten
<1>3. CASE LeaveStreaming
  <2>1. CASE dirty
    <3>1. stream' = stream /\ (disk' = stream \/ (pc' = "done" /\ FlushFails(stream)))
      BY <1>3, <2>1 DEF LeaveStreaming, CycleSaved, CycleLost, Flushed, End
    <3>2. FlushFails(stream) => Saves(stream)
      BY <1>1, ScopesSave
    <3> QED
      BY <3>1, <3>2, ChangesSaved, ChangesAtTheEnd DEF Saves
  <2>2. CASE ~dirty
    <3>1. /\ stream' = stream /\ disk' = disk /\ faults' = faults /\ phase' = phase
          /\ pc = "leave" /\ pc' = "top"
      BY <1>3, <2>2 DEF LeaveStreaming, CycleSaved, diskVars
    <3>2. ~Unsaved
      BY <2>2 DEF Unsaved
    <3> QED
      BY <3>1, <3>2, NothingWritten
  <2> QED
    BY <2>1, <2>2
<1>4. CASE FutureDropped
  <2>1. pc' = "done" /\ pc # "done" /\ stream' = stream /\ DropScope(stream, dirty)
    BY <1>4 DEF FutureDropped, End, AtAwait, Executing
  <2>2. CASE dirty
    BY <1>1, <2>1, <2>2, ScopesSave, ChangesAtTheEnd DEF Saves
  <2>3. CASE ~dirty
    <3>1. disk' = disk /\ faults' = faults
      BY <1>1, <2>1, <2>3 DEF DropScope, diskVars
    <3>2. disk = stream \/ faults # 0
      BY <2>1, <2>3 DEF SaveInv, Saved, Unsaved
    <3> QED
      BY <2>1, <3>1, <3>2, ChangesAtTheEnd
  <2> QED
    BY <2>2, <2>3
<1>5. CASE User
  <2>1. CASE Killed
    <3>1. pc' = "done" /\ ending' = "killed"
      BY <2>1 DEF Killed, End
    <3> QED
      BY <3>1, ChangesAtTheEnd DEF Cut
  <2>2. CASE Press \/ RequestShutdown
    <3>1. /\ stream' = stream /\ disk' = disk /\ faults' = faults /\ phase' = phase
          /\ pc' = pc /\ dirty' = dirty /\ ending' = ending
      BY <2>2 DEF Press, RequestShutdown, diskVars
    <3>2. Unsaved => Unsaved'
      BY <3>1 DEF Unsaved
    <3> QED
      BY <3>1, <3>2, NothingWritten
  <2> QED
    BY <1>5, <2>1, <2>2 DEF User
<1> QED
  BY <1>2, <1>3, <1>4, <1>5

\* What is promised of the disk holds of every state.
LEMMA SaveAlways == Spec => []SaveInv
<1>1. Typed /\ BudgetInv /\ CallInv /\ SaveInv /\ [Next]_vars => SaveInv'
  <2> SUFFICES ASSUME Typed, BudgetInv, CallInv, SaveInv, [Next]_vars PROVE SaveInv'
    OBVIOUS
  <2>1. CASE Turn
    BY <2>1, SaveLoopHead, SaveProviderEvent, SaveMenu, SaveTools, SaveOther DEF Turn
  <2>2. CASE User
    BY <2>2, SaveOther
  <2>3. CASE UNCHANGED vars
    BY <2>3 DEF vars, SaveInv, Saved, Durable, Unsaved, Cut
  <2> QED
    BY <2>1, <2>2, <2>3 DEF Next, Done
<1> QED
  BY CallAlways, SaveInit, <1>1, PTL DEF Spec

\* The loop does not go on over a write that failed: once a turn is under way,
\* the conversation is on disk when the provider is asked again, whatever
\* writes failed before (run_cycle and commit_tool_responses flush, start_turn
\* only drops its scope).
THEOREM FollowUpsAreDurable == Spec => []FollowUpIsDurable
<1>1. BudgetInv /\ SaveInv => FollowUpIsDurable
  BY DEF BudgetInv, PhaseAtPlace, SaveInv, Durable, Unsaved, FollowUpIsDurable
<1> QED
  BY BudgetAlways, SaveAlways, <1>1, PTL

-----------------------------------------------------------------------------
(* What has been streamed.                                                 *)

\* What of it is in a conversation.
LEMMA ChunksIn ==
  ASSUME NEW s, NEW c
  PROVE  c \in ChunksOf(s) <=> \E i \in DOMAIN s : c \in ToSet(s[i].chunks)
BY DEF ChunksOf

\* An event more, some events more, a repair: nothing is lost.
LEMMA ChunksAppend ==
  ASSUME NEW s \in Seq(ProperEvent), NEW e \in ProperEvent
  PROVE  ChunksOf(s) \subseteq ChunksOf(Append(s, e)) /\ ToSet(e.chunks) \subseteq ChunksOf(Append(s, e))
<1>1. PICK t : t = Append(s, e)
  OBVIOUS
<1>2. /\ DOMAIN s = 1 .. Len(s) /\ DOMAIN t = 1 .. Len(s) + 1 /\ t[Len(s) + 1] = e
      /\ \A i \in 1 .. Len(s) : t[i] = s[i] /\ i \in 1 .. Len(s) + 1
      /\ Len(s) + 1 \in 1 .. Len(s) + 1
  BY <1>1
<1>3. ChunksOf(s) \subseteq ChunksOf(t) /\ ToSet(e.chunks) \subseteq ChunksOf(t)
  BY <1>2, ChunksIn
<1> QED
  BY <1>1, <1>3

\* Content stays when events are appended,
LEMMA ChunksConcat ==
  ASSUME NEW s \in Seq(ProperEvent), NEW r \in Seq(ProperEvent)
  PROVE  ChunksOf(s) \subseteq ChunksOf(s \o r)
<1>1. PICK t : t = s \o r
  OBVIOUS
<1>2. /\ DOMAIN s = 1 .. Len(s) /\ DOMAIN t = 1 .. Len(s) + Len(r)
      /\ \A i \in 1 .. Len(s) : t[i] = s[i] /\ i \in 1 .. Len(s) + Len(r)
  BY <1>1
<1>3. ChunksOf(s) \subseteq ChunksOf(t)
  BY <1>2, ChunksIn
<1> QED
  BY <1>1, <1>3

\* and when the conversation is repaired.
LEMMA ChunksSanitized ==
  ASSUME NEW s \in Seq(ProperEvent), Answered(s) \subseteq Called(s)
  PROVE  ChunksOf(s) \subseteq ChunksOf(Sanitized(s))
<1>1. PICK t \in Seq(ProperEvent) : t = Sanitized(s)
  BY SanitizedShape
<1>2. PICK home : Repairs(home, t, s, Len(s))
  BY <1>1, SanitizedShape DEF IsRepaired
<1>3. /\ DOMAIN s = 1 .. Len(s) /\ DOMAIN t = 1 .. Len(t)
      /\ \A i \in 1 .. Len(s) : home[i] \in 1 .. Len(t) /\ t[home[i]] = s[i]
  BY <1>2 DEF Repairs
<1>4. ChunksOf(s) \subseteq ChunksOf(t)
  BY <1>3, ChunksIn
<1> QED
  BY <1>1, <1>4

\* What has been streamed is in the conversation, still in the builder, or
\* discarded by a refusal.
Accounted == 1 .. env.chunks \subseteq ChunksOf(stream) \cup ToSet(text) \cup hist.discarded

\* How a turn ends that has committed what it holds.
Settled == ending \notin BuilderLost

\* Not in the builder alone once the response is complete.
Committed ==
  phase \in {"Complete", "Executing"} \/ (pc = "done" /\ Settled) =>
    1 .. env.chunks \subseteq ChunksOf(stream) \cup hist.discarded

ContentInv == Accounted /\ Committed

\* The content that is in the builder goes with it into the conversation.
LEMMA PartialChunks ==
  ASSUME Typed
  PROVE  ChunksOf(stream) \cup ToSet(text) \subseteq ChunksOf(stream \o Partial)
<1>1. stream \in Seq(ProperEvent) /\ text \in Seq(Chunks)
  BY DEF Typed, StreamsTyped
<1>2. Text(text) \in ProperEvent /\ Text(text).chunks = text
  BY <1>1, EventsProper DEF Text
<1>3. ToSet(<<>>) = {}
  BY DEF ToSet
<1> QED
  BY <1>1, <1>2, <1>3, PartialCases, ChunksAppend

-----------------------------------------------------------------------------
(***************************************************************************)
(* No content is lost: the inductive invariant ContentInv, step by step.   *)
(***************************************************************************)

\* At the start nothing has been streamed.
LEMMA ContentInit == Init => ContentInv
BY DEF Init, ContentInv, Accounted, Committed

\* Two ways to keep it: lose nothing, or commit what is in the builder.
LEMMA ContentKept ==
  ASSUME ContentInv, env'.chunks = env.chunks, ChunksOf(stream) \subseteq ChunksOf(stream'),
         text' = text, hist'.discarded = hist.discarded,
         phase' \in {"Complete", "Executing"} => phase \in {"Complete", "Executing"},
         pc' = "done" => \/ ~Settled'
                         \/ phase \in {"Complete", "Executing"}
  PROVE  ContentInv'
<1>1. Accounted'
  BY DEF ContentInv, Accounted
<1>2. Committed'
  BY DEF ContentInv, Committed
<1> QED
  BY <1>1, <1>2 DEF ContentInv

\* The second way: the builder's content is in the conversation.
LEMMA ContentCommitted ==
  ASSUME ContentInv, env'.chunks = env.chunks, hist'.discarded = hist.discarded,
         ChunksOf(stream) \cup ToSet(text) \subseteq ChunksOf(stream')
  PROVE  ContentInv'
BY DEF ContentInv, Accounted, Committed

\* The head of the loop.
LEMMA ContentLoopHead ==
  ASSUME Typed, CallInv, ContentInv, LoopHead
  PROVE  ContentInv'
<1>1. stream \in Seq(ProperEvent)
  BY DEF Typed, StreamsTyped
<1>2. CASE CompleteEarly
  BY <1>2, PartialChunks, ContentCommitted DEF CompleteEarly
<1>3. CASE NoInterrupt \/ FinishTurn \/ ConnectFails
  BY <1>3, ContentKept DEF NoInterrupt, FinishTurn, ConnectFails, End, builderVars, Settled, BuilderLost
<1>4. CASE Connected
  <2>1. env'.chunks = env.chunks /\ hist'.discarded = hist.discarded
    BY <1>4 DEF Connected, Typed, EnvTyped, HistTyped
  <2> QED
    BY <1>4, <2>1, ContentKept DEF Connected, builderVars
<1>5. CASE StartTurn
  <2>1. env'.chunks = 0
    BY <1>5 DEF StartTurn, CallInv, IdleStart
  <2> QED
    BY <2>1 DEF ContentInv, Accounted, Committed
<1>6. CASE OpenRequest
  <2>1. ChunksOf(stream) \subseteq ChunksOf(stream')
    BY <1>1, <1>6, ChunksSanitized DEF OpenRequest, CallInv, CallsKnown
  <2> QED
    BY <1>6, <2>1, ContentKept DEF OpenRequest, builderVars
<1> QED
  BY <1>2, <1>3, <1>4, <1>5, <1>6 DEF LoopHead

\* The events of a response: content goes to the builder, from there to the
\* conversation, and what a refusal discards is told.
LEMMA ContentProviderEvent ==
  ASSUME Typed, BudgetInv, ContentInv, ProviderEvent
  PROVE  ContentInv'
<1>0. pc = "poll"
  BY DEF ProviderEvent, ContentPart, CallPart, FlushText, FlushCall, Quiet, Patch, Finished,
         FinishedRefused, Rebuild, RebuildRefused, StreamErrorRetried, StreamErrorFatal
<1>1. stream \in Seq(ProperEvent) /\ text \in Seq(Chunks) /\ env.chunks \in Nat /\ phase = "Streaming"
  <2>1. env.chunks \in Nat
    BY TurnConstants DEF Typed, EnvTyped
  <2> QED
    BY <1>0, <2>1 DEF Typed, StreamsTyped, BudgetInv, PhaseAtPlace
<1>2. CASE ContentPart
  <2>1. env'.chunks = env.chunks + 1 /\ text' = Append(text, env.chunks + 1)
    BY <1>2 DEF ContentPart, Typed, EnvTyped
  <2>2. hist'.discarded = hist.discarded /\ stream' = stream /\ phase' = phase /\ pc' = "poll"
    BY <1>2 DEF ContentPart, Advances, Typed, HistTyped
  <2>3. ToSet(text) \cup {env.chunks + 1} \subseteq ToSet(text')
    <3>1. PICK t : t = Append(text, env.chunks + 1)
      OBVIOUS
    <3>2. /\ DOMAIN text = 1 .. Len(text) /\ DOMAIN t = 1 .. Len(text) + 1
          /\ t[Len(text) + 1] = env.chunks + 1
          /\ \A i \in 1 .. Len(text) : t[i] = text[i] /\ i \in 1 .. Len(text) + 1
          /\ Len(text) + 1 \in 1 .. Len(text) + 1
      BY <1>1, <3>1
    <3> QED
      BY <2>1, <3>1, <3>2 DEF ToSet
  <2>4. 1 .. env.chunks + 1 = (1 .. env.chunks) \cup {env.chunks + 1}
    BY <1>1
  <2>5. Accounted'
    <3>1. 1 .. env.chunks \subseteq ChunksOf(stream) \cup ToSet(text) \cup hist.discarded
      BY DEF ContentInv, Accounted
    <3>2. 1 .. env'.chunks \subseteq ChunksOf(stream) \cup ToSet(text') \cup hist.discarded
      BY <2>1, <2>3, <2>4, <3>1
    <3> QED
      BY <2>2, <3>2 DEF Accounted
  <2>6. Committed'
    BY <1>1, <2>2 DEF Committed
  <2> QED
    BY <2>5, <2>6 DEF ContentInv
<1>3. CASE CallPart
  <2>1. env'.chunks = env.chunks /\ hist'.discarded = hist.discarded
    BY <1>3 DEF CallPart, Advances, Typed, EnvTyped, HistTyped
  <2> QED
    BY <1>3, <2>1, ContentKept DEF CallPart
<1>4. CASE FlushText \/ RebuildRefused \/ StreamErrorFatal \/ StreamErrorRetried
  BY <1>4, PartialChunks, ContentCommitted
  DEF FlushText, RebuildRefused, StreamErrorFatal, StreamErrorRetried, CommittedPartial
<1>5. CASE Finished
  <2>1. hist'.discarded = hist.discarded
    BY <1>5 DEF Finished, Advances, Typed, HistTyped
  <2> QED
    BY <1>5, <2>1, PartialChunks, ContentCommitted DEF Finished
<1>6. CASE FinishedRefused
  <2>1. hist'.discarded = hist.discarded \cup ToSet(text) \cup (ChunksOf(stream) \ ChunksOf(stream'))
        /\ env' = env
    BY <1>6 DEF FinishedRefused, Typed, HistTyped
  <2>2. 1 .. env.chunks \subseteq ChunksOf(stream) \cup ToSet(text) \cup hist.discarded
    BY DEF ContentInv, Accounted
  <2>3. 1 .. env.chunks \subseteq ChunksOf(stream') \cup hist'.discarded
    BY <2>1, <2>2
  <2> QED
    BY <2>1, <2>3 DEF ContentInv, Accounted, Committed
<1>7. CASE FlushCall
  <2>1. ChunksOf(stream) \subseteq ChunksOf(stream')
    <3>1. Call(openCall) \in ProperEvent
      BY <1>7, EventsProper DEF FlushCall, Typed, PlaceTyped
    <3> QED
      BY <1>1, <1>7, <3>1, ChunksAppend DEF FlushCall
  <2> QED
    BY <1>7, <2>1, ContentKept DEF FlushCall
<1>8. CASE Quiet \/ Rebuild
  BY <1>8, ContentKept DEF Quiet, Rebuild, builderVars
<1>9. CASE Patch
  <2>1. env'.chunks = env.chunks
    BY <1>9 DEF Patch, Typed, EnvTyped
  <2> QED
    BY <1>9, <2>1, ContentKept DEF Patch, builderVars
<1> QED
  BY <1>2, <1>3, <1>4, <1>5, <1>6, <1>7, <1>8, <1>9 DEF ProviderEvent

\* The menu commits what there is before it stops, escalates or replies.
LEMMA ContentMenu ==
  ASSUME Typed, BudgetInv, ContentInv, Menu
  PROVE  ContentInv'
<1>1. stream \in Seq(ProperEvent) /\ stream \o Partial \in Seq(ProperEvent) /\ phase = "Streaming"
  BY PartialCases
  DEF Typed, StreamsTyped, BudgetInv, PhaseAtPlace, Menu, KeepGoing, Stop, Abort, ReplyNow, Escalate,
      MenuOpen
<1>2. ChunksOf(stream) \subseteq ChunksOf(stream \o Partial)
  BY PartialChunks
<1>3. CASE KeepGoing
  <2>1. hist'.discarded = hist.discarded
    BY <1>3 DEF KeepGoing, Typed, HistTyped
  <2> QED
    BY <1>2, <1>3, <2>1, ContentKept DEF KeepGoing, builderVars
<1>4. CASE Stop \/ Escalate
  BY <1>4, PartialChunks, ContentCommitted DEF Stop, Escalate
<1>5. CASE Abort
  BY <1>5, ContentKept DEF Abort, End, Settled, BuilderLost, builderVars
<1>6. CASE ReplyNow
  <2>1. hist'.discarded = hist.discarded
    BY <1>6 DEF ReplyNow, Typed, HistTyped
  <2>2. ChunksOf(stream \o Partial) \subseteq ChunksOf(stream')
    <3>1. PICK s \in Seq(ProperEvent) : s = stream \o Partial
      BY <1>1
    <3>2. ChunksOf(s) \subseteq ChunksOf(Append(s, Reply))
      BY EventsProper, ChunksAppend
    <3> QED
      BY <1>6, <3>1, <3>2 DEF ReplyNow
  <2>3. ChunksOf(stream) \cup ToSet(text) \subseteq ChunksOf(stream')
    BY <2>2, PartialChunks
  <2> QED
    BY <1>6, <2>1, <2>3, ContentCommitted DEF ReplyNow
<1> QED
  BY <1>3, <1>4, <1>5, <1>6 DEF Menu

\* No other step touches content.
LEMMA ContentOther ==
  ASSUME Typed, BudgetInv, ContentInv,
         Tools \/ Decide \/ BackoffElapsed \/ LeaveStreaming \/ FutureDropped \/ User
  PROVE  ContentInv'
<1>1. stream \in Seq(ProperEvent) /\ Responses \in Seq(ProperEvent)
  BY ResponsesTyped DEF Typed, StreamsTyped
<1>2. CASE ToolsCompleted \/ ToolsStopped \/ ToolsEscalated
  <2>1. /\ stream' = stream \o Responses /\ phase' = "Streaming" /\ phase = "Executing"
        /\ text' = text /\ env' = env /\ hist' = hist
    BY <1>2
    DEF ToolsCompleted, ToolsStopped, ToolsEscalated, CommitResponses, builderVars, BudgetInv, PhaseAtPlace
  <2>2. ChunksOf(stream) \subseteq ChunksOf(stream')
    BY <1>1, <2>1, ChunksConcat
  <2> QED
    BY <2>1, <2>2, ContentKept
<1>3. CASE StartTools \/ ToolsRestarted \/ ToolInterruptPassed
  BY <1>3, ContentKept DEF StartTools, ToolsRestarted, ToolInterruptPassed, builderVars
<1>4. CASE Decide \/ BackoffElapsed
  BY <1>4, ContentKept DEF Decide, BackoffElapsed, builderVars
<1>5. CASE LeaveStreaming
  <2>1. pc' = "done" => ~Settled'
    BY <1>5 DEF LeaveStreaming, CycleSaved, CycleLost, End, Settled, BuilderLost
  <2> QED
    BY <1>5, <2>1, ContentKept DEF LeaveStreaming, builderVars
<1>6. CASE FutureDropped
  BY <1>6, ContentKept DEF FutureDropped, End, Settled, BuilderLost, builderVars
<1>7. CASE User
  <2>1. /\ stream' = stream /\ text' = text /\ hist' = hist /\ phase' = phase
        /\ pc' = "done" => ~Settled'
    BY <1>7 DEF User, Press, RequestShutdown, Killed, End, Settled, BuilderLost, builderVars
  <2>2. env'.chunks = env.chunks
    BY <1>7 DEF User, Press, RequestShutdown, Killed, Typed, EnvTyped
  <2> QED
    BY <2>1, <2>2, ContentKept
<1> QED
  BY <1>2, <1>3, <1>4, <1>5, <1>6, <1>7 DEF Tools

\* No content is lost in any state.
LEMMA ContentAlways == Spec => []ContentInv
<1>1. Typed /\ BudgetInv /\ CallInv /\ ContentInv /\ [Next]_vars => ContentInv'
  <2> SUFFICES ASSUME Typed, BudgetInv, CallInv, ContentInv, [Next]_vars PROVE ContentInv'
    OBVIOUS
  <2>1. CASE Turn
    BY <2>1, ContentLoopHead, ContentProviderEvent, ContentMenu, ContentOther DEF Turn
  <2>2. CASE User
    BY <2>2, ContentOther
  <2>3. CASE UNCHANGED vars
    BY <2>3 DEF vars, ContentInv, Accounted, Committed, Settled
  <2> QED
    BY <2>1, <2>2, <2>3 DEF Next, Done
<1> QED
  BY CallAlways, ContentInit, <1>1, PTL DEF Spec

\* While nothing has interrupted the turn, no handler is notified.
NoRx == ~turnRx /\ ~innerRx /\ ~backoffRx

\* Only the user presses.
LEMMA PressesStep ==
  ASSUME Typed, Turn \/ User
  PROVE  /\ env.presses \in Nat
         /\ Turn => env'.presses = env.presses
         /\ User => env'.presses = env.presses + 1
<1>0. env \in [chunks : 0 .. MaxChunks, calls : 0 .. MaxCalls, inResponse : 0 .. MaxCalls,
               presses : 0 .. MaxPresses, metadata : 0 .. MaxMetadata]
      /\ env.presses \in Nat
  BY TurnConstants DEF Typed, EnvTyped
<1>1. ASSUME User PROVE env'.presses = env.presses + 1
  <2>1. env' = [env EXCEPT !.presses = env.presses + 1]
    BY <1>1 DEF User, Press, RequestShutdown, Killed
  <2> QED
    BY <1>0, <2>1
<1>2. ASSUME Turn PROVE env'.presses = env.presses
  <2>1. \/ env' = env
        \/ env' = [env EXCEPT !.inResponse = 0]
        \/ env' = [env EXCEPT !.chunks = env.chunks + 1]
        \/ env' = [env EXCEPT !.calls = env.calls + 1, !.inResponse = env.inResponse + 1]
        \/ env' = [env EXCEPT !.metadata = env.metadata - 1]
    BY <1>2
    DEF Turn, LoopHead, ProviderEvent, Menu, Tools, CompleteEarly, NoInterrupt, FinishTurn,
        StartTurn, OpenRequest, FlushCall, ToolsCompleted, ToolsStopped, ToolsEscalated, CommitResponses,
        Connected, ConnectFails, ContentPart, CallPart, FlushText, Quiet, Patch, Finished,
        FinishedRefused, Rebuild, RebuildRefused, StreamErrorRetried, StreamErrorFatal, Decide,
        BackoffElapsed, KeepGoing, Stop, Abort, ReplyNow, Escalate, LeaveStreaming,
        StartTools, ToolsRestarted, ToolInterruptPassed, FutureDropped
  <2> QED
    BY <1>0, <2>1
<1> QED
  BY <1>0, <1>1, <1>2

\* Without a notification no handler acts, and none gets one but by a press.
LEMMA NoRxStep ==
  ASSUME Typed, NoRx, Turn
  PROVE  /\ ~CompleteEarly /\ ~Menu
         /\ ~ToolsStopped /\ ~ToolsEscalated /\ ~ToolsRestarted /\ ~ToolInterruptPassed
         /\ NoRx'
<1>1. /\ ~CompleteEarly /\ ~Menu
      /\ ~ToolsStopped /\ ~ToolsEscalated /\ ~ToolsRestarted /\ ~ToolInterruptPassed
  BY DEF NoRx, CompleteEarly, Menu, KeepGoing, Stop, Abort, ReplyNow, Escalate, MenuOpen,
      ToolsStopped, ToolsEscalated, ToolsRestarted, ToolInterruptPassed
<1>2. NoRx'
  <2>0. turnRx = FALSE /\ innerRx = FALSE /\ backoffRx = FALSE
    BY DEF NoRx, Typed, FlagsTyped
  <2> SUFFICES turnRx' = FALSE /\ innerRx' = FALSE /\ backoffRx' = FALSE
    BY DEF NoRx
  <2> USE <1>1, <2>0 DEF End, rxVars
  <2>1. CASE LoopHead
    BY <2>1 DEF LoopHead, NoInterrupt, FinishTurn, StartTurn, OpenRequest, Connected, ConnectFails
  <2>2. CASE ProviderEvent
    BY <2>2
    DEF ProviderEvent, ContentPart, CallPart, FlushText, FlushCall, Quiet, Patch, Finished,
        FinishedRefused, Rebuild, RebuildRefused, StreamErrorRetried, StreamErrorFatal
  <2>3. CASE Tools
    BY <2>3 DEF Tools, StartTools, ToolsCompleted, CommitResponses
  <2>4. CASE Decide \/ BackoffElapsed \/ LeaveStreaming \/ FutureDropped
    BY <2>4 DEF Decide, BackoffElapsed, LeaveStreaming, CycleSaved, CycleLost, FutureDropped
  <2> QED
    BY <2>1, <2>2, <2>3, <2>4 DEF Turn
<1> QED
  BY <1>1, <1>2

\* Without an interrupt the phase is only complete when the cycle's scope has
\* changes still to be flushed, or has been.
Flushing ==
  /\ phase = "Complete" /\ pc = "leave" => dirty
  /\ phase = "Complete" /\ pc \in {"top", "dispatch"} => disk = stream
  /\ pc = "done" /\ ending = "complete" => disk = stream

EndInv ==
  /\ pc = "done" => ending # "no"
  /\ env.presses = 0 => NoRx /\ Flushing

LEMMA EndInit == Init => EndInv
BY DEF Init, EndInv, NoRx, Flushing

\* A turn that nobody interrupts completes over a flush that succeeded.
LEMMA FlushingStep ==
  ASSUME Typed, BudgetInv, NoRx, Flushing, Turn
  PROVE  Flushing'
<1>1. /\ ~CompleteEarly /\ ~Menu
      /\ ~ToolsStopped /\ ~ToolsEscalated /\ ~ToolsRestarted /\ ~ToolInterruptPassed
  BY NoRxStep
<1>2. CASE Finished \/ FinishedRefused
  BY <1>2 DEF Finished, FinishedRefused, Flushing
<1>3. CASE FinishTurn \/ NoInterrupt
  BY <1>3 DEF FinishTurn, NoInterrupt, End, Flushing, diskVars
<1>4. CASE LeaveStreaming
  BY <1>4 DEF LeaveStreaming, CycleSaved, CycleLost, Flushed, End, Flushing, diskVars
<1>5. CASE \/ ProviderEvent /\ ~Finished /\ ~FinishedRefused
           \/ Decide \/ BackoffElapsed \/ FutureDropped \/ OpenRequest \/ StartTurn
           \/ Connected \/ ConnectFails \/ ToolsCompleted \/ StartTools
  <2>1. phase' # "Complete" \/ pc' \notin {"top", "dispatch", "leave"}
    BY <1>5
    DEF ProviderEvent, ContentPart, CallPart, FlushText, FlushCall, Quiet, Patch, Rebuild, RebuildRefused,
        StreamErrorRetried, StreamErrorFatal, Decide, BackoffElapsed, FutureDropped, OpenRequest,
        StartTurn, Connected, ConnectFails, ToolsCompleted, StartTools, CommitResponses, End,
        BudgetInv, PhaseAtPlace
  <2>2. ~(pc' = "done" /\ ending' = "complete")
    BY <1>5
    DEF ProviderEvent, ContentPart, CallPart, FlushText, FlushCall, Quiet, Patch, Rebuild, RebuildRefused,
        StreamErrorRetried, StreamErrorFatal, Decide, BackoffElapsed, FutureDropped, OpenRequest,
        StartTurn, Connected, ConnectFails, ToolsCompleted, StartTools, CommitResponses, End
  <2> QED
    BY <2>1, <2>2 DEF Flushing
<1> QED
  BY <1>1, <1>2, <1>3, <1>4, <1>5 DEF Turn, LoopHead, Tools

\* The end of a turn, in every state.
LEMMA EndAlways == Spec => []EndInv
<1>1. Typed /\ BudgetInv /\ EndInv /\ [Next]_vars => EndInv'
  <2> SUFFICES ASSUME Typed, BudgetInv, EndInv, [Next]_vars PROVE EndInv'
    OBVIOUS
  <2>1. CASE Turn \/ User
    <3>1. pc' = "done" => ending' # "no"
      BY <2>1
      DEF Turn, User, LoopHead, ProviderEvent, Menu, Tools, CompleteEarly, NoInterrupt,
          FinishTurn, StartTurn, OpenRequest, FlushCall, ToolsCompleted, ToolsStopped, ToolsEscalated,
          CommitResponses, Connected, ConnectFails, ContentPart, CallPart, FlushText, Quiet, Patch,
          Finished, FinishedRefused, Rebuild, RebuildRefused, StreamErrorRetried, StreamErrorFatal,
          Decide, BackoffElapsed, KeepGoing, Stop, Abort, ReplyNow, Escalate, LeaveStreaming,
          CycleSaved, CycleLost, StartTools, ToolsRestarted, ToolInterruptPassed, FutureDropped,
          Press, RequestShutdown, Killed, End
    <3>2. ASSUME env'.presses = 0 PROVE NoRx' /\ Flushing'
      <4>1. Turn /\ env.presses = 0
        BY <2>1, <3>2, PressesStep
      <4> QED
        BY <4>1, NoRxStep, FlushingStep DEF EndInv
    <3> QED
      BY <3>1, <3>2 DEF EndInv
  <2>2. CASE UNCHANGED vars
    BY <2>2 DEF vars, EndInv, NoRx, Flushing
  <2> QED
    BY <2>1, <2>2 DEF Next, Done
<1> QED
  BY CallAlways, EndInit, <1>1, PTL DEF Spec

\* Whatever fails, is rebuilt, interrupted, cancelled or dropped, what was
\* streamed is in the conversation, in the builder or refused; no retry, menu
\* choice or batch of tools loses the builder's buffer, and what is only there
\* is given up by five ways to end a turn, and by no other
\* (commit_partial_response, peek_partial_events).  The conversation is on disk
\* at the end, unless the process was killed or a write failed, and that no
\* failed write excuses the end of a turn that nobody interrupted.
THEOREM ContentAlwaysSurvives == Spec => []ContentSurvives
<1>1. SaveInv /\ ContentInv /\ EndInv /\ Typed => ContentSurvives
  <2> SUFFICES ASSUME SaveInv, ContentInv, EndInv, Typed PROVE ContentSurvives
    OBVIOUS
  <2>1. 1 .. env.chunks \subseteq ChunksOf(stream) \cup hist.discarded \cup InBuilder
    <3>1. CASE pc = "done" /\ Settled
      BY <3>1 DEF ContentInv, Committed, InBuilder
    <3>2. CASE ~(pc = "done" /\ Settled)
      BY <3>2 DEF ContentInv, Accounted, InBuilder, Settled
    <3> QED
      BY <3>1, <3>2
  <2>2. pc = "done" /\ ending # "killed" => disk = stream \/ faults > 0
    BY TurnConstants DEF SaveInv, Saved, Unsaved, Cut, Typed, FaultsTyped
  <2>3. pc = "done" /\ ending = "complete" /\ env.presses = 0 => disk = stream
    BY DEF EndInv, Flushing
  <2> QED
    BY <2>1, <2>2, <2>3 DEF ContentSurvives
<1> QED
  BY CallAlways, SaveAlways, ContentAlways, EndAlways, <1>1, PTL

-----------------------------------------------------------------------------
(***************************************************************************)
(* Calls and results in pairs: what a provider accepts, and that a         *)
(* complete turn leaves no call open.                                      *)
(***************************************************************************)

(* Calls and results in pairs.                                             *)

\* Each id is there once, and a result is behind its call, in the same turn.
Once(s, kind) == \A i, j \in Indices(s, kind) : s[i].id = s[j].id => i = j
Behind(s, i, j) ==
  i < j /\ s[i].id = s[j].id /\ \A k \in i + 1 .. j : s[k].kind # "request"
Follows(s) == \A j \in Indices(s, "result") : \E i \in Indices(s, "call") : Behind(s, i, j)
Paired(s) == Once(s, "call") /\ Once(s, "result") /\ Follows(s)

\* A call of the last turn.
InTurn(s, id) == \E c \in Indices(s, "call") : c >= TurnStart(s) /\ s[c].id = id

\* Behind such a call there is no request.
LEMMA NoRequestBehind ==
  ASSUME NEW s \in Seq(ProperEvent), NEW c \in 1 .. Len(s), c >= TurnStart(s),
         NEW k \in c + 1 .. Len(s)
  PROVE  s[k].kind # "request"
<1>1. DOMAIN s = 1 .. Len(s) /\ Len(s) \in Nat /\ k \in 1 .. Len(s) /\ k > c
  OBVIOUS
<1>2. SUFFICES ASSUME k \in Indices(s, "request") PROVE FALSE
  BY <1>1 DEF Indices
<1>3. TurnStart(s) \in Indices(s, "request") /\ k <= TurnStart(s)
  BY <1>2, TurnStartOf
<1>4. TurnStart(s) \in Nat
  BY <1>1, <1>3 DEF Indices
<1> QED
  BY <1>1, <1>3, <1>4

\* An event more that is not a result; a call with an id of its own.
LEMMA PairedAppend ==
  ASSUME NEW s \in Seq(ProperEvent), NEW e \in ProperEvent, Paired(s), e.kind # "result",
         e.kind = "call" => e.id \notin Ids(s, "call")
  PROVE  Paired(Append(s, e))
<1> DEFINE n == Len(s)
<1>1. PICK t : t = Append(s, e)
  OBVIOUS
<1>2. /\ DOMAIN s = 1 .. n /\ DOMAIN t = 1 .. n + 1 /\ n \in Nat /\ t[n + 1] = e
      /\ \A i \in 1 .. n : t[i] = s[i]
  BY <1>1
<1>3. Indices(t, "result") = Indices(s, "result") /\ Indices(s, "call") \subseteq Indices(t, "call")
  BY <1>2 DEF Indices
<1>4. \A i \in Indices(s, "result") \cup Indices(s, "call") : i \in 1 .. n
  BY <1>2 DEF Indices
<1>5. Once(t, "call")
  <2>1. SUFFICES ASSUME NEW i \in Indices(t, "call"), NEW j \in Indices(t, "call"), t[i].id = t[j].id
                 PROVE  i = j
    BY DEF Once
  <2>2. i \in 1 .. n + 1 /\ j \in 1 .. n + 1 /\ t[i].kind = "call" /\ t[j].kind = "call"
    BY <1>2 DEF Indices
  <2>3. ASSUME NEW k \in 1 .. n, t[k].kind = "call", e.kind = "call" PROVE t[k].id # e.id
    BY <1>2, <2>3 DEF Ids, Indices
  <2>4. CASE i \in 1 .. n /\ j \in 1 .. n
    BY <1>2, <2>1, <2>2, <2>4 DEF Paired, Once, Indices
  <2>5. CASE i = n + 1 /\ j \in 1 .. n
    BY <1>2, <2>1, <2>2, <2>3, <2>5
  <2>6. CASE j = n + 1 /\ i \in 1 .. n
    BY <1>2, <2>1, <2>2, <2>3, <2>6
  <2> QED
    BY <1>2, <2>2, <2>4, <2>5, <2>6
<1>6. Once(t, "result")
  BY <1>2, <1>3, <1>4 DEF Paired, Once
<1>7. Follows(t)
  <2>1. SUFFICES ASSUME NEW j \in Indices(s, "result")
                 PROVE  \E i \in Indices(t, "call") : Behind(t, i, j)
    BY <1>3 DEF Follows
  <2>2. PICK i \in Indices(s, "call") : Behind(s, i, j)
    BY DEF Paired, Follows
  <2>3. i \in 1 .. n /\ j \in 1 .. n
    BY <1>4
  <2>4. Behind(t, i, j)
    BY <1>2, <2>2, <2>3 DEF Behind
  <2> QED
    BY <1>3, <2>4
<1> QED
  BY <1>1, <1>5, <1>6, <1>7 DEF Paired

\* Cut short.
LEMMA PairedPrefix ==
  ASSUME NEW s \in Seq(ProperEvent), NEW m \in 0 .. Len(s), Paired(s)
  PROVE  /\ SubSeq(s, 1, m) \in Seq(ProperEvent)
         /\ Paired(SubSeq(s, 1, m)) /\ Ids(SubSeq(s, 1, m), "call") \subseteq Ids(s, "call")
<1>1. PICK t : t = SubSeq(s, 1, m)
  OBVIOUS
<1>2. t \in Seq(ProperEvent)
  BY <1>1
<1>3. /\ DOMAIN s = 1 .. Len(s) /\ DOMAIN t = 1 .. m /\ Len(s) \in Nat /\ m \in Nat
      /\ \A i \in 1 .. m : t[i] = s[i] /\ i \in 1 .. Len(s)
  BY <1>1
<1>4. \A kind : \A i : i \in Indices(t, kind) <=> i \in Indices(s, kind) /\ i \in 1 .. m
  BY <1>3 DEF Indices
<1>5. Once(t, "call") /\ Once(t, "result")
  BY <1>3, <1>4 DEF Paired, Once
<1>6. Follows(t)
  <2>1. SUFFICES ASSUME NEW j \in Indices(t, "result")
                 PROVE  \E i \in Indices(t, "call") : Behind(t, i, j)
    BY DEF Follows
  <2>2. j \in Indices(s, "result") /\ j \in 1 .. m
    BY <1>4
  <2>3. PICK i \in Indices(s, "call") : Behind(s, i, j)
    BY <2>2 DEF Paired, Follows
  <2>4. i \in 1 .. Len(s) /\ i < j
    BY <1>3, <2>3 DEF Indices, Behind
  <2>5. i \in 1 .. m
    BY <1>3, <2>2, <2>4
  <2>6. Behind(t, i, j)
    BY <1>3, <2>2, <2>3, <2>5 DEF Behind
  <2> QED
    BY <1>4, <2>3, <2>5, <2>6
<1>7. Ids(t, "call") \subseteq Ids(s, "call")
  BY <1>3, <1>4 DEF Ids
<1> QED
  BY <1>1, <1>2, <1>5, <1>6, <1>7 DEF Paired

\* With a result for each of some calls of its last turn.
LEMMA PairedConcat ==
  ASSUME NEW s \in Seq(ProperEvent), NEW r \in Seq(ProperEvent), Paired(s),
         \A j \in 1 .. Len(r) :
           r[j].kind = "result" /\ r[j].id \notin Ids(s, "result") /\ InTurn(s, r[j].id),
         \A i, j \in 1 .. Len(r) : r[i].id = r[j].id => i = j
  PROVE  Paired(s \o r)
<1> DEFINE n == Len(s)
<1>1. PICK t : t = s \o r
  OBVIOUS
<1>2. /\ DOMAIN s = 1 .. n /\ DOMAIN t = 1 .. n + Len(r) /\ n \in Nat /\ Len(r) \in Nat
      /\ \A i \in 1 .. n : t[i] = s[i] /\ i \in 1 .. n + Len(r)
      /\ \A i \in n + 1 .. n + Len(r) : i - n \in 1 .. Len(r) /\ t[i] = r[i - n]
  BY <1>1
<1>3. \A i \in 1 .. n + Len(r) : i \in 1 .. n \/ i \in n + 1 .. n + Len(r)
  BY <1>2
<1>4. Indices(t, "call") = Indices(s, "call") /\ Indices(s, "call") \subseteq 1 .. n
  BY <1>2, <1>3 DEF Indices
<1>5. Once(t, "call")
  BY <1>2, <1>4 DEF Paired, Once
<1>6. Once(t, "result")
  <2>1. SUFFICES ASSUME NEW i \in Indices(t, "result"), NEW j \in Indices(t, "result"),
                        t[i].id = t[j].id
                 PROVE  i = j
    BY DEF Once
  <2>2. i \in 1 .. n + Len(r) /\ j \in 1 .. n + Len(r) /\ t[i].kind = "result" /\ t[j].kind = "result"
    BY <1>2 DEF Indices
  <2>3. ASSUME NEW k \in 1 .. n, NEW l \in n + 1 .. n + Len(r), t[k].kind = "result"
        PROVE  t[k].id # t[l].id
    <3>1. t[k].id \in Ids(s, "result")
      BY <1>2, <2>3 DEF Ids, Indices
    <3> QED
      BY <1>2, <3>1
  <2>4. CASE i \in 1 .. n /\ j \in 1 .. n
    BY <1>2, <2>1, <2>2, <2>4 DEF Paired, Once, Indices
  <2>5. CASE i \in n + 1 .. n + Len(r) /\ j \in n + 1 .. n + Len(r)
    <3>1. i - n = j - n
      BY <1>2, <2>1, <2>5
    <3> QED
      BY <1>2, <2>2, <3>1
  <2> QED
    BY <1>3, <2>1, <2>2, <2>3, <2>4, <2>5
<1>7. Follows(t)
  <2>1. SUFFICES ASSUME NEW j \in Indices(t, "result")
                 PROVE  \E i \in Indices(s, "call") : Behind(t, i, j)
    BY <1>4 DEF Follows
  <2>2. j \in 1 .. n + Len(r) /\ t[j].kind = "result"
    BY <1>2 DEF Indices
  <2>3. CASE j \in 1 .. n
    <3>1. PICK i \in Indices(s, "call") : Behind(s, i, j)
      BY <1>2, <2>2, <2>3 DEF Paired, Follows, Indices
    <3> QED
      BY <1>2, <1>4, <2>3, <3>1 DEF Behind
  <2>4. CASE j \in n + 1 .. n + Len(r)
    <3>1. t[j] = r[j - n] /\ j - n \in 1 .. Len(r)
      BY <1>2, <2>4
    <3>2. PICK c \in Indices(s, "call") : c >= TurnStart(s) /\ s[c].id = t[j].id
      BY <3>1 DEF InTurn
    <3>3. c \in 1 .. n
      BY <1>4
    <3>4. ASSUME NEW k \in c + 1 .. j PROVE t[k].kind # "request"
      <4>1. CASE k \in c + 1 .. n
        <5>1. s[k].kind # "request" /\ k \in 1 .. n
          BY <3>2, <3>3, <4>1, NoRequestBehind
        <5> QED
          BY <1>2, <5>1
      <4>2. CASE k \in n + 1 .. n + Len(r)
        <5>1. t[k] = r[k - n] /\ k - n \in 1 .. Len(r)
          BY <1>2, <4>2
        <5> QED
          BY <5>1
      <4> QED
        BY <1>2, <2>4, <3>3, <4>1, <4>2
    <3>5. Behind(t, c, j)
      BY <1>2, <2>4, <3>2, <3>3, <3>4 DEF Behind
    <3> QED
      BY <3>5
  <2> QED
    BY <1>3, <2>2, <2>3, <2>4
<1> QED
  BY <1>1, <1>5, <1>6, <1>7 DEF Paired

\* Repaired.
LEMMA PairedSanitized ==
  ASSUME NEW s \in Seq(ProperEvent), Paired(s)
  PROVE  Paired(Sanitized(s)) /\ Answered(s) \subseteq Called(s)
<1>0. Answered(s) \subseteq Called(s)
  <2>1. ASSUME NEW j \in Indices(s, "result") PROVE s[j].id \in Called(s)
    BY DEF Paired, Follows, Behind, Called
  <2> QED
    BY <2>1 DEF Answered
<1>1. PICK t \in Seq(ProperEvent) : t = Sanitized(s)
  BY <1>0, SanitizedShape
<1>2. PICK home : Repairs(home, t, s, Len(s))
  BY <1>0, <1>1, SanitizedShape DEF IsRepaired
<1>3. /\ DOMAIN s = 1 .. Len(s) /\ DOMAIN t = 1 .. Len(t) /\ Len(s) \in Nat /\ Len(t) \in Nat
      /\ \A i \in 1 .. Len(s) : home[i] \in 1 .. Len(t) /\ t[home[i]] = s[i]
  <2>1. \A i \in 1 .. Len(s) : home[i] \in 1 .. Len(t) /\ t[home[i]] = s[i]
    BY <1>2 DEF Repairs
  <2> QED
    BY <2>1
<1>4. \A i, j \in 1 .. Len(s) : home[i] < home[j] => i < j
  <2>1. SUFFICES ASSUME NEW i \in 1 .. Len(s), NEW j \in 1 .. Len(s), home[i] < home[j], j <= i
                 PROVE  FALSE
    OBVIOUS
  <2>2. CASE i = j
    BY <1>3, <2>1, <2>2
  <2>3. CASE i # j
    <3>1. home[j] < home[i]
      BY <1>2, <2>1, <2>3 DEF Repairs
    <3> QED
      BY <1>3, <2>1, <3>1
  <2> QED
    BY <2>2, <2>3
<1>5. ASSUME NEW q \in 1 .. Len(t)
      PROVE  \/ \E i \in 1 .. Len(s) : q = home[i] /\ t[q] = s[i]
             \/ \E i \in 1 .. Len(s) : /\ q = home[i] + 1 /\ Dangling(s, i)
                                       /\ t[q] = Result(s[i].id, "interrupted")
  BY <1>2 DEF Repairs
<1>6. \A id, by : Result(id, by).kind = "result" /\ Result(id, by).id = id
  BY DEF Result
<1>7. Once(t, "call")
  <2>1. SUFFICES ASSUME NEW p \in 1 .. Len(t), NEW q \in 1 .. Len(t), t[p].kind = "call",
                        t[q].kind = "call", t[p].id = t[q].id
                 PROVE  p = q
    BY <1>3 DEF Once, Indices
  <2>2. PICK i \in 1 .. Len(s) : p = home[i] /\ t[p] = s[i]
    BY <1>5, <1>6, <2>1
  <2>3. PICK j \in 1 .. Len(s) : q = home[j] /\ t[q] = s[j]
    BY <1>5, <1>6, <2>1
  <2>4. i = j
    BY <1>3, <2>1, <2>2, <2>3 DEF Paired, Once, Indices
  <2> QED
    BY <2>2, <2>3, <2>4
<1>8. Once(t, "result")
  <2>1. SUFFICES ASSUME NEW p \in 1 .. Len(t), NEW q \in 1 .. Len(t), t[p].kind = "result",
                        t[q].kind = "result", t[p].id = t[q].id
                 PROVE  p = q
    BY <1>3 DEF Once, Indices
  <2>2. ASSUME NEW x \in 1 .. Len(t), t[x].kind = "result"
        PROVE  \/ \E i \in 1 .. Len(s) : x = home[i] /\ t[x] = s[i] /\ t[x].id \in Answered(s)
               \/ \E i \in 1 .. Len(s) : /\ x = home[i] + 1 /\ s[i].kind = "call"
                                         /\ t[x].id = s[i].id /\ t[x].id \notin Answered(s)
    <3>1. CASE \E i \in 1 .. Len(s) : x = home[i] /\ t[x] = s[i]
      <4>1. PICK i \in 1 .. Len(s) : x = home[i] /\ t[x] = s[i]
        BY <3>1
      <4>2. t[x].id \in Answered(s)
        BY <1>3, <2>2, <4>1 DEF Answered, Indices
      <4> QED
        BY <4>1, <4>2
    <3>2. CASE \E i \in 1 .. Len(s) : /\ x = home[i] + 1 /\ Dangling(s, i)
                                      /\ t[x] = Result(s[i].id, "interrupted")
      BY <1>6, <3>2 DEF Dangling
    <3> QED
      BY <1>5, <3>1, <3>2
  <2>3. CASE t[p].id \in Answered(s)
    <3>1. PICK i \in 1 .. Len(s) : p = home[i] /\ t[p] = s[i]
      BY <2>1, <2>2, <2>3
    <3>2. PICK j \in 1 .. Len(s) : q = home[j] /\ t[q] = s[j]
      BY <2>1, <2>2, <2>3
    <3>3. i \in Indices(s, "result") /\ j \in Indices(s, "result") /\ s[i].id = s[j].id
      BY <1>3, <2>1, <3>1, <3>2 DEF Indices
    <3>4. i = j
      BY <3>3 DEF Paired, Once
    <3> QED
      BY <3>1, <3>2, <3>4
  <2>4. CASE t[p].id \notin Answered(s)
    <3>1. PICK i \in 1 .. Len(s) : p = home[i] + 1 /\ s[i].kind = "call" /\ t[p].id = s[i].id
      BY <2>1, <2>2, <2>4
    <3>2. PICK j \in 1 .. Len(s) : q = home[j] + 1 /\ s[j].kind = "call" /\ t[q].id = s[j].id
      BY <2>1, <2>2, <2>4
    <3>3. i = j
      <4>1. i \in Indices(s, "call") /\ j \in Indices(s, "call") /\ s[i].id = s[j].id
        BY <1>3, <2>1, <3>1, <3>2 DEF Indices
      <4> QED
        BY <4>1 DEF Paired, Once
    <3> QED
      BY <3>1, <3>2, <3>3
  <2> QED
    BY <2>3, <2>4
<1>9. Follows(t)
  <2>1. SUFFICES ASSUME NEW q \in 1 .. Len(t), t[q].kind = "result"
                 PROVE  \E p \in Indices(t, "call") : Behind(t, p, q)
    BY <1>3 DEF Follows, Indices
  <2>2. CASE \E j \in 1 .. Len(s) : q = home[j] /\ t[q] = s[j]
    <3>1. PICK j \in 1 .. Len(s) : q = home[j] /\ t[q] = s[j]
      BY <2>2
    <3>2. PICK i \in Indices(s, "call") : Behind(s, i, j)
      BY <1>3, <2>1, <3>1 DEF Paired, Follows, Indices
    <3>3. i \in 1 .. Len(s) /\ s[i].kind = "call" /\ home[i] < home[j]
      BY <1>2, <1>3, <3>1, <3>2 DEF Repairs, Behind, Indices
    <3>4. ASSUME NEW k \in home[i] + 1 .. q, t[k].kind = "request" PROVE FALSE
      <4>1. k \in 1 .. Len(t) /\ home[i] < k /\ k <= home[j]
        BY <1>3, <3>1, <3>3
      <4>2. PICK l \in 1 .. Len(s) : k = home[l] /\ t[k] = s[l]
        BY <1>5, <1>6, <3>4, <4>1
      <4>3. i < l /\ l <= j
        <5>1. i < l
          BY <1>4, <3>3, <4>1, <4>2
        <5>2. ~(j < l)
          <6>1. home[j] \in 1 .. Len(t) /\ home[l] \in 1 .. Len(t) /\ home[l] <= home[j]
            BY <1>3, <4>1, <4>2
          <6>2. j < l => home[j] < home[l]
            BY <1>2 DEF Repairs
          <6> QED
            BY <1>3, <6>1, <6>2
        <5> QED
          BY <1>3, <5>1, <5>2
      <4> QED
        BY <3>2, <3>3, <3>4, <4>2, <4>3 DEF Behind
    <3>5. Behind(t, home[i], q)
      BY <1>3, <3>1, <3>2, <3>3, <3>4 DEF Behind
    <3> QED
      BY <1>3, <3>3, <3>5 DEF Indices
  <2>3. CASE \E i \in 1 .. Len(s) : /\ q = home[i] + 1 /\ Dangling(s, i)
                                    /\ t[q] = Result(s[i].id, "interrupted")
    <3>1. PICK i \in 1 .. Len(s) : /\ q = home[i] + 1 /\ Dangling(s, i)
                                   /\ t[q] = Result(s[i].id, "interrupted")
      BY <2>3
    <3>2. t[home[i]].kind = "call" /\ t[home[i]].id = t[q].id /\ home[i] \in 1 .. Len(t)
      BY <1>3, <1>6, <3>1 DEF Dangling
    <3>3. \A k \in home[i] + 1 .. q : k = q
      BY <1>3, <3>1
    <3>4. Behind(t, home[i], q)
      BY <1>3, <1>6, <2>1, <3>1, <3>2, <3>3 DEF Behind
    <3> QED
      BY <1>3, <3>2, <3>4 DEF Indices
  <2> QED
    BY <1>5, <2>2, <2>3
<1> QED
  BY <1>0, <1>1, <1>7, <1>8, <1>9 DEF Paired

-----------------------------------------------------------------------------
(* Step by step, where the provider does not number its calls anew in each *)
(* response.                                                               *)

\* The ids there are, and the one that is open, have been given out once.
Fresh ==
  /\ Ids(stream, "call") \subseteq 1 .. env.calls
  /\ openCall <= env.calls
  /\ openCall # NoCall => openCall \notin Ids(stream, "call")

\* A batch answers calls of the turn, each once, that have no result.
PlanPending ==
  pc = "tools" =>
    /\ \A i, j \in 1 .. Len(plan) : plan[i].id = plan[j].id => i = j
    /\ \A i \in 1 .. Len(plan) :
         plan[i].id \notin Ids(stream, "result") /\ InTurn(stream, plan[i].id)

\* While nothing has interrupted the turn, no handler is notified, and the
\* turn is complete when its calls are answered.
Settles ==
  env.presses = 0 =>
    /\ NoRx
    /\ phase = "Complete" \/ (pc = "done" /\ ending = "complete") => UnrespondedAt(stream) = {}

PairInv == Paired(stream) /\ Fresh /\ PlanPending /\ Settles

\* At the start.
LEMMA PairInit ==
  ASSUME ~ReuseIds, Init
  PROVE  PairInv
<1>1. Request.kind = "request" /\ Request \in ProperEvent
  BY EventsProper DEF Request
<1>2. Paired(<<>>) /\ Ids(<<>>, "call") = {}
  BY DEF Paired, Once, Follows, Indices, Ids
<1>3. Paired(<<Request>>) /\ Ids(<<Request>>, "call") = {}
  <2>1. Indices(<<Request>>, "call") = {} /\ Indices(<<Request>>, "result") = {}
    BY <1>1 DEF Indices
  <2> QED
    BY <2>1 DEF Paired, Once, Follows, Ids
<1>4. Paired(PastTurn) /\ Ids(PastTurn, "call") = {1}
  <2>1. Indices(PastTurn, "call") = {2} /\ Indices(PastTurn, "result") = {3}
    BY DEF Indices, PastTurn, Request, Call, Result, Text
  <2>2. PastTurn[2].id = 1 /\ PastTurn[3].id = 1 /\ PastTurn[3].kind = "result"
    BY DEF PastTurn, Call, Result
  <2>3. Behind(PastTurn, 2, 3)
    <3>1. \A k \in 2 + 1 .. 3 : k = 3
      OBVIOUS
    <3> QED
      BY <2>2, <3>1 DEF Behind
  <2> QED
    BY <2>1, <2>2, <2>3 DEF Paired, Once, Follows, Ids
<1>5. Paired(stream)
  BY <1>2, <1>3, <1>4 DEF Init
<1>6. Fresh
  <2>1. stream \in {<<>>, <<Request>>, PastTurn} /\ openCall = NoCall /\ NoCall = 0
        /\ env.calls = IF stream = PastTurn /\ ~ReuseIds THEN 1 ELSE 0
    BY DEF Init, NoCall
  <2>2. CASE stream = PastTurn
    BY <1>4, <2>1, <2>2 DEF Fresh
  <2>3. CASE stream # PastTurn
    BY <1>2, <1>3, <2>1, <2>3 DEF Fresh
  <2> QED
    BY <2>2, <2>3
<1>7. PlanPending /\ Settles
  BY DEF Init, PlanPending, Settles, NoRx
<1> QED
  BY <1>5, <1>6, <1>7 DEF PairInv

\* A turn begins with what is left of the conversation it replaces.
LEMMA StartPaired ==
  ASSUME Typed, PairInv, StartTurn
  PROVE  Paired(stream') /\ Ids(stream', "call") \subseteq Ids(stream, "call")
<1>1. stream \in Seq(ProperEvent) /\ Paired(stream)
  BY DEF Typed, StreamsTyped, PairInv
<1>2. PICK s : s = IF trim THEN Trimmed(stream) ELSE stream
  OBVIOUS
<1>3. s \in Seq(ProperEvent) /\ Paired(s) /\ Ids(s, "call") \subseteq Ids(stream, "call")
  <2>1. CASE trim
    <3>1. PICK m \in 0 .. Len(stream) : s = SubSeq(stream, 1, m)
      BY <1>1, <1>2, <2>1, TrimmedCut
    <3> QED
      BY <1>1, <3>1, PairedPrefix
  <2>2. CASE ~trim
    BY <1>1, <1>2, <2>2
  <2> QED
    BY <2>1, <2>2
<1>4. stream' = Append(s, Request)
  BY <1>2 DEF StartTurn, WithRequest
<1>5. Request \in ProperEvent /\ Request.kind = "request"
  BY EventsProper DEF Request
<1>6. Ids(Append(s, Request), "call") = Ids(s, "call")
  BY <1>3, <1>5, IdsAppend
<1> QED
  BY <1>3, <1>4, <1>5, <1>6, PairedAppend

\* Each step keeps the pairs.
LEMMA PairedStep ==
  ASSUME Typed, CallInv, PairInv, Turn \/ User
  PROVE  Paired(stream')
<1>1. stream \in Seq(ProperEvent) /\ text \in Seq(Chunks) /\ Paired(stream)
  BY DEF Typed, StreamsTyped, PairInv
<1>2. /\ Text(text) \in ProperEvent /\ Text(text).kind = "text"
      /\ Reply \in ProperEvent /\ Reply.kind = "reply"
  BY <1>1, EventsProper DEF Text, Reply
<1>3. stream \o Partial \in Seq(ProperEvent) /\ Paired(stream \o Partial)
  BY <1>1, <1>2, PartialCases, PairedAppend
<1>4. CASE LoopHead
  <2>1. CASE OpenRequest
    BY <1>1, <2>1, PairedSanitized DEF OpenRequest
  <2>2. CASE StartTurn
    BY <2>2, StartPaired
  <2> QED
    BY <1>1, <1>3, <1>4, <2>1, <2>2
    DEF LoopHead, CompleteEarly, NoInterrupt, FinishTurn, Connected, ConnectFails
<1>5. CASE ProviderEvent
  <2>1. CASE FlushCall
    <3>1. openCall \in Calls /\ openCall \notin Ids(stream, "call")
      BY <2>1 DEF FlushCall, Typed, PlaceTyped, PairInv, Fresh
    <3>2. PICK e \in ProperEvent : e = Call(openCall)
      BY <3>1, EventsProper
    <3>3. e.kind = "call" /\ e.id = openCall
      BY <3>2 DEF Call
    <3>4. Paired(Append(stream, e))
      BY <1>1, <3>1, <3>3, PairedAppend
    <3> QED
      BY <2>1, <3>2, <3>4 DEF FlushCall
  <2>2. Paired(WithoutTrailingText(stream))
    BY <1>1, TrailingTextCut, PairedPrefix
  <2> QED
    BY <1>1, <1>3, <1>5, <2>1, <2>2
    DEF ProviderEvent, ContentPart, CallPart, FlushText, Quiet, Patch, Finished, FinishedRefused,
        Rebuild, RebuildRefused, StreamErrorFatal, StreamErrorRetried, CommittedPartial
<1>6. CASE Menu
  <2>1. Paired(Append(stream \o Partial, Reply))
    <3>1. PICK s \in Seq(ProperEvent) : s = stream \o Partial /\ Paired(s)
      BY <1>3
    <3>2. Paired(Append(s, Reply))
      BY <1>2, <3>1, PairedAppend
    <3> QED
      BY <3>1, <3>2
  <2> QED
    BY <1>1, <1>3, <1>6, <2>1 DEF Menu, KeepGoing, Stop, Abort, ReplyNow, Escalate
<1>7. CASE Tools
  <2>1. CASE ToolsCompleted \/ ToolsStopped \/ ToolsEscalated
    <3>1. stream' = stream \o Responses /\ pc = "tools"
      BY <2>1 DEF ToolsCompleted, ToolsStopped, ToolsEscalated, CommitResponses
    <3>2. PICK r \in Seq(ProperEvent) : r = Responses
      BY ResponsesTyped
    <3>3. /\ Len(r) = Len(plan)
          /\ \A i \in 1 .. Len(plan) : r[i].kind = "result" /\ r[i].id = plan[i].id
      BY <3>2, ResponsesTyped
    <3>4. Paired(stream \o r)
      <4>1. /\ \A i, j \in 1 .. Len(plan) : plan[i].id = plan[j].id => i = j
            /\ \A i \in 1 .. Len(plan) :
                 plan[i].id \notin Ids(stream, "result") /\ InTurn(stream, plan[i].id)
        BY <3>1 DEF PairInv, PlanPending
      <4> QED
        BY <1>1, <3>3, <4>1, PairedConcat
    <3> QED
      BY <3>1, <3>2, <3>4
  <2> QED
    BY <1>1, <1>7, <2>1 DEF Tools, StartTools, ToolsRestarted, ToolInterruptPassed
<1>8. CASE Decide \/ BackoffElapsed \/ LeaveStreaming \/ FutureDropped
  BY <1>1, <1>8 DEF Decide, BackoffElapsed, LeaveStreaming, FutureDropped
<1>9. CASE User
  BY <1>1, <1>9 DEF User, Press, RequestShutdown, Killed
<1> QED
  BY <1>4, <1>5, <1>6, <1>7, <1>8, <1>9 DEF Turn

\* An id is given out when a call is opened, and not again.
LEMMA FreshStep ==
  ASSUME ~ReuseIds, Typed, CallInv, PairInv, Turn \/ User
  PROVE  Fresh'
<1>0. /\ env \in [chunks : 0 .. MaxChunks, calls : 0 .. MaxCalls, inResponse : 0 .. MaxCalls,
                  presses : 0 .. MaxPresses, metadata : 0 .. MaxMetadata]
      /\ openCall \in Nat /\ NoCall = 0 /\ env.calls \in Nat
  BY TurnConstants DEF Typed, EnvTyped, PlaceTyped, NoCall, Calls
<1>1. /\ Ids(stream, "call") \subseteq 1 .. env.calls /\ openCall <= env.calls
      /\ openCall # NoCall => openCall \notin Ids(stream, "call")
  BY DEF PairInv, Fresh
<1>2. ASSUME env'.calls = env.calls, openCall' \in {openCall, NoCall},
             Ids(stream', "call") \subseteq Ids(stream, "call")
      PROVE  Fresh'
  BY <1>0, <1>1, <1>2 DEF Fresh
<1>3. CASE CallPart
  <2>1. env'.calls = env.calls + 1 /\ openCall' = env.calls + 1 /\ stream' = stream
    BY <1>0, <1>3 DEF CallPart, NextCallId
  <2> QED
    BY <1>0, <1>1, <2>1 DEF Fresh
<1>4. CASE FlushCall
  <2>1. Ids(stream', "call") = Ids(stream, "call") \cup {openCall} /\ openCall' = NoCall /\ env' = env
        /\ openCall # NoCall
    BY <1>4, FlushCallIds DEF FlushCall
  <2> QED
    BY <1>0, <1>1, <2>1 DEF Fresh
<1>5. CASE StartTurn
  BY <1>2, <1>5, StartPaired DEF StartTurn, builderVars
<1>6. CASE OpenRequest
  <2>1. Ids(stream', "call") = Ids(stream, "call")
    BY <1>6, IdsSanitized DEF OpenRequest, CallInv, CallsKnown, Typed, StreamsTyped
  <2> QED
    BY <1>2, <1>6, <2>1 DEF OpenRequest, builderVars
<1>7. CASE ToolsCompleted \/ ToolsStopped \/ ToolsEscalated
  <2>1. Ids(stream', "call") = Ids(stream, "call")
    BY <1>7, CommitIds
  <2>2. env' = env /\ openCall' = openCall
    BY <1>7 DEF ToolsCompleted, ToolsStopped, ToolsEscalated, CommitResponses, builderVars
  <2> QED
    BY <1>2, <2>1, <2>2
<1>8. CASE ~Adds /\ ~CallPart
  <2>1. Ids(stream', "call") = Ids(stream, "call")
    BY <1>8, IdsKept DEF Tracked
  <2>2. openCall' \in {openCall, NoCall}
    BY <1>8
    DEF Turn, User, LoopHead, ProviderEvent, Menu, Tools, CompleteEarly, NoInterrupt, FinishTurn,
        Connected, ConnectFails, ContentPart, FlushText, Quiet, Patch, Finished,
        FinishedRefused, Rebuild, RebuildRefused, StreamErrorRetried, StreamErrorFatal, Decide,
        BackoffElapsed, KeepGoing, Stop, Abort, ReplyNow, Escalate, LeaveStreaming,
        StartTools, ToolsRestarted, ToolInterruptPassed, FutureDropped, Press,
        RequestShutdown, Killed, Adds, builderVars, BuilderReset
  <2>3. env'.calls = env.calls
    <3>1. \/ env' = env
          \/ env' = [env EXCEPT !.inResponse = 0]
          \/ env' = [env EXCEPT !.chunks = env.chunks + 1]
          \/ env' = [env EXCEPT !.metadata = env.metadata - 1]
          \/ env' = [env EXCEPT !.presses = env.presses + 1]
      BY <1>8
      DEF Turn, User, LoopHead, ProviderEvent, Menu, Tools, CompleteEarly, NoInterrupt, FinishTurn,
          Connected, ConnectFails, ContentPart, FlushText, Quiet, Patch, Finished,
          FinishedRefused, Rebuild, RebuildRefused, StreamErrorRetried, StreamErrorFatal, Decide,
          BackoffElapsed, KeepGoing, Stop, Abort, ReplyNow, Escalate, LeaveStreaming,
          StartTools, ToolsRestarted, ToolInterruptPassed, FutureDropped, Press,
          RequestShutdown, Killed, Adds
    <3> QED
      BY <1>0, <3>1
  <2> QED
    BY <1>2, <2>1, <2>2, <2>3
<1> QED
  BY <1>3, <1>4, <1>5, <1>6, <1>7, <1>8 DEF Adds

\* The plan of a batch has each call of the turn that has no result, once.
LEMMA PlanMade ==
  ASSUME Typed, PairInv, StartTools
  PROVE  /\ stream' = stream
         /\ \A i, j \in 1 .. Len(plan') : plan'[i].id = plan'[j].id => i = j
         /\ \A i \in 1 .. Len(plan') :
              plan'[i].id \notin Ids(stream, "result") /\ InTurn(stream, plan'[i].id)
<1>1. stream \in Seq(ProperEvent) /\ Once(stream, "call")
  BY DEF Typed, StreamsTyped, PairInv, Paired
<1>2. PICK calls \in Seq(ProperEvent) : calls = Unresponded(stream)
  BY <1>1, UnrespondedPlaces
<1>3. PICK place : PlacedAt(place, calls, stream, UnrespondedAt(stream))
  BY <1>1, <1>2, UnrespondedPlaces
<1>4. /\ DOMAIN plan' = 1 .. Len(calls)
      /\ \A i \in 1 .. Len(calls) : plan'[i].id = calls[i].id
  <2>1. PICK entries : plan' = PlanFor(stream, entries)
    BY DEF StartTools
  <2> QED
    BY <1>1, <1>2, <2>1, PlanIds
<1>5. Len(plan') = Len(calls)
  <2>1. plan' \in Seq(PlanEntry)
    <3>1. ToolsTyped'
      BY ToolsTypedStep DEF Turn, Tools
    <3> QED
      BY <3>1 DEF ToolsTyped
  <2>2. PICK p \in Seq(PlanEntry) : p = plan'
    BY <2>1
  <2>3. DOMAIN p = 1 .. Len(p) /\ Len(p) \in Nat /\ Len(calls) \in Nat
    OBVIOUS
  <2>4. Len(p) = Len(calls)
    BY <1>4, <2>2, <2>3
  <2> QED
    BY <2>2, <2>4
<1>6. ASSUME NEW i \in 1 .. Len(calls)
      PROVE  /\ place[i] \in Indices(stream, "call") /\ calls[i] = stream[place[i]]
             /\ place[i] >= TurnStart(stream) /\ calls[i].id \notin Answered(stream)
  BY <1>3 DEF PlacedAt, UnrespondedAt
<1>7. ASSUME NEW i \in 1 .. Len(calls), NEW j \in 1 .. Len(calls), calls[i].id = calls[j].id
      PROVE  i = j
  <2>1. place[i] = place[j]
    BY <1>1, <1>6, <1>7 DEF Once
  <2>2. \A k, l \in 1 .. Len(calls) : k < l => place[k] < place[l]
    BY <1>3 DEF PlacedAt
  <2>3. place[i] \in Nat /\ place[j] \in Nat
    BY <1>3 DEF PlacedAt
  <2>4. i \in Nat /\ j \in Nat
    OBVIOUS
  <2> QED
    BY <2>1, <2>2, <2>3, <2>4
<1>8. stream' = stream
  BY DEF StartTools
<1> QED
  BY <1>4, <1>5, <1>6, <1>7, <1>8, IdsOf DEF InTurn

\* The plan is made of open calls, and no tool answers while it runs.
LEMMA PlanPendingStep ==
  ASSUME Typed, PairInv, Turn \/ User
  PROVE  PlanPending'
<1>1. CASE StartTools
  BY <1>1, PlanMade DEF PlanPending
<1>2. CASE ~StartTools
  <2>1. pc' = "tools" => pc = "tools" /\ plan' = plan /\ stream' = stream
    BY <1>2
    DEF Turn, User, LoopHead, ProviderEvent, Menu, Tools, CompleteEarly, NoInterrupt, FinishTurn,
        StartTurn, OpenRequest, FlushCall, ToolsCompleted, ToolsStopped, ToolsEscalated, CommitResponses,
        Connected, ConnectFails, ContentPart, CallPart, FlushText, Quiet, Patch, Finished,
        FinishedRefused, Rebuild, RebuildRefused, StreamErrorRetried, StreamErrorFatal, Decide,
        BackoffElapsed, KeepGoing, Stop, Abort, ReplyNow, Escalate, LeaveStreaming, CycleSaved,
        CycleLost, ToolsRestarted, ToolInterruptPassed, FutureDropped, Press,
        RequestShutdown, Killed, End, toolVars
  <2> QED
    BY <2>1 DEF PairInv, PlanPending
<1> QED
  BY <1>1, <1>2

\* A turn that is not interrupted is not complete before its calls are answered.
LEMMA AllAnsweredAtTheEnd ==
  ASSUME NEW s \in Seq(ProperEvent), PhaseAfter(s) = "Complete"
  PROVE  UnrespondedAt(s) = {}
<1>1. PICK calls : calls = Unresponded(s) /\ calls = <<>>
  BY DEF PhaseAfter
<1>2. PICK place : PlacedAt(place, calls, s, UnrespondedAt(s))
  BY <1>1, UnrespondedPlaces
<1>3. ASSUME NEW i \in UnrespondedAt(s) PROVE FALSE
  <2>1. i \in 1 .. Len(s)
    BY DEF UnrespondedAt, Indices
  <2>2. \E k \in 1 .. Len(calls) : place[k] = i
    BY <1>2, <2>1 DEF PlacedAt
  <2> QED
    BY <1>1, <2>2
<1> QED
  BY <1>3

\* Without an interrupt, a turn that is complete has answered its calls.
LEMMA SettlesStep ==
  ASSUME Typed, Typed', BudgetInv, PairInv, Turn \/ User
  PROVE  Settles'
<1> SUFFICES ASSUME env'.presses = 0
             PROVE  /\ NoRx'
                    /\ phase' = "Complete" \/ (pc' = "done" /\ ending' = "complete") =>
                         UnrespondedAt(stream') = {}
  BY DEF Settles
<1>2. Turn
  BY PressesStep
<1>3. env.presses = 0
  BY <1>2, PressesStep
<1>4. NoRx /\ (phase = "Complete" \/ (pc = "done" /\ ending = "complete") =>
                UnrespondedAt(stream) = {})
  BY <1>3 DEF PairInv, Settles
<1>5. /\ ~CompleteEarly /\ ~Menu
      /\ ~ToolsStopped /\ ~ToolsEscalated /\ ~ToolsRestarted /\ ~ToolInterruptPassed
  BY <1>2, <1>4, NoRxStep
<1>6. NoRx'
  BY <1>2, <1>4, NoRxStep
<1>7. stream' \in Seq(ProperEvent)
  BY DEF Typed, StreamsTyped
<1>8. CASE Finished \/ FinishedRefused
  <2>1. phase' = PhaseAfter(stream') /\ pc' = "leave"
    BY <1>8 DEF Finished, FinishedRefused
  <2> QED
    BY <1>6, <1>7, <2>1, AllAnsweredAtTheEnd
<1>9. CASE ~(Finished \/ FinishedRefused)
  <2>1. phase' = "Complete" \/ (pc' = "done" /\ ending' = "complete") =>
          phase = "Complete" /\ stream' = stream
    BY <1>2, <1>5, <1>9
    DEF Turn, LoopHead, ProviderEvent, Tools, NoInterrupt, FinishTurn,
        StartTurn, OpenRequest, FlushCall, ToolsCompleted, CommitResponses,
        Connected, ConnectFails, ContentPart, CallPart, FlushText, Quiet, Patch,
        Rebuild, RebuildRefused, StreamErrorRetried, StreamErrorFatal, Decide,
        BackoffElapsed, LeaveStreaming, CycleSaved, CycleLost, End,
        StartTools, FutureDropped, BudgetInv, PhaseAtPlace
  <2> QED
    BY <1>4, <1>6, <2>1
<1> QED
  BY <1>8, <1>9

\* Calls and results are in pairs in every state.
LEMMA PairAlways == ~ReuseIds => (Spec => [](Typed /\ CallInv /\ PairInv))
<1> SUFFICES ASSUME ~ReuseIds PROVE Spec => [](Typed /\ CallInv /\ PairInv)
  OBVIOUS
<1>1. /\ Typed /\ BudgetInv /\ CallInv /\ PairInv /\ Typed' /\ [Next]_vars => PairInv'
  <2> SUFFICES ASSUME Typed, BudgetInv, CallInv, PairInv, Typed', [Next]_vars PROVE PairInv'
    OBVIOUS
  <2>1. CASE Turn \/ User
    BY <2>1, PairedStep, FreshStep, PlanPendingStep, SettlesStep DEF PairInv
  <2>2. CASE UNCHANGED vars
    BY <2>2 DEF vars, PairInv, Fresh, PlanPending, Settles, NoRx
  <2> QED
    BY <2>1, <2>2 DEF Next, Done
<1>2. Init => PairInv
  BY PairInit
<1> QED
  BY CallAlways, <1>1, <1>2, PTL DEF Spec

\* Where the ids of a conversation's calls are unique, the provider is asked
\* with exactly one result behind each call, and a call before each result:
\* build_execution_plan, commit_tool_responses and sanitize together keep them
\* paired, through interrupts, restarts, refusals and failed writes.
THEOREM RequestsAreWellFormed == ~ReuseIds => (Spec => []RequestIsWellFormed)
<1> SUFFICES ASSUME ~ReuseIds PROVE Spec => []RequestIsWellFormed
  OBVIOUS
<1>1. Typed /\ CallInv /\ PairInv => RequestIsWellFormed
  <2> SUFFICES ASSUME Typed, CallInv, PairInv, pc = "connect"
               PROVE  /\ \A i \in Indices(stream, "call") :
                           Cardinality({j \in Indices(stream, "result") :
                                          stream[j].id = stream[i].id /\ j > i}) = 1
                      /\ \A j \in Indices(stream, "result") :
                           \E i \in Indices(stream, "call") : i < j /\ stream[i].id = stream[j].id
    BY DEF RequestIsWellFormed
  <2>1. Once(stream, "call") /\ Once(stream, "result") /\ Follows(stream)
    BY DEF PairInv, Paired
  <2>2. ASSUME NEW i \in Indices(stream, "call")
        PROVE  Cardinality({j \in Indices(stream, "result") :
                              stream[j].id = stream[i].id /\ j > i}) = 1
    <3>1. stream[i].id \in Answered(stream)
      BY DEF CallInv, AllAnswered, Called
    <3>2. PICK j \in Indices(stream, "result") : stream[j].id = stream[i].id
      BY <3>1 DEF Answered
    <3>3. PICK k \in Indices(stream, "call") : k < j /\ stream[k].id = stream[j].id
      BY <2>1 DEF Follows, Behind
    <3>4. k = i
      BY <2>1, <3>2, <3>3 DEF Once
    <3>5. i \in Nat /\ j \in Nat
      BY DEF Typed, StreamsTyped, Indices
    <3>6. {l \in Indices(stream, "result") : stream[l].id = stream[i].id /\ l > i} = {j}
      BY <2>1, <3>2, <3>3, <3>4, <3>5 DEF Once
    <3> QED
      BY <3>6, FS_Singleton
  <2> QED
    BY <2>1, <2>2 DEF Follows, Behind
<1> QED
  BY PairAlways, <1>1, PTL

\* Two sets of at most one element.
LEMMA OneEach ==
  ASSUME NEW X, NEW Y, \A x, y \in X : x = y, \A x, y \in Y : x = y, X = {} <=> Y = {}
  PROVE  Cardinality(X) = Cardinality(Y)
<1>1. CASE X = {}
  BY <1>1
<1>2. CASE X # {}
  <2>1. PICK x \in X, y \in Y : X = {x} /\ Y = {y}
    BY <1>2
  <2> QED
    BY <2>1, FS_Singleton
<1> QED
  BY <1>1, <1>2

\* What pairs come to in the last turn, once none of its calls is left.
AsMany(turn, id) ==
  Cardinality({i \in Indices(turn, "call") : turn[i].id = id})
    = Cardinality({i \in Indices(turn, "result") : turn[i].id = id})

\* In a conversation in pairs without an open call, the last turn has as many
\* results for an id as it has calls.
LEMMA TurnAnswered ==
  ASSUME NEW s \in Seq(ProperEvent), Paired(s), UnrespondedAt(s) = {}, NEW id,
         NEW turn, turn = SubSeq(s, TurnStart(s), Len(s))
  PROVE  AsMany(turn, id)
<1> DEFINE from == TurnStart(s)
           X == {i \in Indices(turn, "call") : turn[i].id = id}
           Y == {i \in Indices(turn, "result") : turn[i].id = id}
<1>1. Len(s) \in Nat /\ DOMAIN s = 1 .. Len(s)
  OBVIOUS
<1>2. from \in 1 .. Len(s) + 1
  BY <1>1, TurnStartOf DEF Indices
<1>3. /\ DOMAIN turn = 1 .. Len(s) - from + 1
      /\ \A i \in 1 .. Len(s) - from + 1 :
           from + i - 1 \in 1 .. Len(s) /\ turn[i] = s[from + i - 1]
      /\ \A i \in from .. Len(s) :
           /\ i - from + 1 \in 1 .. Len(s) - from + 1
           /\ turn[i - from + 1] = s[i]
  <2> HIDE DEF from
  <2>1. PICK t : t = SubSeq(s, from, Len(s))
    OBVIOUS
  <2>2. /\ DOMAIN t = 1 .. Len(s) - from + 1
        /\ \A i \in 1 .. Len(s) - from + 1 : t[i] = s[from + i - 1]
    BY <1>1, <1>2, <2>1
  <2>3. \A i \in 1 .. Len(s) - from + 1 : from + i - 1 \in 1 .. Len(s)
    BY <1>1, <1>2
  <2>4. ASSUME NEW i \in from .. Len(s)
        PROVE  i - from + 1 \in 1 .. Len(s) - from + 1 /\ t[i - from + 1] = s[i]
    <3>1. i - from + 1 \in 1 .. Len(s) - from + 1 /\ from + (i - from + 1) - 1 = i
      BY <1>1, <1>2
    <3> QED
      BY <2>2, <3>1
  <2>5. t = turn
    BY <2>1 DEF from
  <2> QED
    BY <2>2, <2>3, <2>4, <2>5
<1> HIDE DEF from
<1>4. ASSUME NEW kind, Once(s, kind), NEW i \in Indices(turn, kind), NEW j \in Indices(turn, kind),
             turn[i].id = turn[j].id
      PROVE  i = j
  <2>1. /\ i \in 1 .. Len(s) - from + 1 /\ j \in 1 .. Len(s) - from + 1
        /\ turn[i].kind = kind /\ turn[j].kind = kind
    BY <1>3 DEF Indices
  <2>2. PICK k \in 1 .. Len(s) : k = from + i - 1
    BY <1>3, <2>1
  <2>3. PICK l \in 1 .. Len(s) : l = from + j - 1
    BY <1>3, <2>1
  <2>4. s[k] = turn[i] /\ s[l] = turn[j]
    BY <1>3, <2>1, <2>2, <2>3
  <2>5. k = l
    <3>1. k \in Indices(s, kind) /\ l \in Indices(s, kind) /\ s[k].id = s[l].id
      BY <1>1, <1>4, <2>1, <2>4 DEF Indices
    <3> QED
      BY <1>4, <3>1 DEF Once
  <2> QED
    BY <1>1, <1>2, <2>1, <2>2, <2>3, <2>5
<1>5. Once(s, "call") /\ Once(s, "result")
  BY DEF Paired
<1>6. ASSUME NEW i \in X, NEW j \in X PROVE i = j
  <2>1. i \in Indices(turn, "call") /\ j \in Indices(turn, "call") /\ turn[i].id = turn[j].id
    OBVIOUS
  <2> HIDE DEF X
  <2> QED
    BY <1>4, <1>5, <2>1
<1>7. ASSUME NEW i \in Y, NEW j \in Y PROVE i = j
  <2>1. i \in Indices(turn, "result") /\ j \in Indices(turn, "result") /\ turn[i].id = turn[j].id
    OBVIOUS
  <2> HIDE DEF Y
  <2> QED
    BY <1>4, <1>5, <2>1
<1>8. ASSUME NEW i \in X PROVE Y # {}
  <2>1. i \in 1 .. Len(s) - from + 1 /\ turn[i].kind = "call" /\ turn[i].id = id
    BY <1>3 DEF Indices
  <2>2. PICK k \in 1 .. Len(s) : k = from + i - 1
    BY <1>3, <2>1
  <2>3. s[k].kind = "call" /\ s[k].id = id /\ k >= from
    <3>1. s[k] = turn[i]
      BY <1>3, <2>1, <2>2
    <3>2. k >= from
      BY <1>1, <1>2, <2>1, <2>2
    <3> QED
      BY <2>1, <3>1, <3>2
  <2>4. k \in Indices(s, "call") /\ k \notin UnrespondedAt(s)
    BY <1>1, <2>3 DEF Indices
  <2>5. s[k].id \in Answered(s)
    BY <2>3, <2>4 DEF UnrespondedAt, from
  <2>6. PICK j \in Indices(s, "result") : s[j].id = id
    BY <2>3, <2>5 DEF Answered
  <2>7. PICK c \in Indices(s, "call") : Behind(s, c, j)
    BY DEF Paired, Follows
  <2>8. c = k
    BY <2>3, <2>4, <2>6, <2>7 DEF Paired, Once, Behind
  <2>9. j \in from .. Len(s) /\ s[j].kind = "result"
    BY <1>1, <1>2, <2>3, <2>6, <2>7, <2>8 DEF Behind, Indices
  <2>10. j - from + 1 \in Indices(turn, "result") /\ turn[j - from + 1].id = id
    BY <1>3, <2>6, <2>9 DEF Indices
  <2> QED
    BY <2>10
<1>9. ASSUME NEW i \in Y PROVE X # {}
  <2>1. i \in 1 .. Len(s) - from + 1 /\ turn[i].kind = "result" /\ turn[i].id = id
    BY <1>3 DEF Indices
  <2>2. PICK j \in 1 .. Len(s) : j = from + i - 1
    BY <1>3, <2>1
  <2>3. s[j].kind = "result" /\ s[j].id = id /\ j >= from
    <3>1. s[j] = turn[i]
      BY <1>3, <2>1, <2>2
    <3>2. j >= from
      BY <1>1, <1>2, <2>1, <2>2
    <3> QED
      BY <2>1, <3>1, <3>2
  <2>4. PICK c \in Indices(s, "call") : Behind(s, c, j)
    BY <1>1, <2>3 DEF Paired, Follows, Indices
  <2>5. c \in 1 .. Len(s) /\ s[c].kind = "call" /\ s[c].id = id /\ c < j
    BY <1>1, <2>3, <2>4 DEF Indices, Behind
  <2>6. c >= from
    <3>1. SUFFICES ASSUME c < from PROVE FALSE
      BY <1>2, <2>5
    <3>2. CASE Indices(s, "request") = {}
      <4>1. from = 1
        BY <3>2 DEF from, TurnStart
      <4> QED
        BY <1>1, <2>5, <3>1, <4>1
    <3>3. CASE Indices(s, "request") # {}
      <4>1. from \in Indices(s, "request")
        BY <3>3, TurnStartOf DEF from
      <4>2. s[from].kind = "request" /\ from \in c + 1 .. j
        BY <1>1, <1>2, <2>3, <2>5, <3>1, <4>1 DEF Indices
      <4> QED
        BY <2>4, <4>2 DEF Behind
    <3> QED
      BY <3>2, <3>3
  <2>7. c \in from .. Len(s)
    BY <1>1, <1>2, <2>5, <2>6
  <2>8. c - from + 1 \in Indices(turn, "call") /\ turn[c - from + 1].id = id
    BY <1>3, <2>5, <2>7 DEF Indices
  <2> QED
    BY <2>8
<1>10. X = {} <=> Y = {}
  BY <1>8, <1>9
<1> HIDE DEF X, Y
<1>11. Cardinality(X) = Cardinality(Y)
  BY <1>6, <1>7, <1>10, OneEach
<1> QED
  BY <1>11 DEF X, Y, AsMany

\* Where the ids are unique, a turn that no press has interrupted is complete
\* when each of its calls has one result: transition_from_streaming looks at
\* all of the turn's calls, and every call it finds is run or resolved.
THEOREM EveryCallIsAnswered == ~ReuseIds => (Spec => []EveryCallAnswered)
<1> SUFFICES ASSUME ~ReuseIds PROVE Spec => []EveryCallAnswered
  OBVIOUS
<1>1. Typed /\ PairInv => EveryCallAnswered
  <2> SUFFICES ASSUME Typed, PairInv, pc = "done", ending = "complete", env.presses = 0,
                      NEW id \in Calls
               PROVE  AsMany(SubSeq(stream, TurnStart(stream), Len(stream)), id)
    BY DEF EveryCallAnswered, AsMany
  <2>1. stream \in Seq(ProperEvent) /\ Paired(stream) /\ UnrespondedAt(stream) = {}
    BY DEF Typed, StreamsTyped, PairInv, Settles
  <2> QED
    BY <2>1, TurnAnswered
<1> QED
  BY PairAlways, <1>1, PTL

-----------------------------------------------------------------------------
(***************************************************************************)
(* Content is committed once: it is numbered as it is streamed, and stays  *)
(* in this order.                                                          *)
(***************************************************************************)

(* The order of content.                                                   *)

\* Content is numbered as it is streamed: in the order in which it was
\* streamed, none of it is there twice.
Rising(x) == \A a, b \in DOMAIN x : a < b => x[a] < x[b]
Below(x, y) == \A a \in DOMAIN x, b \in DOMAIN y : x[a] < y[b]
Within(x, n) == \A a \in DOMAIN x : x[a] <= n

Ordered(s) ==
  /\ \A i \in 1 .. Len(s) : Rising(s[i].chunks)
  /\ \A i, j \in 1 .. Len(s) : i < j => Below(s[i].chunks, s[j].chunks)
Lays(s, x) == \A i \in 1 .. Len(s) : Below(s[i].chunks, x)
AllWithin(s, n) == \A i \in 1 .. Len(s) : Within(s[i].chunks, n)

\* The content of t is some of the content of s, in the same order.
IsFrom(t, s) ==
  /\ \A q \in 1 .. Len(t) :
       t[q].chunks = <<>> \/ \E i \in 1 .. Len(s) : t[q].chunks = s[i].chunks
  /\ \A p, q \in 1 .. Len(t) :
       p < q /\ t[p].chunks # <<>> /\ t[q].chunks # <<>> =>
         \E i, j \in 1 .. Len(s) : i < j /\ t[p].chunks = s[i].chunks /\ t[q].chunks = s[j].chunks

\* An event without content is in order anywhere.
LEMMA NoContent ==
  /\ Rising(<<>>) /\ \A n : Within(<<>>, n)
  /\ \A x : Below(<<>>, x) /\ Below(x, <<>>)
BY DEF Rising, Within, Below

\* Less of the content is in order where all of it was.
LEMMA FromOrdered ==
  ASSUME NEW s, NEW t, IsFrom(t, s)
  PROVE  /\ Ordered(s) => Ordered(t)
         /\ \A x : Lays(s, x) => Lays(t, x)
         /\ \A n : AllWithin(s, n) => AllWithin(t, n)
<1>1. ASSUME Ordered(s) PROVE Ordered(t)
  <2>1. ASSUME NEW q \in 1 .. Len(t) PROVE Rising(t[q].chunks)
    BY <1>1, NoContent DEF IsFrom, Ordered
  <2>2. ASSUME NEW p \in 1 .. Len(t), NEW q \in 1 .. Len(t), p < q
        PROVE  Below(t[p].chunks, t[q].chunks)
    <3>1. CASE t[p].chunks = <<>> \/ t[q].chunks = <<>>
      BY <3>1, NoContent
    <3>2. CASE t[p].chunks # <<>> /\ t[q].chunks # <<>>
      <4>1. PICK i \in 1 .. Len(s), j \in 1 .. Len(s) :
              i < j /\ t[p].chunks = s[i].chunks /\ t[q].chunks = s[j].chunks
        BY <2>2, <3>2 DEF IsFrom
      <4> QED
        BY <1>1, <4>1 DEF Ordered
    <3> QED
      BY <3>1, <3>2
  <2> QED
    BY <2>1, <2>2 DEF Ordered
<1>2. ASSUME NEW x, Lays(s, x) PROVE Lays(t, x)
  BY <1>2, NoContent DEF IsFrom, Lays
<1>3. ASSUME NEW n, AllWithin(s, n) PROVE AllWithin(t, n)
  BY <1>3, NoContent DEF IsFrom, AllWithin
<1> QED
  BY <1>1, <1>2, <1>3

\* All of it, with an event or some events without content; a prefix; what
\* sanitize leaves.
LEMMA FromSelf ==
  ASSUME NEW s \in Seq(ProperEvent)
  PROVE  IsFrom(s, s)
BY DEF IsFrom

\* An event without content may be appended,
LEMMA FromAppend ==
  ASSUME NEW s \in Seq(ProperEvent), NEW t \in Seq(ProperEvent), IsFrom(t, s),
         NEW e \in ProperEvent, e.chunks = <<>>
  PROVE  IsFrom(Append(t, e), s)
<1>1. PICK u : u = Append(t, e)
  OBVIOUS
<1>2. /\ Len(u) = Len(t) + 1 /\ Len(t) \in Nat /\ u[Len(t) + 1].chunks = <<>>
      /\ \A q \in 1 .. Len(t) : u[q] = t[q]
  BY <1>1
<1>3. \A q \in 1 .. Len(u) : q \in 1 .. Len(t) \/ u[q].chunks = <<>>
  BY <1>2
<1>4. IsFrom(u, s)
  <2>1. \A q \in 1 .. Len(u) :
          u[q].chunks = <<>> \/ \E i \in 1 .. Len(s) : u[q].chunks = s[i].chunks
    <3>1. ASSUME NEW q \in 1 .. Len(t)
          PROVE  u[q].chunks = <<>> \/ \E i \in 1 .. Len(s) : u[q].chunks = s[i].chunks
      BY <1>2 DEF IsFrom
    <3> QED
      BY <1>3, <3>1
  <2>2. ASSUME NEW p \in 1 .. Len(u), NEW q \in 1 .. Len(u), p < q,
               u[p].chunks # <<>>, u[q].chunks # <<>>
        PROVE  \E i, j \in 1 .. Len(s) :
                 i < j /\ u[p].chunks = s[i].chunks /\ u[q].chunks = s[j].chunks
    <3>1. p \in 1 .. Len(t) /\ q \in 1 .. Len(t) /\ u[p] = t[p] /\ u[q] = t[q]
      BY <1>2, <1>3, <2>2
    <3> QED
      BY <2>2, <3>1 DEF IsFrom
  <2> QED
    BY <2>1, <2>2 DEF IsFrom
<1> QED
  BY <1>1, <1>4

\* or several;
LEMMA FromConcat ==
  ASSUME NEW s \in Seq(ProperEvent), NEW r \in Seq(ProperEvent),
         \A i \in 1 .. Len(r) : r[i].chunks = <<>>
  PROVE  IsFrom(s \o r, s)
<1>1. PICK u : u = s \o r
  OBVIOUS
<1>2. /\ Len(u) = Len(s) + Len(r) /\ Len(s) \in Nat /\ Len(r) \in Nat
      /\ \A q \in 1 .. Len(s) : u[q] = s[q]
      /\ \A q \in Len(s) + 1 .. Len(s) + Len(r) : q - Len(s) \in 1 .. Len(r) /\ u[q] = r[q - Len(s)]
  BY <1>1
<1>3. ASSUME NEW q \in 1 .. Len(u) PROVE q \in 1 .. Len(s) \/ u[q].chunks = <<>>
  <2>1. q \in 1 .. Len(s) \/ q \in Len(s) + 1 .. Len(s) + Len(r)
    BY <1>2
  <2> QED
    BY <1>2, <2>1
<1>4. IsFrom(u, s)
  BY <1>2, <1>3 DEF IsFrom
<1> QED
  BY <1>1, <1>4

\* events at the end may be left out;
LEMMA FromPrefix ==
  ASSUME NEW s \in Seq(ProperEvent), NEW m \in 0 .. Len(s)
  PROVE  IsFrom(SubSeq(s, 1, m), s)
<1>1. PICK t : t = SubSeq(s, 1, m)
  OBVIOUS
<1>2. Len(t) = m /\ \A q \in 1 .. m : t[q] = s[q] /\ q \in 1 .. Len(s)
  BY <1>1
<1>3. IsFrom(t, s)
  BY <1>2 DEF IsFrom
<1> QED
  BY <1>1, <1>3

\* and the conversation be repaired.
LEMMA FromSanitized ==
  ASSUME NEW s \in Seq(ProperEvent), Answered(s) \subseteq Called(s)
  PROVE  IsFrom(Sanitized(s), s)
<1>1. PICK t \in Seq(ProperEvent) : t = Sanitized(s)
  BY SanitizedShape
<1>2. PICK home : Repairs(home, t, s, Len(s))
  BY <1>1, SanitizedShape DEF IsRepaired
<1>3. ASSUME NEW q \in 1 .. Len(t)
      PROVE  t[q].chunks = <<>> \/ \E i \in 1 .. Len(s) : q = home[i] /\ t[q].chunks = s[i].chunks
  <2>1. \/ \E i \in 1 .. Len(s) : q = home[i]
        \/ \E i \in 1 .. Len(s) : Dangling(s, i) /\ q = home[i] + 1
    BY <1>2 DEF Repairs
  <2>2. CASE \E i \in 1 .. Len(s) : q = home[i]
    BY <1>2, <2>2 DEF Repairs
  <2>3. CASE \E i \in 1 .. Len(s) : Dangling(s, i) /\ q = home[i] + 1
    <3>1. PICK i \in 1 .. Len(s) : t[q] = Result(s[i].id, "interrupted")
      BY <1>2, <2>3 DEF Repairs
    <3> QED
      BY <3>1 DEF Result
  <2> QED
    BY <2>1, <2>2, <2>3
<1>4. ASSUME NEW p \in 1 .. Len(t), NEW q \in 1 .. Len(t), p < q,
             t[p].chunks # <<>>, t[q].chunks # <<>>
      PROVE  \E i, j \in 1 .. Len(s) :
               i < j /\ t[p].chunks = s[i].chunks /\ t[q].chunks = s[j].chunks
  <2>1. PICK i \in 1 .. Len(s) : p = home[i] /\ t[p].chunks = s[i].chunks
    BY <1>3, <1>4
  <2>2. PICK j \in 1 .. Len(s) : q = home[j] /\ t[q].chunks = s[j].chunks
    BY <1>3, <1>4
  <2>3. i < j
    <3>1. j < i => home[j] < home[i]
      BY <1>2 DEF Repairs
    <3>2. p \in Nat /\ q \in Nat /\ i \in Nat /\ j \in Nat
      OBVIOUS
    <3> QED
      BY <1>4, <2>1, <2>2, <3>1, <3>2
  <2> QED
    BY <2>1, <2>2, <2>3
<1>5. IsFrom(t, s)
  BY <1>3, <1>4 DEF IsFrom
<1> QED
  BY <1>1, <1>5

\* New content behind it.
LEMMA OrderedAppend ==
  ASSUME NEW s \in Seq(ProperEvent), NEW e \in ProperEvent, NEW n,
         Ordered(s), AllWithin(s, n), Rising(e.chunks), Lays(s, e.chunks), Within(e.chunks, n)
  PROVE  Ordered(Append(s, e)) /\ AllWithin(Append(s, e), n)
<1>1. PICK t : t = Append(s, e)
  OBVIOUS
<1>2. /\ Len(t) = Len(s) + 1 /\ Len(s) \in Nat /\ t[Len(s) + 1] = e
      /\ \A q \in 1 .. Len(s) : t[q] = s[q]
  BY <1>1
<1>3. \A q \in 1 .. Len(t) : q \in 1 .. Len(s) \/ q = Len(s) + 1
  BY <1>2
<1>4. AllWithin(t, n) /\ \A q \in 1 .. Len(t) : Rising(t[q].chunks)
  BY <1>2, <1>3 DEF AllWithin, Ordered
<1>5. ASSUME NEW p \in 1 .. Len(t), NEW q \in 1 .. Len(t), p < q
      PROVE  Below(t[p].chunks, t[q].chunks)
  <2>1. p \in 1 .. Len(s)
    BY <1>2, <1>5
  <2>2. CASE q \in 1 .. Len(s)
    BY <1>2, <1>5, <2>1, <2>2 DEF Ordered
  <2>3. CASE q = Len(s) + 1
    BY <1>2, <2>1, <2>3 DEF Lays
  <2> QED
    BY <1>3, <2>2, <2>3
<1> QED
  BY <1>1, <1>4, <1>5 DEF Ordered

\* Laid end to end, what is ordered has nothing twice.
LEMMA OrderedFlat ==
  ASSUME NEW s \in Seq(ProperEvent), Ordered(s)
  PROVE  IsInjective(FlattenSeq([i \in DOMAIN s |-> s[i].chunks]))
<1> DEFINE n == Len(s)
<1>1. n \in Nat /\ DOMAIN s = 1 .. n /\ \A i \in 1 .. n : s[i] \in ProperEvent
  OBVIOUS
<1>2. \A e \in ProperEvent : e.chunks \in Seq(Chunks)
  BY DEF ProperEvent, Event
<1> HIDE DEF n
<1>3. PICK seqs : seqs = [i \in 1 .. n |-> s[i].chunks]
  OBVIOUS
<1>4. seqs \in Seq(Seq(Chunks)) /\ Len(seqs) = n /\ \A i \in 1 .. n : seqs[i] = s[i].chunks
  BY <1>1, <1>2, <1>3
<1>5. PICK f : Flattens(f, seqs, Chunks)
  BY <1>4, FlattenDefined
<1>6. /\ \A i \in 0 .. n : f[i] \in Seq(Chunks)
      /\ f[0] = <<>> /\ \A i \in 1 .. n : f[i] = f[i - 1] \o seqs[i]
      /\ FlattenSeq(seqs) = f[n]
  BY <1>4, <1>5 DEF Flattens
<1> DEFINE Laid(i) == Rising(f[i]) /\ \A j \in 1 .. n : i < j => Below(f[i], seqs[j])
           laid == {i \in 0 .. n : Laid(i)}
<1>7. 0 \in laid
  <2>1. Laid(0)
    BY <1>6, NoContent
  <2> QED
    BY <1>1, <2>1
<1>8. ASSUME NEW i \in 0 .. n - 1, i \in laid PROVE i + 1 \in laid
  <2>1. i + 1 \in 1 .. n /\ i \in 0 .. n /\ i < i + 1 /\ i + 1 \in 0 .. n
    BY <1>1
  <2>2. PICK g \in Seq(Chunks) : g = f[i]
    BY <1>6, <2>1
  <2>3. PICK c \in Seq(Chunks) : c = seqs[i + 1] /\ c = s[i + 1].chunks
    BY <1>1, <1>2, <1>4, <2>1
  <2>4. Rising(g) /\ \A j \in 1 .. n : i < j => Below(g, seqs[j])
    BY <1>8, <2>2
  <2>5. Rising(c) /\ Below(g, c) /\ \A j \in 1 .. n : i + 1 < j => Below(c, seqs[j])
    BY <1>4, <2>1, <2>3, <2>4 DEF Ordered, n
  <2>6. PICK t : t = g \o c
    OBVIOUS
  <2>7. f[i + 1] = t
    <3>1. (i + 1) - 1 = i
      BY <2>1
    <3> QED
      BY <1>6, <2>1, <2>2, <2>3, <2>6, <3>1
  <2>8. /\ DOMAIN t = 1 .. Len(g) + Len(c) /\ Len(g) \in Nat /\ Len(c) \in Nat
        /\ DOMAIN g = 1 .. Len(g) /\ DOMAIN c = 1 .. Len(c)
        /\ \A a \in 1 .. Len(g) : t[a] = g[a]
        /\ \A a \in Len(g) + 1 .. Len(g) + Len(c) : a - Len(g) \in 1 .. Len(c) /\ t[a] = c[a - Len(g)]
    BY <2>6
  <2>9. \A a \in DOMAIN t : a \in 1 .. Len(g) \/ a \in Len(g) + 1 .. Len(g) + Len(c)
    BY <2>8
  <2>10. Rising(t)
    <3>1. SUFFICES ASSUME NEW a \in DOMAIN t, NEW b \in DOMAIN t, a < b PROVE t[a] < t[b]
      BY DEF Rising
    <3>2. CASE a \in 1 .. Len(g) /\ b \in 1 .. Len(g)
      BY <2>4, <2>8, <3>1, <3>2 DEF Rising
    <3>3. CASE a \in 1 .. Len(g) /\ b \in Len(g) + 1 .. Len(g) + Len(c)
      BY <2>5, <2>8, <3>3 DEF Below
    <3>4. CASE a \in Len(g) + 1 .. Len(g) + Len(c) /\ b \in Len(g) + 1 .. Len(g) + Len(c)
      <4>1. a - Len(g) < b - Len(g) /\ a - Len(g) \in DOMAIN c /\ b - Len(g) \in DOMAIN c
        BY <2>8, <3>1, <3>4
      <4> QED
        BY <2>5, <2>8, <3>4, <4>1 DEF Rising
    <3> QED
      BY <2>8, <2>9, <3>1, <3>2, <3>3, <3>4
  <2>11. ASSUME NEW j \in 1 .. n, i + 1 < j PROVE Below(t, seqs[j])
    <3>1. Below(g, seqs[j]) /\ Below(c, seqs[j])
      BY <2>1, <2>4, <2>5, <2>11
    <3> QED
      BY <2>8, <2>9, <3>1 DEF Below
  <2>12. Laid(i + 1)
    BY <2>7, <2>10, <2>11
  <2> QED
    BY <2>1, <2>12
<1>9. n \in laid
  <2> HIDE DEF laid
  <2> QED
    BY <1>1, <1>7, <1>8, InductionUpTo
<1>10. PICK flat \in Seq(Chunks) : flat = FlattenSeq(seqs) /\ Rising(flat)
  BY <1>1, <1>6, <1>9
<1>11. IsInjective(flat)
  <2>1. SUFFICES ASSUME NEW a \in DOMAIN flat, NEW b \in DOMAIN flat, flat[a] = flat[b], a < b
                 PROVE  FALSE
    BY DEF IsInjective
  <2>2. flat[a] < flat[b] /\ flat[a] \in Chunks /\ flat[b] \in Chunks
    BY <1>10, <2>1 DEF Rising
  <2> QED
    BY <2>1, <2>2, TurnConstants DEF Chunks
<1> QED
  BY <1>1, <1>3, <1>10, <1>11

-----------------------------------------------------------------------------
(* Step by step.                                                           *)

\* What is in the conversation is in order; what is in the builder comes
\* behind it.
Sound == Ordered(stream) /\ AllWithin(stream, env.chunks)
Clean == Rising(text) /\ Within(text, env.chunks) /\ Lays(stream, text)

\* Or the builder has been committed and is on its way out.
Spent ==
  \/ pc = "done"
  \/ phase = "Complete" /\ pc = "dispatch"
  \/ phase = "Complete" /\ pc \in {"leave", "top"} /\ env.presses = 1 /\ NoRx

\* A single press notifies one handler.
OneRx ==
  /\ env.presses = 0 => NoRx
  /\ env.presses = 1 =>
       ~(turnRx /\ innerRx) /\ ~(turnRx /\ backoffRx) /\ ~(innerRx /\ backoffRx)

EmptyInBackoff == pc = "backoff" => text = <<>>

OrderInv ==
  OneRx /\ EmptyInBackoff /\ (env.presses <= 1 => Sound /\ (Clean \/ Spent))

\* At the start.
LEMMA OrderInit == Init => OrderInv
<1> SUFFICES ASSUME Init PROVE OrderInv
  OBVIOUS
<1>1. OneRx /\ EmptyInBackoff
  BY DEF Init, OneRx, EmptyInBackoff, NoRx
<1>2. env.chunks = 0 /\ text = <<>> /\ stream \in {<<>>, <<Request>>, PastTurn}
  BY DEF Init
<1>3. Clean
  <2>1. \A s, n : Rising(<<>>) /\ Within(<<>>, n) /\ Lays(s, <<>>)
    BY NoContent DEF Lays
  <2> QED
    BY <1>2, <2>1 DEF Clean
<1>4. Sound
  <2>1. Ordered(<<>>) /\ AllWithin(<<>>, 0)
    BY DEF Ordered, AllWithin
  <2>2. ASSUME NEW s \in {<<Request>>, PastTurn}
        PROVE  \A i \in 1 .. Len(s) : s[i].chunks \in {<<>>, <<0>>} /\ (s[i].chunks = <<0>> => i = 4)
    <3>1. Len(<<Request>>) = 1 /\ <<Request>>[1].chunks = <<>>
      BY DEF Request
    <3>2. Len(PastTurn) = 4
      BY DEF PastTurn
    <3>3. /\ PastTurn[1].chunks = <<>> /\ PastTurn[2].chunks = <<>>
          /\ PastTurn[3].chunks = <<>> /\ PastTurn[4].chunks = <<0>>
      BY DEF PastTurn, Request, Call, Result, Text
    <3>4. <<0>> # <<>>
      OBVIOUS
    <3>5. CASE s = <<Request>>
      BY <3>1, <3>4, <3>5
    <3>6. CASE s = PastTurn
      <4>1. Len(s) = 4
        BY <3>2, <3>6
      <4>2. \A i \in 1 .. 4 : i = 1 \/ i = 2 \/ i = 3 \/ i = 4
        OBVIOUS
      <4> QED
        BY <3>3, <3>4, <3>6, <4>1, <4>2
    <3> QED
      BY <3>5, <3>6
  <2>3. Rising(<<0>>) /\ Within(<<0>>, 0)
    BY DEF Rising, Within
  <2>4. ASSUME NEW s \in {<<Request>>, PastTurn} PROVE Ordered(s) /\ AllWithin(s, 0)
    <3>1. AllWithin(s, 0) /\ \A i \in 1 .. Len(s) : Rising(s[i].chunks)
      BY <2>2, <2>3, NoContent DEF AllWithin
    <3>2. ASSUME NEW i \in 1 .. Len(s), NEW j \in 1 .. Len(s), i < j
          PROVE  Below(s[i].chunks, s[j].chunks)
      <4>1. s[i].chunks = <<>> \/ s[j].chunks = <<>>
        BY <2>2, <3>2
      <4> QED
        BY <4>1, NoContent
    <3> QED
      BY <3>1, <3>2 DEF Ordered
  <2> QED
    BY <1>2, <2>1, <2>4 DEF Sound
<1> QED
  BY <1>1, <1>3, <1>4 DEF OrderInv

\* Content is kept, or goes with the builder; the builder is kept or reset.
LEMMA CleanReset ==
  ASSUME text' = <<>>
  PROVE  Clean'
<1>1. \A s, n : Rising(<<>>) /\ Within(<<>>, n) /\ Lays(s, <<>>)
  BY NoContent DEF Lays
<1> QED
  BY <1>1 DEF Clean

\* A step that adds no content keeps the order.
LEMMA OrderKept ==
  ASSUME Sound, Clean, IsFrom(stream', stream), env'.chunks = env.chunks, text' \in {text, <<>>}
  PROVE  Sound' /\ Clean'
<1>1. Sound'
  BY FromOrdered DEF Sound
<1>2. CASE text' = text
  BY <1>1, <1>2, FromOrdered DEF Clean
<1>3. CASE text' = <<>>
  BY <1>1, <1>3, CleanReset
<1> QED
  BY <1>1, <1>2, <1>3

\* The builder's content goes behind the conversation's.
LEMMA OrderPartial ==
  ASSUME Typed, Sound, Clean
  PROVE  Ordered(stream \o Partial) /\ AllWithin(stream \o Partial, env.chunks)
<1>1. stream \in Seq(ProperEvent) /\ text \in Seq(Chunks)
  BY DEF Typed, StreamsTyped
<1>2. CASE stream \o Partial = stream
  BY <1>2 DEF Sound
<1>3. CASE stream \o Partial = Append(stream, Text(text))
  <2>1. PICK e \in ProperEvent : e = Text(text)
    BY <1>1, EventsProper
  <2>2. e.chunks = text
    BY <2>1 DEF Text
  <2>3. Ordered(Append(stream, e)) /\ AllWithin(Append(stream, e), env.chunks)
    BY <1>1, <2>2, OrderedAppend DEF Sound, Clean
  <2> QED
    BY <1>3, <2>1, <2>3
<1> QED
  BY <1>1, <1>2, <1>3, PartialCases

\* A builder that has been committed is not committed again.
LEMMA SpentStep ==
  ASSUME Typed, BudgetInv, Spent, Turn \/ User, env'.presses <= 1
  PROVE  stream' = stream /\ env'.chunks = env.chunks /\ Spent'
<1>0. env \in [chunks : 0 .. MaxChunks, calls : 0 .. MaxCalls, inResponse : 0 .. MaxCalls,
               presses : 0 .. MaxPresses, metadata : 0 .. MaxMetadata]
      /\ env.presses \in Nat
  BY TurnConstants DEF Typed, EnvTyped
<1>1. phase = "Complete" /\ pc \in {"dispatch", "leave", "top"}
      /\ (pc \in {"leave", "top"} => env.presses = 1 /\ NoRx)
  <2>1. pc # "done"
    BY DEF Turn, User, LoopHead, ProviderEvent, Menu, Tools, CompleteEarly, NoInterrupt, FinishTurn,
        StartTurn, OpenRequest, FlushCall, ToolsCompleted, ToolsStopped, ToolsEscalated, CommitResponses,
        Connected, ConnectFails, ContentPart, CallPart, FlushText, Quiet, Patch, Finished,
        FinishedRefused, Rebuild, RebuildRefused, StreamErrorRetried, StreamErrorFatal, Decide,
        BackoffElapsed, KeepGoing, Stop, Abort, ReplyNow, Escalate, LeaveStreaming, MenuOpen,
        StartTools, ToolsRestarted, ToolInterruptPassed, FutureDropped, Press,
        RequestShutdown, Killed, AtAwait, Executing
  <2> QED
    BY <2>1 DEF Spent
<1>2. CASE User
  <2>1. /\ stream' = stream /\ phase' = phase /\ pc' \in {pc, "done"}
        /\ env' = [env EXCEPT !.presses = env.presses + 1]
    BY <1>2 DEF User, Press, RequestShutdown, Killed, End
  <2>2. env'.chunks = env.chunks /\ env'.presses = env.presses + 1
    BY <1>0, <2>1
  <2>3. pc = "dispatch"
    BY <1>0, <1>1, <2>2
  <2> QED
    BY <1>1, <2>1, <2>2, <2>3 DEF Spent
<1>3. CASE Turn
  <2>1. NoInterrupt \/ FinishTurn \/ LeaveStreaming
    BY <1>1, <1>3
    DEF Turn, LoopHead, ProviderEvent, Menu, Tools, CompleteEarly, NoInterrupt, FinishTurn,
        StartTurn, OpenRequest, FlushCall, ToolsCompleted, ToolsStopped, ToolsEscalated,
        Connected, ConnectFails, ContentPart, CallPart, FlushText, Quiet, Patch, Finished,
        FinishedRefused, Rebuild, RebuildRefused, StreamErrorRetried, StreamErrorFatal, Decide,
        BackoffElapsed, KeepGoing, Stop, Abort, ReplyNow, Escalate, MenuOpen,
        StartTools, ToolsRestarted, ToolInterruptPassed, FutureDropped, AtAwait, Executing, NoRx
  <2>2. stream' = stream /\ env' = env /\ phase' = phase
    BY <2>1 DEF NoInterrupt, FinishTurn, LeaveStreaming
  <2>3. CASE NoInterrupt \/ FinishTurn
    <3>1. pc' \in {"dispatch", "done"}
      BY <2>3 DEF NoInterrupt, FinishTurn, End
    <3> QED
      BY <1>1, <2>2, <3>1 DEF Spent
  <2>4. CASE LeaveStreaming
    <3>1. pc = "leave" /\ ~turnRx /\ ~backoffRx
      BY <1>1, <2>4 DEF LeaveStreaming, NoRx
    <3>2. CASE pc' = "done"
      BY <2>2, <3>2 DEF Spent
    <3>3. CASE pc' # "done"
      <4>1. pc' = "top" /\ innerRx' = FALSE /\ turnRx' = turnRx /\ backoffRx' = backoffRx
        BY <2>4, <3>3 DEF LeaveStreaming, CycleSaved, CycleLost, End
      <4> QED
        BY <1>1, <2>2, <3>1, <4>1 DEF Spent, NoRx
    <3> QED
      BY <3>2, <3>3
  <2> QED
    BY <2>1, <2>3, <2>4
<1> QED
  BY <1>2, <1>3

\* Each group of steps, from a builder that is not committed yet.
LEMMA OrderLoopHead ==
  ASSUME Typed, CallInv, Sound, Clean, LoopHead
  PROVE  Sound' /\ (Clean' \/ Spent')
<1>1. stream \in Seq(ProperEvent)
  BY DEF Typed, StreamsTyped
<1>2. CASE CompleteEarly
  <2>1. stream' = stream \o Partial /\ env' = env /\ phase' = "Complete" /\ pc' = "dispatch"
    BY <1>2 DEF CompleteEarly
  <2>2. Sound'
    BY <2>1, OrderPartial DEF Sound
  <2> QED
    BY <2>1, <2>2 DEF Spent
<1>3. CASE NoInterrupt \/ FinishTurn \/ Connected \/ ConnectFails
  <2>1. stream' = stream /\ text' = text
    BY <1>3 DEF NoInterrupt, FinishTurn, Connected, ConnectFails, builderVars
  <2>2. env'.chunks = env.chunks
    BY <1>3 DEF NoInterrupt, FinishTurn, Connected, ConnectFails, Typed, EnvTyped
  <2> QED
    BY <1>1, <2>1, <2>2, FromSelf, OrderKept
<1>4. CASE StartTurn
  <2>1. PICK s : s = IF trim THEN Trimmed(stream) ELSE stream
    OBVIOUS
  <2>2. s \in Seq(ProperEvent) /\ IsFrom(s, stream)
    <3>1. CASE trim
      BY <1>1, <2>1, <3>1, TrimmedCut, TrimmedTyped, FromPrefix
    <3>2. CASE ~trim
      BY <1>1, <2>1, <3>2, FromSelf
    <3> QED
      BY <3>1, <3>2
  <2>3. stream' = Append(s, Request) /\ Request \in ProperEvent /\ Request.chunks = <<>>
    BY <1>4, <2>1, EventsProper DEF StartTurn, WithRequest, Request
  <2>4. IsFrom(stream', stream)
    BY <1>1, <2>2, <2>3, FromAppend
  <2> QED
    BY <1>4, <2>4, OrderKept DEF StartTurn, builderVars
<1>5. CASE OpenRequest
  <2>1. IsFrom(stream', stream)
    BY <1>1, <1>5, FromSanitized DEF OpenRequest, CallInv, CallsKnown
  <2> QED
    BY <1>5, <2>1, OrderKept DEF OpenRequest, builderVars
<1> QED
  BY <1>2, <1>3, <1>4, <1>5 DEF LoopHead

\* An event of the provider is behind all there was.
LEMMA OrderProviderEvent ==
  ASSUME Typed, Sound, Clean, ProviderEvent
  PROVE  Sound' /\ (Clean' \/ Spent')
<1>1. stream \in Seq(ProperEvent) /\ text \in Seq(Chunks)
  BY DEF Typed, StreamsTyped
<1>2. env.chunks \in Nat
  BY TurnConstants DEF Typed, EnvTyped
<1>3. CASE ContentPart
  <2>1. env'.chunks = env.chunks + 1
    BY <1>3 DEF ContentPart, Typed, EnvTyped
  <2>2. stream' = stream /\ text' = Append(text, env.chunks + 1)
    BY <1>3 DEF ContentPart
  <2>3. PICK t : t = Append(text, env.chunks + 1)
    OBVIOUS
  <2>4. /\ DOMAIN text = 1 .. Len(text) /\ DOMAIN t = 1 .. Len(text) + 1 /\ Len(text) \in Nat
        /\ t[Len(text) + 1] = env.chunks + 1
        /\ \A a \in 1 .. Len(text) : t[a] = text[a] /\ text[a] \in Nat
    <3>1. \A a \in 1 .. Len(text) : text[a] \in Nat
      BY <1>1, TurnConstants DEF Chunks
    <3> QED
      BY <1>1, <2>3, <3>1
  <2>5. \A a \in 1 .. Len(text) + 1 : a \in 1 .. Len(text) \/ a = Len(text) + 1
    BY <2>4
  <2>6. \A a \in 1 .. Len(text) : text[a] <= env.chunks
    BY <2>4 DEF Clean, Within
  <2>7. Rising(t)
    <3>1. SUFFICES ASSUME NEW a \in DOMAIN t, NEW b \in DOMAIN t, a < b PROVE t[a] < t[b]
      BY DEF Rising
    <3>2. a \in 1 .. Len(text)
      BY <2>4, <3>1
    <3>3. CASE b \in 1 .. Len(text)
      BY <2>4, <3>1, <3>2, <3>3 DEF Clean, Rising
    <3>4. CASE b = Len(text) + 1
      BY <1>2, <2>4, <2>6, <3>2, <3>4
    <3> QED
      BY <2>4, <2>5, <3>3, <3>4
  <2>8. Within(t, env.chunks + 1)
    BY <1>2, <2>4, <2>5, <2>6 DEF Within
  <2>9. ASSUME NEW i \in 1 .. Len(stream)
        PROVE  Below(stream[i].chunks, t) /\ Within(stream[i].chunks, env.chunks + 1)
    <3>1. PICK c \in Seq(Chunks) : c = stream[i].chunks
      BY <1>1 DEF ProperEvent, Event
    <3>2. \A a \in DOMAIN c : c[a] \in Nat /\ c[a] <= env.chunks
      BY <3>1, TurnConstants DEF Sound, AllWithin, Within, Chunks
    <3>3. Below(c, text)
      BY <3>1 DEF Clean, Lays
    <3>4. Within(c, env.chunks + 1)
      BY <1>2, <3>2 DEF Within
    <3>5. Below(c, t)
      BY <1>2, <2>4, <2>5, <3>2, <3>3 DEF Below
    <3> QED
      BY <3>1, <3>4, <3>5
  <2>10. Sound' /\ Clean'
    <3>1. Ordered(stream) /\ AllWithin(stream, env.chunks + 1) /\ Lays(stream, t)
      BY <2>9 DEF Sound, AllWithin, Lays
    <3> QED
      BY <2>1, <2>2, <2>3, <2>7, <2>8, <3>1 DEF Sound, Clean
  <2> QED
    BY <2>10
<1>4. CASE CallPart \/ Quiet \/ Rebuild \/ Patch
  <2>1. stream' = stream /\ text' = text
    BY <1>4 DEF CallPart, Quiet, Rebuild, Patch, builderVars
  <2>2. env'.chunks = env.chunks
    BY <1>4 DEF CallPart, Quiet, Rebuild, Patch, Typed, EnvTyped
  <2> QED
    BY <1>1, <2>1, <2>2, FromSelf, OrderKept
<1>5. CASE FlushText \/ Finished \/ StreamErrorRetried
  <2>1. stream' = stream \o Partial /\ env' = env /\ text' = <<>>
    BY <1>5 DEF FlushText, Finished, StreamErrorRetried, CommittedPartial, BuilderReset
  <2>2. Sound'
    BY <2>1, OrderPartial DEF Sound
  <2> QED
    BY <2>1, <2>2, CleanReset
<1>6. CASE RebuildRefused \/ StreamErrorFatal
  <2>1. stream' = stream \o Partial /\ env' = env /\ pc' = "done"
    BY <1>6 DEF RebuildRefused, StreamErrorFatal, CommittedPartial, End
  <2>2. Sound'
    BY <2>1, OrderPartial DEF Sound
  <2> QED
    BY <2>1, <2>2 DEF Spent
<1>7. CASE FinishedRefused
  <2>1. IsFrom(stream', stream)
    BY <1>1, <1>7, TrailingTextCut, FromPrefix DEF FinishedRefused
  <2> QED
    BY <1>7, <2>1, OrderKept DEF FinishedRefused, BuilderReset
<1>8. CASE FlushCall
  <2>1. Call(openCall) \in ProperEvent /\ Call(openCall).chunks = <<>>
    BY <1>8, EventsProper DEF FlushCall, Typed, PlaceTyped, Call
  <2>2. IsFrom(stream', stream)
    BY <1>1, <1>8, <2>1, FromSelf, FromAppend DEF FlushCall
  <2> QED
    BY <1>8, <2>2, OrderKept DEF FlushCall
<1> QED
  BY <1>3, <1>4, <1>5, <1>6, <1>7, <1>8 DEF ProviderEvent

\* A stop leaves the builder as it is: that was the only press.
LEMMA OrderMenu ==
  ASSUME Typed, OneRx, EmptyInBackoff, env.presses <= 1, Sound, Clean, Menu
  PROVE  Sound' /\ (Clean' \/ Spent')
<1>1. stream \in Seq(ProperEvent) /\ text \in Seq(Chunks) /\ env.presses \in Nat
  BY TurnConstants DEF Typed, StreamsTyped, EnvTyped
<1>2. MenuOpen /\ env' = env
  BY DEF Menu, KeepGoing, Stop, Abort, ReplyNow, Escalate
<1>3. CASE KeepGoing
  <2>1. stream' = stream /\ text' = text
    <3>1. pc = "backoff" => stream \o Partial = stream
      BY <1>1, PartialCases DEF EmptyInBackoff
    <3> QED
      BY <1>2, <1>3, <3>1 DEF KeepGoing, MenuOpen, builderVars
  <2> QED
    BY <1>1, <1>2, <2>1, FromSelf, OrderKept
<1>4. CASE Stop
  <2>1. stream' = stream \o Partial /\ phase' = "Complete" /\ pc' = "leave"
    BY <1>4 DEF Stop
  <2>2. Sound'
    BY <1>2, <2>1, OrderPartial DEF Sound
  <2>3. env.presses = 1
    BY <1>1, <1>2 DEF OneRx, NoRx, MenuOpen
  <2>4. NoRx'
    <3>1. MenuTaken
      BY <1>4 DEF Stop
    <3>2. CASE pc = "poll"
      <4>1. innerRx' = FALSE /\ turnRx' = turnRx /\ backoffRx' = backoffRx /\ innerRx
        BY <1>2, <3>1, <3>2 DEF MenuTaken, MenuOpen
      <4> QED
        BY <2>3, <4>1 DEF OneRx, NoRx
    <3>3. CASE pc = "backoff"
      <4>1. backoffRx' = FALSE /\ turnRx' = turnRx /\ innerRx' = innerRx /\ backoffRx
        BY <1>2, <3>1, <3>3 DEF MenuTaken, MenuOpen
      <4> QED
        BY <2>3, <4>1 DEF OneRx, NoRx
    <3> QED
      BY <1>2, <3>2, <3>3 DEF MenuOpen
  <2> QED
    BY <1>2, <2>1, <2>2, <2>3, <2>4 DEF Spent
<1>5. CASE Abort
  <2>1. stream' = stream /\ text' = text
    BY <1>5 DEF Abort, builderVars
  <2> QED
    BY <1>1, <1>2, <2>1, FromSelf, OrderKept
<1>6. CASE ReplyNow
  <2>1. PICK s \in Seq(ProperEvent) : s = stream \o Partial
    BY <1>1, PartialCases
  <2>2. Reply \in ProperEvent /\ Reply.chunks = <<>>
    BY EventsProper DEF Reply
  <2>3. stream' = Append(s, Reply) /\ text' = <<>>
    BY <1>6, <2>1 DEF ReplyNow, BuilderReset
  <2>4. Ordered(s) /\ AllWithin(s, env.chunks)
    BY <2>1, OrderPartial
  <2>5. IsFrom(Append(s, Reply), s)
    BY <2>1, <2>2, FromSelf, FromAppend
  <2>6. Sound'
    BY <1>2, <2>3, <2>4, <2>5, FromOrdered DEF Sound
  <2> QED
    BY <2>3, <2>6, CleanReset
<1>7. CASE Escalate
  <2>1. stream' = stream \o Partial /\ pc' = "done"
    BY <1>7 DEF Escalate, End
  <2>2. Sound'
    BY <1>2, <2>1, OrderPartial DEF Sound
  <2> QED
    BY <2>1, <2>2 DEF Spent
<1> QED
  BY <1>3, <1>4, <1>5, <1>6, <1>7 DEF Menu

\* The other steps add no content.
LEMMA OrderOther ==
  ASSUME Typed, Sound, Clean,
         Tools \/ Decide \/ BackoffElapsed \/ LeaveStreaming \/ FutureDropped \/ User
  PROVE  Sound' /\ (Clean' \/ Spent')
<1>1. stream \in Seq(ProperEvent)
  BY DEF Typed, StreamsTyped
<1>2. text' = text /\ env'.chunks = env.chunks
  <2>1. CASE Tools \/ Decide \/ BackoffElapsed \/ LeaveStreaming \/ FutureDropped
    BY <2>1
    DEF Tools, StartTools, ToolsCompleted, ToolsStopped, ToolsEscalated, ToolsRestarted, CommitResponses,
        ToolInterruptPassed, Decide, BackoffElapsed, LeaveStreaming, FutureDropped, builderVars
  <2>2. CASE User
    BY <2>2 DEF User, Press, RequestShutdown, Killed, builderVars, Typed, EnvTyped
  <2> QED
    BY <2>1, <2>2
<1>3. CASE ToolsCompleted \/ ToolsStopped \/ ToolsEscalated
  <2>1. stream' = stream \o Responses
    BY <1>3 DEF ToolsCompleted, ToolsStopped, ToolsEscalated, CommitResponses
  <2>2. PICK r \in Seq(ProperEvent) : r = Responses
    BY ResponsesTyped
  <2>3. \A i \in 1 .. Len(r) : r[i].chunks = <<>>
    BY <2>2, ResponsesTyped
  <2>4. IsFrom(stream', stream)
    BY <1>1, <2>1, <2>2, <2>3, FromConcat
  <2> QED
    BY <1>2, <2>4, OrderKept
<1>4. CASE ~(ToolsCompleted \/ ToolsStopped \/ ToolsEscalated)
  <2>1. stream' = stream
    BY <1>4
    DEF Tools, StartTools, ToolsRestarted, ToolInterruptPassed, Decide, BackoffElapsed,
        LeaveStreaming, FutureDropped, User, Press, RequestShutdown, Killed
  <2> QED
    BY <1>1, <1>2, <2>1, FromSelf, OrderKept
<1> QED
  BY <1>3, <1>4

\* The builder stays empty while the loop waits to retry.
LEMMA BackoffEmptyStep ==
  ASSUME EmptyInBackoff, Turn \/ User
  PROVE  EmptyInBackoff'
BY DEF EmptyInBackoff, Turn, User, LoopHead, ProviderEvent, Menu, Tools, CompleteEarly, NoInterrupt,
       FinishTurn, StartTurn, OpenRequest, FlushCall, ToolsCompleted, ToolsStopped, ToolsEscalated,
       CommitResponses, Connected, ConnectFails, ContentPart, CallPart, FlushText, Quiet, Patch, Finished,
       FinishedRefused, Rebuild, RebuildRefused, StreamErrorRetried, StreamErrorFatal, Decide,
       BackoffElapsed, KeepGoing, Stop, Abort, ReplyNow, Escalate, LeaveStreaming, CycleSaved,
       CycleLost, StartTools, ToolsRestarted, ToolInterruptPassed, FutureDropped, Press,
       RequestShutdown, Killed, End, BuilderReset, builderVars

\* One press is at one place at a time.
LEMMA OneRxStep ==
  ASSUME Typed, OneRx, Turn \/ User
  PROVE  OneRx'
<1>0. env.presses \in Nat
  BY PressesStep
<1>1. ASSUME env'.presses = env.presses, turnRx' \in {turnRx, FALSE}, innerRx' \in {innerRx, FALSE},
             backoffRx' \in {backoffRx, FALSE}
      PROVE  OneRx'
  <2>1. ASSUME turnRx' PROVE turnRx
    <3>1. turnRx' # FALSE
      BY <2>1
    <3>2. turnRx' = turnRx
      BY <1>1, <3>1
    <3> QED
      BY <2>1, <3>2
  <2>2. ASSUME innerRx' PROVE innerRx
    <3>1. innerRx' # FALSE
      BY <2>2
    <3>2. innerRx' = innerRx
      BY <1>1, <3>1
    <3> QED
      BY <2>2, <3>2
  <2>3. ASSUME backoffRx' PROVE backoffRx
    <3>1. backoffRx' # FALSE
      BY <2>3
    <3>2. backoffRx' = backoffRx
      BY <1>1, <3>1
    <3> QED
      BY <2>3, <3>2
  <2>4. env'.presses = env.presses
    BY <1>1
  <2>5. env.presses = 0 => NoRx'
    BY <2>1, <2>2, <2>3, Zenon DEF OneRx, NoRx
  <2>6. env.presses = 1 =>
          ~(turnRx' /\ innerRx') /\ ~(turnRx' /\ backoffRx') /\ ~(innerRx' /\ backoffRx')
    BY <2>1, <2>2, <2>3, Zenon DEF OneRx
  <2> QED
    BY <2>4, <2>5, <2>6 DEF OneRx
<1>2. CASE User
  <2>2. env'.presses = env.presses + 1
    BY <1>2, PressesStep
  <2>3. SUFFICES ASSUME env.presses = 0
                 PROVE  ~(turnRx' /\ innerRx') /\ ~(turnRx' /\ backoffRx') /\ ~(innerRx' /\ backoffRx')
    BY <1>0, <2>2 DEF OneRx
  <2>4. ~turnRx /\ ~innerRx /\ ~backoffRx
    BY <2>3 DEF OneRx, NoRx
  <2>5. CASE Press
    <3>1. \/ turnRx' = turnRx /\ innerRx' = innerRx
          \/ turnRx' = turnRx /\ backoffRx' = backoffRx
          \/ innerRx' = innerRx /\ backoffRx' = backoffRx
      BY <2>5 DEF Press
    <3> QED
      BY <2>4, <3>1
  <2>6. CASE RequestShutdown
    <3>1. turnRx' = turnRx /\ innerRx' = innerRx /\ backoffRx' = backoffRx
      BY <2>6 DEF RequestShutdown, rxVars
    <3> QED
      BY <2>4, <3>1
  <2>7. CASE Killed
    <3>1. turnRx' = FALSE /\ innerRx' = FALSE /\ backoffRx' = FALSE
      BY <2>7 DEF Killed, End
    <3> QED
      BY <3>1
  <2> QED
    BY <1>2, <2>5, <2>6, <2>7 DEF User
<1>3. CASE Turn
  <2>1. env'.presses = env.presses
    BY <1>3, PressesStep
  <2> USE DEF End, rxVars
  <2>2. CASE LoopHead
    BY <1>1, <2>1, <2>2
    DEF LoopHead, CompleteEarly, NoInterrupt, FinishTurn, StartTurn, OpenRequest, Connected, ConnectFails
  <2>3. CASE ProviderEvent
    BY <1>1, <2>1, <2>3
    DEF ProviderEvent, ContentPart, CallPart, FlushText, FlushCall, Quiet, Patch, Finished,
        FinishedRefused, Rebuild, RebuildRefused, StreamErrorRetried, StreamErrorFatal
  <2>4. CASE Menu
    BY <1>1, <2>1, <2>4 DEF Menu, KeepGoing, Stop, Abort, ReplyNow, Escalate, MenuTaken
  <2>5. CASE Tools /\ ~ToolInterruptPassed
    BY <1>1, <2>1, <2>5
    DEF Tools, StartTools, ToolsCompleted, ToolsStopped, ToolsEscalated, CommitResponses, ToolsRestarted
  <2>6. CASE ToolInterruptPassed
    <3>1. innerRx /\ innerRx' = FALSE /\ backoffRx' = backoffRx
      BY <2>6 DEF ToolInterruptPassed
    <3> QED
      BY <2>1, <3>1 DEF OneRx, NoRx
  <2>7. CASE Decide \/ BackoffElapsed \/ LeaveStreaming \/ FutureDropped
    BY <1>1, <2>1, <2>7
    DEF Decide, BackoffElapsed, LeaveStreaming, CycleSaved, CycleLost, FutureDropped
  <2> QED
    BY <1>3, <2>2, <2>3, <2>4, <2>5, <2>6, <2>7 DEF Turn
<1> QED
  BY <1>2, <1>3

\* The order of the content holds of every state.
LEMMA OrderAlways == Spec => []OrderInv
<1>1. Typed /\ BudgetInv /\ CallInv /\ OrderInv /\ [Next]_vars => OrderInv'
  <2> SUFFICES ASSUME Typed, BudgetInv, CallInv, OrderInv, [Next]_vars PROVE OrderInv'
    OBVIOUS
  <2>1. CASE Turn \/ User
    <3>1. OneRx' /\ EmptyInBackoff'
      BY <2>1, OneRxStep, BackoffEmptyStep DEF OrderInv
    <3>2. ASSUME env'.presses <= 1 PROVE Sound' /\ (Clean' \/ Spent')
      <4>1. env.presses <= 1
        <5>1. /\ env.presses \in Nat
              /\ \/ env'.presses = env.presses \/ env'.presses = env.presses + 1
          BY <2>1, PressesStep
        <5> QED
          BY <3>2, <5>1
      <4>2. Sound /\ (Clean \/ Spent)
        BY <4>1 DEF OrderInv
      <4>3. CASE Spent
        <5>1. stream' = stream /\ env'.chunks = env.chunks /\ Spent'
          BY <2>1, <3>2, <4>3, SpentStep
        <5> QED
          BY <4>2, <5>1 DEF Sound
      <4>4. CASE Clean
        BY <2>1, <4>1, <4>2, <4>4, OrderLoopHead, OrderProviderEvent, OrderMenu, OrderOther
        DEF OrderInv, Turn
      <4> QED
        BY <4>2, <4>3, <4>4
    <3> QED
      BY <3>1, <3>2 DEF OrderInv
  <2>2. CASE UNCHANGED vars
    BY <2>2 DEF vars, OrderInv, OneRx, NoRx, EmptyInBackoff, Sound, Clean, Spent
  <2> QED
    BY <2>1, <2>2 DEF Next, Done
<1> QED
  BY CallAlways, OrderInit, <1>1, PTL DEF Spec

\* Where the user has interrupted the turn at most once, no part of the content
\* is in the conversation twice: a retry resets the builder it commits, a
\* rebuild keeps it uncommitted, and what a stop commits is not committed again
\* on the way out.
THEOREM ContentIsSaidOnce == Spec => []ContentIsNotRepeated
<1>1. Typed /\ OrderInv => ContentIsNotRepeated
  <2> SUFFICES ASSUME Typed, OrderInv, env.presses <= 1
               PROVE  IsInjective(FlattenSeq([i \in DOMAIN stream |-> stream[i].chunks]))
    BY DEF ContentIsNotRepeated
  <2>1. stream \in Seq(ProperEvent) /\ Ordered(stream)
    BY DEF Typed, StreamsTyped, OrderInv, Sound
  <2> QED
    BY <2>1, OrderedFlat
<1> QED
  BY CallAlways, OrderAlways, <1>1, PTL
=============================================================================
