------------------------ MODULE ToolExecution_proofs ------------------------
(***************************************************************************)
(* Theorems about the execution of a batch of tool calls, for any number   *)
(* of calls, presses, questions and panics and any capacity of the event   *)
(* channel: the types of the state, which say what each event may carry;   *)
(* that a call with a result is not cancelled afterwards; that the batch   *)
(* keeps the promise of ToolBatch.                                         *)
(*                                                                         *)
(* Then what the event loop relies on without checking it: each call has   *)
(* one thing under way until it has a result and nothing afterwards, the   *)
(* terminal belongs to one prompt, a reply written at the menu reaches the *)
(* turn, and the notes about a call agree with what is under way for it.   *)
(***************************************************************************)
EXTENDS ToolExecution, SequenceTheorems, FiniteSetTheorems, TLAPS

-----------------------------------------------------------------------------
(* Lemmas about the event loop's helpers.                                  *)

\* What a task reports is an event, and the channel has room for it.
LEMMA ReportsTyped ==
  ASSUME TypeOK, NEW task, NEW event \in Events, Reports(task, event)
  PROVE  /\ tasks' \subseteq Tasks
         /\ channel' \in Seq(Events) /\ Len(channel') <= ChannelSize
         /\ UNCHANGED <<config, promptActive, queue, states, results, ledger, verdict,
                        pressVars, dead>>
<1>1. channel \in Seq(Events) /\ Len(channel) \in Nat
  BY DEF TypeOK
<1>2. Len(Append(channel, event)) = Len(channel) + 1 /\ Append(channel, event) \in Seq(Events)
  BY <1>1
<1> QED
  BY <1>1, <1>2, ConstantsAssumption DEF Reports, HasRoom, TypeOK

\* The event taken is an event, and the rest of the channel is in bounds.
LEMMA TakesTyped ==
  ASSUME TypeOK, NEW kinds, Takes(kinds)
  PROVE  /\ Event \in Events /\ Event.kind \in kinds
         /\ channel' \in Seq(Events) /\ Len(channel') <= ChannelSize
<1>1. channel \in Seq(Events) /\ channel # <<>> /\ channel' = Tail(channel)
  BY DEF TypeOK, Takes
<1>2. Tail(channel) \in Seq(Events) /\ Len(Tail(channel)) = Len(channel) - 1
  BY <1>1
<1>3. Head(channel) \in Events
  BY <1>1
<1> QED
  BY <1>1, <1>2, <1>3, ConstantsAssumption DEF TypeOK, Takes, Event

\* Starting a prompt or queueing it keeps the types.
LEMMA PromptTyped ==
  ASSUME TypeOK, NEW prompt \in Prompts, PromptOrQueue(prompt)
  PROVE  /\ tasks' \subseteq Tasks /\ promptActive' \in BOOLEAN
         /\ queue' \in Seq(Prompts) /\ states' \in [Tools -> ToolCallState]
<1>1. prompt.tool \in Tools /\ Awaiting(prompt) \in ToolCallState /\ prompt \in Tasks
  BY DEF Prompts, Awaiting, ToolCallState, Tasks
<1>2. CASE promptActive
  <2>1. queue' = Append(queue, prompt) /\ UNCHANGED <<tasks, promptActive, states>>
    BY <1>2 DEF PromptOrQueue
  <2>2. queue \in Seq(Prompts)
    BY DEF TypeOK
  <2>3. queue' \in Seq(Prompts)
    BY <2>1, <2>2
  <2> QED
    BY <2>1, <2>3 DEF TypeOK
<1>3. CASE ~promptActive
  BY <1>1, <1>3 DEF PromptOrQueue, TypeOK
<1> QED
  BY <1>2, <1>3

\* So does handing the terminal to the next prompt.
LEMMA NextPromptTyped ==
  ASSUME TypeOK, NEW started \in SUBSET Tasks,
         NEW settled \in [Tools -> ToolCallState], NextPrompt(started, settled)
  PROVE  /\ tasks' \subseteq Tasks /\ promptActive' \in BOOLEAN
         /\ queue' \in Seq(Prompts) /\ states' \in [Tools -> ToolCallState]
<1>1. CASE queue = <<>>
  BY <1>1 DEF NextPrompt, TypeOK
<1>2. CASE queue # <<>>
  <2>1. queue \in Seq(Prompts) /\ Head(queue) \in Prompts /\ Tail(queue) \in Seq(Prompts)
    BY <1>2 DEF TypeOK
  <2>2. /\ Head(queue).tool \in Tools /\ Awaiting(Head(queue)) \in ToolCallState
        /\ Head(queue) \in Tasks
    BY <2>1 DEF Prompts, Awaiting, ToolCallState, Tasks
  <2> QED
    BY <1>2, <2>1, <2>2 DEF NextPrompt, TypeOK
<1> QED
  BY <1>1, <1>2

-----------------------------------------------------------------------------
(* Type correctness.                                                       *)

LEMMA TypeInit == Init => TypeOK
<1> SUFFICES ASSUME Init PROVE TypeOK
  OBVIOUS
<1>1. tasks \subseteq Tasks
  BY DEF Init, Tasks, Run, Task
<1>2. channel \in Seq(Events) /\ Len(channel) <= ChannelSize /\ queue \in Seq(Prompts)
  BY ConstantsAssumption DEF Init
<1>3. /\ asks \in [Tools -> 0 .. MaxAsks] /\ unanswered \in [Tools -> Int]
      /\ states \in [Tools -> ToolCallState] /\ results \in [Tools -> Response \cup {None}]
      /\ presses \in 0 .. MaxPresses /\ outcome \in Completed .. Escalated
  BY ConstantsAssumption DEF Init, ToolCallState, Completed, Escalated
<1> QED
  BY <1>1, <1>2, <1>3 DEF Init, TypeOK

LEMMA TasksKeepTypes ==
  ASSUME TypeOK, NEW t \in Tools,
         ToolTask(t) \/ ToolPanics(t) \/ AnswerTask(t) \/ Press \/ Forward \/ ForwardSends
  PROVE  TypeOK'
<1>1. CASE ToolReturns(t)
  <2>1. PICK result \in Outputs : Reports(Run(t), Task("result", t, result))
    BY <1>1 DEF ToolReturns
  <2>2. Task("result", t, result) \in Events
    BY DEF Task, Events
  <2> QED
    BY <1>1, <2>1, <2>2, ReportsTyped DEF ToolReturns, TypeOK, config, ledger, verdict, pressVars
<1>2. CASE ToolAsks(t)
  <2>1. PICK q \in Questions : Reports(Run(t), Task("needsInput", t, q))
    BY <1>2 DEF ToolAsks
  <2>2. Task("needsInput", t, q) \in Events
    BY DEF Task, Events, QuestionEvents
  <2>3. asks' \in [Tools -> 0 .. MaxAsks]
    BY <1>2, ConstantsAssumption DEF ToolAsks, TypeOK
  <2> QED
    BY <2>1, <2>2, <2>3, ReportsTyped DEF TypeOK, config, ledger, verdict, pressVars
<1>3. CASE ToolPanics(t)
  BY <1>3 DEF ToolPanics, TypeOK, config, ledger, verdict, pressVars
<1>4. CASE UserAnswers(t)
  <2>1. PICK q \in Questions, kind \in {"answer", "answerForTurn", "promptCancelled"} :
          Reports(Task("question", t, q), Task(kind, t, q))
    BY <1>4 DEF UserAnswers
  <2>2. Task(kind, t, q) \in Events
    BY DEF Task, Events, QuestionEvents
  <2> QED
    BY <1>4, <2>1, <2>2, ReportsTyped DEF UserAnswers, TypeOK, config, ledger, verdict, pressVars
<1>5. CASE UserConfirms(t)
  <2>1. PICK result \in Outputs : \E final \in {result, "withheld"} :
          Reports(Task("delivery", t, result), Task("processed", t, final))
    BY <1>5 DEF UserConfirms
  <2>2. PICK final \in {result, "withheld"} :
          Reports(Task("delivery", t, result), Task("processed", t, final))
    BY <2>1
  <2>3. Task("processed", t, final) \in Events
    BY DEF Task, Events
  <2> QED
    BY <1>5, <2>2, <2>3, ReportsTyped DEF UserConfirms, TypeOK, config, ledger, verdict, pressVars
<1>6. CASE AssistantAnswers(t)
  <2>1. PICK q \in Questions, kind \in {"inquiryAnswered", "inquiryFailed"} :
          Reports(Task("inquiry", t, q), Task(kind, t, q))
    BY <1>6 DEF AssistantAnswers
  <2>2. Task(kind, t, q) \in Events
    BY DEF Task, Events, QuestionEvents
  <2> QED
    BY <1>6, <2>1, <2>2, ReportsTyped
    DEF AssistantAnswers, TypeOK, config, ledger, verdict, pressVars
<1>7. CASE Press
  BY <1>7, ConstantsAssumption DEF Press, TypeOK, config, ledger, verdict
<1>8. CASE Forward
  BY <1>8 DEF Forward, TypeOK, config, ledger, verdict
<1>9. CASE ForwardSends
  <2>1. channel \in Seq(Events) /\ Interrupt \in Events
    BY DEF TypeOK, Events
  <2>2. Append(channel, Interrupt) \in Seq(Events)
          /\ Len(Append(channel, Interrupt)) = Len(channel) + 1
    BY <2>1
  <2>3. channel' \in Seq(Events) /\ Len(channel') <= ChannelSize
    BY <1>9, <2>1, <2>2, ConstantsAssumption DEF ForwardSends, HasRoom
  <2> QED
    BY <1>9, <2>3 DEF ForwardSends, TypeOK, config, ledger, verdict
<1> QED
  BY <1>1, <1>2, <1>3, <1>4, <1>5, <1>6, <1>7, <1>8, <1>9 DEF ToolTask, AnswerTask

LEMMA EventTyped ==
  ASSUME NEW event \in Events
  PROVE  /\ event.kind # "interrupt" => event.tool \in Tools
         /\ event.kind = "result" => event.what \in Outputs
         /\ event.kind = "processed" => event.what \in Response
         /\ event.kind \in QuestionEvents => event.what \in Questions
  BY DEF Events, Interrupt, Task, QuestionEvents, Outputs, Response

\* A choice at the menu is an outcome, and cancels calls of the batch.
LEMMA MenuTyped ==
  ASSUME TypeOK, MenuChoice
  PROVE  /\ cancelled' \in BOOLEAN /\ outcome' \in Completed .. Escalated
         /\ cancelledTools' \subseteq Tools /\ message' \in Replies \cup {None}
<1>1. /\ cancelled \in BOOLEAN /\ outcome \in Completed .. Escalated
      /\ cancelledTools \subseteq Tools /\ message \in Replies \cup {None}
  BY DEF TypeOK
<1>2. \A choice \in {Restart, Stopped, Escalated} : Upgraded(choice) \in Completed .. Escalated
  BY <1>1 DEF Upgraded, Completed, Restart, Stopped, Escalated
<1>3. Missing \subseteq Tools
  BY DEF Missing
<1>4. CASE MenuContinue
  BY <1>1, <1>4 DEF MenuContinue, verdict
<1>5. CASE MenuRestart
  BY <1>1, <1>2, <1>5 DEF MenuRestart
<1>6. CASE \E reply \in Replies \cup {None} : MenuCancel(reply, FALSE)
  BY <1>1, <1>3, <1>6 DEF MenuCancel
<1>7. CASE MenuCancel(None, TRUE)
  BY <1>1, <1>2, <1>3, <1>7 DEF MenuCancel
<1>8. CASE MenuEscalate
  BY <1>1, <1>2, <1>8 DEF MenuEscalate
<1> QED
  BY <1>4, <1>5, <1>6, <1>7, <1>8 DEF MenuChoice

LEMMA EventLoopKeepsTypes ==
  ASSUME TypeOK, EventLoop
  PROVE  TypeOK'
<1>1. CASE ResultDelivered
  <2>1. /\ Event.tool \in Tools /\ Event.what \in Response
        /\ channel' \in Seq(Events) /\ Len(channel') <= ChannelSize
    BY <1>1, TakesTyped, EventTyped DEF ResultDelivered, Response
  <2>2. results' \in [Tools -> Response \cup {None}] /\ states' \in [Tools -> ToolCallState]
    BY <1>1, <2>1 DEF ResultDelivered, Resolve, TypeOK, ToolCallState, Response
  <2> QED
    BY <1>1, <2>1, <2>2 DEF ResultDelivered, TypeOK, config, ledger, verdict, pressVars
<1>2. CASE ResultConfirmed
  <2>1. /\ Event.tool \in Tools /\ Event.what \in Outputs
        /\ channel' \in Seq(Events) /\ Len(channel') <= ChannelSize
    BY <1>2, TakesTyped, EventTyped DEF ResultConfirmed
  <2>2. Task("delivery", Event.tool, Event.what) \in Prompts
    BY <2>1 DEF Task, Prompts
  <2> QED
    BY <1>2, <2>1, <2>2, PromptTyped
    DEF ResultConfirmed, TypeOK, config, ledger, verdict, pressVars
<1>3. CASE QuestionRemembered
  <2>1. Event.tool \in Tools /\ channel' \in Seq(Events) /\ Len(channel') <= ChannelSize
    BY <1>3, TakesTyped, EventTyped DEF QuestionRemembered
  <2>2. Run(Event.tool) \in Tasks
    BY <2>1 DEF Run, Task, Tasks
  <2> QED
    BY <1>3, <2>1, <2>2 DEF QuestionRemembered, TypeOK, config, ledger, verdict, pressVars
<1>4. CASE QuestionToUser
  <2>1. /\ Event.tool \in Tools /\ Event.what \in Questions
        /\ channel' \in Seq(Events) /\ Len(channel') <= ChannelSize
    BY <1>4, TakesTyped, EventTyped DEF QuestionToUser, QuestionEvents
  <2>2. Task("question", Event.tool, Event.what) \in Prompts
    BY <2>1 DEF Task, Prompts
  <2> QED
    BY <1>4, <2>1, <2>2, PromptTyped
    DEF QuestionToUser, TypeOK, config, ledger, verdict, pressVars
<1>5. CASE QuestionToAssistant
  <2>1. /\ Event.tool \in Tools /\ Event.what \in Questions
        /\ channel' \in Seq(Events) /\ Len(channel') <= ChannelSize
    BY <1>5, TakesTyped, EventTyped DEF QuestionToAssistant, QuestionEvents
  <2>2. Task("inquiry", Event.tool, Event.what) \in Tasks
    BY <2>1 DEF Task, Tasks
  <2>3. unanswered' \in [Tools -> Int] /\ states' \in [Tools -> ToolCallState]
    BY <1>5, <2>1 DEF QuestionToAssistant, Requested, TypeOK, ToolCallState
  <2> QED
    BY <1>5, <2>1, <2>2, <2>3
    DEF QuestionToAssistant, TypeOK, config, verdict, pressVars
<1>6. CASE PromptAnswer
  <2>1. /\ Event.tool \in Tools /\ Event.what \in Questions
        /\ channel' \in Seq(Events) /\ Len(channel') <= ChannelSize
    BY <1>6, TakesTyped, EventTyped DEF PromptAnswer, QuestionEvents
  <2>2. {Run(Event.tool)} \in SUBSET Tasks
    BY <2>1 DEF Run, Task, Tasks
  <2>3. [states EXCEPT ![Event.tool] = "Running"] \in [Tools -> ToolCallState]
    BY <2>1 DEF TypeOK, ToolCallState
  <2>4. /\ tasks' \subseteq Tasks /\ promptActive' \in BOOLEAN
        /\ queue' \in Seq(Prompts) /\ states' \in [Tools -> ToolCallState]
    BY <1>6, <2>2, <2>3, NextPromptTyped DEF PromptAnswer
  <2>5. remembered' \subseteq Names \X Questions
    BY <1>6, <2>1 DEF PromptAnswer, TypeOK
  <2> QED
    BY <1>6, <2>1, <2>4, <2>5 DEF PromptAnswer, TypeOK, config, verdict, pressVars
<1>7. CASE PromptCancelled
  <2>1. Event.tool \in Tools /\ channel' \in Seq(Events) /\ Len(channel') <= ChannelSize
    BY <1>7, TakesTyped, EventTyped DEF PromptCancelled
  <2>2. [states EXCEPT ![Event.tool] = "Completed"] \in [Tools -> ToolCallState]
    BY <2>1 DEF TypeOK, ToolCallState
  <2>3. /\ tasks' \subseteq Tasks /\ promptActive' \in BOOLEAN
        /\ queue' \in Seq(Prompts) /\ states' \in [Tools -> ToolCallState]
    BY <1>7, <2>2, NextPromptTyped DEF PromptCancelled
  <2>4. results' \in [Tools -> Response \cup {None}]
    BY <1>7, <2>1 DEF PromptCancelled, TypeOK, Response
  <2> QED
    BY <1>7, <2>1, <2>3, <2>4 DEF PromptCancelled, TypeOK, config, ledger, verdict, pressVars
<1>8. CASE ResultModeProcessed
  <2>1. /\ Event.tool \in Tools /\ Event.what \in Response
        /\ channel' \in Seq(Events) /\ Len(channel') <= ChannelSize
    BY <1>8, TakesTyped, EventTyped DEF ResultModeProcessed
  <2>2. [states EXCEPT ![Event.tool] = "Completed"] \in [Tools -> ToolCallState]
    BY <2>1 DEF TypeOK, ToolCallState
  <2>3. /\ tasks' \subseteq Tasks /\ promptActive' \in BOOLEAN
        /\ queue' \in Seq(Prompts) /\ states' \in [Tools -> ToolCallState]
    BY <1>8, <2>2, NextPromptTyped DEF ResultModeProcessed
  <2>4. results' \in [Tools -> Response \cup {None}]
    BY <1>8, <2>1 DEF ResultModeProcessed, TypeOK
  <2> QED
    BY <1>8, <2>1, <2>3, <2>4 DEF ResultModeProcessed, TypeOK, config, ledger, verdict, pressVars
<1>9. CASE InquiryAnswered
  <2>1. Event.tool \in Tools /\ channel' \in Seq(Events) /\ Len(channel') <= ChannelSize
    BY <1>9, TakesTyped, EventTyped DEF InquiryAnswered
  <2>2. Run(Event.tool) \in Tasks
    BY <2>1 DEF Run, Task, Tasks
  <2>3. unanswered' \in [Tools -> Int] /\ states' \in [Tools -> ToolCallState]
    BY <1>9, <2>1 DEF InquiryAnswered, Responded, TypeOK, ToolCallState
  <2> QED
    BY <1>9, <2>1, <2>2, <2>3 DEF InquiryAnswered, TypeOK, config, verdict, pressVars
<1>10. CASE InquiryFailed
  <2>1. Event.tool \in Tools /\ channel' \in Seq(Events) /\ Len(channel') <= ChannelSize
    BY <1>10, TakesTyped, EventTyped DEF InquiryFailed
  <2>2. results' \in [Tools -> Response \cup {None}] /\ states' \in [Tools -> ToolCallState]
    BY <1>10, <2>1 DEF InquiryFailed, Resolve, TypeOK, ToolCallState, Response
  <2> QED
    BY <1>10, <2>1, <2>2 DEF InquiryFailed, TypeOK, config, ledger, verdict, pressVars
<1>11. CASE InterruptDeclined
  <2>1. channel' \in Seq(Events) /\ Len(channel') <= ChannelSize
    BY <1>11, TakesTyped DEF InterruptDeclined, TakesInterrupt
  <2> QED
    BY <1>11, <2>1 DEF InterruptDeclined, TakesInterrupt, TypeOK, config, ledger, verdict
<1>12. CASE MenuChoice
  <2>1. channel' \in Seq(Events) /\ Len(channel') <= ChannelSize
    BY <1>12, TakesTyped
    DEF MenuChoice, MenuContinue, MenuRestart, MenuCancel, MenuEscalate, MenuShown,
        TakesInterrupt
  <2>2. /\ UNCHANGED <<config, tasks, asks, promptActive, queue, states, results, ledger,
                       presses, notified, forwarding, passedDown, dead>>
    BY <1>12
    DEF MenuChoice, MenuContinue, MenuRestart, MenuCancel, MenuEscalate, MenuShown,
        TakesInterrupt
  <2>3. /\ cancelled' \in BOOLEAN /\ outcome' \in Completed .. Escalated
        /\ cancelledTools' \subseteq Tools /\ message' \in Replies \cup {None}
    BY <1>12, MenuTyped
  <2> QED
    BY <2>1, <2>2, <2>3 DEF TypeOK, config, ledger
<1> QED
  BY <1>1, <1>2, <1>3, <1>4, <1>5, <1>6, <1>7, <1>8, <1>9, <1>10, <1>11, <1>12 DEF EventLoop

LEMMA TypeStep == TypeOK /\ [Next]_vars => TypeOK'
<1> SUFFICES ASSUME TypeOK, [Next]_vars PROVE TypeOK'
  OBVIOUS
<1>1. PICK t : t \in Tools
  BY ConstantsAssumption
<1>2. CASE EventLoop
  BY <1>2, EventLoopKeepsTypes
<1>3. CASE Press \/ Forward \/ ForwardSends
  BY <1>1, <1>3, TasksKeepTypes
<1>4. ASSUME NEW u \in Tools, ToolTask(u) \/ ToolPanics(u) \/ AnswerTask(u)
      PROVE  TypeOK'
  BY <1>4, TasksKeepTypes
<1>5. CASE UNCHANGED vars
  BY <1>5 DEF vars, TypeOK, config, ledger, verdict, pressVars
<1> QED
  BY <1>2, <1>3, <1>4, <1>5 DEF Next

\* The state keeps its types: in particular an event that settles a call
\* names a call of the batch and carries a response for it.
THEOREM TypeCorrect == Spec => []TypeOK
<1> QED
  BY TypeInit, TypeStep, PTL DEF Spec

-----------------------------------------------------------------------------
(* What a step does to the calls and to the decision about the batch.      *)

\* A step settles at most one call, and then decides nothing, or the menu
\* decides and no call is settled.
Settles(t) == \E r \in Response : results' = [results EXCEPT ![t] = r]
SettlesOne == UNCHANGED verdict /\ \E t \in Tools : Settles(t)
Decides ==
  /\ UNCHANGED results
  /\ outcome' >= outcome /\ outcome' <= Escalated
  /\ cancelledTools' \subseteq cancelledTools \cup Missing
  /\ ~Over
Idles == UNCHANGED <<results, outcome, cancelledTools>>

LEMMA MenuDecides ==
  ASSUME TypeOK, MenuChoice
  PROVE  Decides
<1>1. UNCHANGED results /\ ~Over
  BY DEF MenuChoice, MenuContinue, MenuRestart, MenuCancel, MenuEscalate, MenuShown,
         TakesInterrupt, Takes
<1>2. \A choice \in {Restart, Stopped, Escalated} :
        Upgraded(choice) >= outcome /\ Upgraded(choice) <= Escalated
  BY DEF TypeOK, Upgraded, Completed, Restart, Stopped, Escalated
<1>3. outcome >= outcome /\ outcome <= Escalated
  BY DEF TypeOK, Completed, Escalated
<1>4. CASE MenuContinue
  BY <1>1, <1>3, <1>4 DEF MenuContinue, verdict, Decides
<1>5. CASE MenuRestart
  BY <1>1, <1>2, <1>5 DEF MenuRestart, Decides
<1>6. CASE \E reply \in Replies \cup {None} : MenuCancel(reply, FALSE)
  BY <1>1, <1>3, <1>6 DEF MenuCancel, Decides
<1>7. CASE MenuCancel(None, TRUE)
  BY <1>1, <1>2, <1>7 DEF MenuCancel, Decides
<1>8. CASE MenuEscalate
  BY <1>1, <1>2, <1>8 DEF MenuEscalate, Decides
<1> QED
  BY <1>4, <1>5, <1>6, <1>7, <1>8 DEF MenuChoice

LEMMA StepSummary ==
  ASSUME TypeOK, [Next]_vars
  PROVE  SettlesOne \/ Decides \/ Idles
<1>1. CASE ResultDelivered
  <2>1. Event.tool \in Tools /\ Event.what \in Response
    BY <1>1, TakesTyped, EventTyped DEF ResultDelivered, Response
  <2> QED
    BY <1>1, <2>1 DEF ResultDelivered, Resolve, SettlesOne, Settles, Response
<1>2. CASE PromptCancelled
  <2>1. Event.tool \in Tools
    BY <1>2, TakesTyped, EventTyped DEF PromptCancelled
  <2> QED
    BY <1>2, <2>1 DEF PromptCancelled, SettlesOne, Settles, Response
<1>3. CASE ResultModeProcessed
  <2>1. Event.tool \in Tools /\ Event.what \in Response
    BY <1>3, TakesTyped, EventTyped DEF ResultModeProcessed
  <2> QED
    BY <1>3, <2>1 DEF ResultModeProcessed, SettlesOne, Settles
<1>4. CASE InquiryFailed
  <2>1. Event.tool \in Tools
    BY <1>4, TakesTyped, EventTyped DEF InquiryFailed
  <2> QED
    BY <1>4, <2>1 DEF InquiryFailed, Resolve, SettlesOne, Settles, Response
<1>5. CASE MenuChoice
  BY <1>5, MenuDecides
<1>6. CASE ResultConfirmed \/ QuestionRemembered \/ QuestionToUser \/ QuestionToAssistant
             \/ PromptAnswer \/ InquiryAnswered \/ InterruptDeclined
  BY <1>6
  DEF ResultConfirmed, QuestionRemembered, QuestionToUser, QuestionToAssistant, PromptAnswer,
      InquiryAnswered, InterruptDeclined, TakesInterrupt, verdict, Idles
<1>7. CASE Press \/ Forward \/ ForwardSends
  BY <1>7 DEF Press, Forward, ForwardSends, verdict, Idles
<1>8. ASSUME NEW t \in Tools, ToolTask(t) \/ ToolPanics(t) \/ AnswerTask(t)
      PROVE  Idles
  BY <1>8
  DEF ToolTask, AnswerTask, ToolReturns, ToolAsks, ToolPanics, UserAnswers, UserConfirms,
      AssistantAnswers, Reports, verdict, Idles
<1>9. CASE UNCHANGED vars
  BY <1>9 DEF vars, verdict, Idles
<1> QED
  BY <1>1, <1>2, <1>3, <1>4, <1>5, <1>6, <1>7, <1>8, <1>9 DEF Next, EventLoop

-----------------------------------------------------------------------------
(* Finished calls.                                                         *)

\* An interrupt never cancels a call that has its result: whatever the
\* user chooses and however often, what a finished call answered is kept.
THEOREM FinishedCallsKept == Spec => FinishedCallsStayFinished
<1>1. TypeOK /\ [Next]_vars =>
        [\A t \in Tools : results[t] # None /\ t \in cancelledTools' => t \in cancelledTools]_vars
  <2> SUFFICES ASSUME TypeOK, [Next]_vars, NEW t \in Tools,
                      results[t] # None, t \in cancelledTools'
               PROVE  t \in cancelledTools
    OBVIOUS
  <2> QED
    BY StepSummary DEF SettlesOne, verdict, Decides, Idles, Missing
<1> QED
  BY <1>1, TypeCorrect, PTL DEF Spec, FinishedCallsStayFinished

-----------------------------------------------------------------------------
(* Refinement.                                                             *)

LEMMA NoneIsNoResponse == None \notin Response
  BY ConstantsAssumption DEF Response, Outputs

LEMMA OverIsNothingMissing == Over <=> Missing = {}
  BY DEF Over, Missing

LEMMA OverIsNothingMissingNext == Over' <=> Missing' = {}
  BY DEF Over, Missing

LEMMA BatchInit == Init => Batch!Init
  BY ConstantsAssumption DEF Init, Batch!Init, Missing, Over, Completed

\* Settling a call that is missing settles it in the abstract batch; one
\* that has a result already is a stutter there.
LEMMA SettlesOneRefines ==
  ASSUME TypeOK, SettlesOne
  PROVE  [Batch!Next]_(Batch!vars)
<1>1. PICK t \in Tools : Settles(t)
  BY DEF SettlesOne
<1>2. PICK r \in Response : results' = [results EXCEPT ![t] = r]
  BY <1>1 DEF Settles
<1>3. Missing' = Missing \ {t}
  BY <1>2, NoneIsNoResponse DEF Missing, TypeOK
<1>4. outcome' = outcome
  BY DEF SettlesOne, verdict
<1>5. CASE t \in Missing
  <2>1. Over' = (Missing' = {})
    BY OverIsNothingMissingNext DEF Over
  <2>2. Batch!Settle(t)
    BY <1>3, <1>4, <1>5, <2>1 DEF Batch!Settle
  <2> QED
    BY <2>2 DEF Batch!Next
<1>6. CASE t \notin Missing
  <2>1. Missing' = Missing
    BY <1>3, <1>6
  <2>2. Over' = Over
    BY <2>1, OverIsNothingMissing, OverIsNothingMissingNext DEF Over
  <2> QED
    BY <1>4, <2>1, <2>2 DEF Batch!vars
<1> QED
  BY <1>5, <1>6

LEMMA BatchStep == TypeOK /\ [Next]_vars => [Batch!Next]_(Batch!vars)
<1> SUFFICES ASSUME TypeOK, [Next]_vars PROVE [Batch!Next]_(Batch!vars)
  OBVIOUS
<1>1. CASE SettlesOne
  BY <1>1, SettlesOneRefines
<1>2. CASE Decides
  <2>1. outcome' \in outcome .. Escalated
    BY <1>2, TypeStep DEF Decides, TypeOK, Completed, Escalated
  <2>2. Missing' = Missing /\ ~Over /\ Over' = Over
    BY <1>2 DEF Decides, Missing, Over
  <2>3. Batch!Decide
    BY <2>1, <2>2 DEF Batch!Decide
  <2> QED
    BY <2>3 DEF Batch!Next
<1>3. CASE Idles
  BY <1>3 DEF Idles, Batch!vars, Missing, Over
<1> QED
  BY <1>1, <1>2, <1>3, StepSummary

\* Whatever the tools, the user, the assistant and the scheduler do, the
\* batch behaves as ToolBatch promises the turn: a call is settled once, the
\* report comes when all are, and a decision only becomes more severe.
THEOREM ExecutesABatch == Spec => Refinement
<1> QED
  BY BatchInit, BatchStep, TypeCorrect, PTL DEF Spec, Refinement, Batch!Spec

-----------------------------------------------------------------------------
(***************************************************************************)
(* One errand per call, one prompt at a time. Every step of the loop is    *)
(* first sorted into one of seven shapes, by what it does to the tasks,    *)
(* the channel and the queue; then each shape is shown to keep the counts. *)
(***************************************************************************)

(* Counting members of a set in sets and sequences.                        *)

Hits(s, M) == {i \in DOMAIN s : s[i] \in M}
HitCount(s, M) == Cardinality(Hits(s, M))

LEMMA HitsFinite ==
  ASSUME NEW S, NEW s \in Seq(S), NEW M
  PROVE  IsFiniteSet(Hits(s, M)) /\ HitCount(s, M) \in Nat
<1>1. DOMAIN s = 1 .. Len(s) /\ Len(s) \in Nat
  BY LenProperties
<1>2. IsFiniteSet(1 .. Len(s))
  BY <1>1, FS_Interval
<1>3. Hits(s, M) \in SUBSET (1 .. Len(s))
  BY <1>1 DEF Hits
<1> QED
  BY <1>2, <1>3, FS_Subset, FS_CardinalityType DEF HitCount

LEMMA HitsAppend ==
  ASSUME NEW S, NEW s \in Seq(S), NEW e \in S, NEW M
  PROVE  HitCount(Append(s, e), M) = HitCount(s, M) + IF e \in M THEN 1 ELSE 0
<1> DEFINE n == Len(s)
           t == Append(s, e)
<1>1. DOMAIN s = 1 .. n /\ n \in Nat
  BY LenProperties
<1>2. /\ t \in Seq(S) /\ Len(t) = n + 1
      /\ \A i \in 1 .. n : t[i] = s[i]
      /\ t[n + 1] = e
  BY AppendProperties
<1>3. DOMAIN t = 1 .. n + 1
  BY <1>2, LenProperties
<1> HIDE DEF n, t
<1>4. IsFiniteSet(Hits(s, M)) /\ HitCount(s, M) \in Nat
  BY HitsFinite
<1>5. n + 1 \notin Hits(s, M)
  BY <1>1 DEF Hits
<1>6. CASE e \in M
  <2>1. Hits(t, M) = Hits(s, M) \cup {n + 1}
    BY <1>1, <1>2, <1>3, <1>6 DEF Hits
  <2> QED
    BY <1>4, <1>5, <1>6, <2>1, FS_AddElement DEF HitCount, t
<1>7. CASE e \notin M
  <2>1. Hits(t, M) = Hits(s, M)
    BY <1>1, <1>2, <1>3, <1>7 DEF Hits
  <2> QED
    BY <1>4, <1>7, <2>1 DEF HitCount, t
<1> QED
  BY <1>6, <1>7

LEMMA HitsTail ==
  ASSUME NEW S, NEW s \in Seq(S), s # <<>>, NEW M
  PROVE  HitCount(s, M) = HitCount(Tail(s), M) + IF Head(s) \in M THEN 1 ELSE 0
<1> DEFINE t == Tail(s)
           rest == Hits(s, M) \ {1}
           f == [i \in Hits(t, M) |-> i + 1]
<1>1. DOMAIN s = 1 .. Len(s) /\ Len(s) \in Nat /\ Len(s) # 0
  BY LenProperties, EmptySeq
<1>2. /\ t \in Seq(S) /\ Len(t) = Len(s) - 1
      /\ \A i \in 1 .. Len(t) : t[i] = s[i + 1]
      /\ Head(s) = s[1]
  BY HeadTailProperties
<1>3. DOMAIN t = 1 .. Len(s) - 1
  BY <1>2, LenProperties
<1> HIDE DEF t
<1>4. IsFiniteSet(Hits(t, M)) /\ HitCount(t, M) \in Nat
  BY <1>2, HitsFinite
<1>5. IsFiniteSet(Hits(s, M)) /\ HitCount(s, M) \in Nat
  BY HitsFinite
<1>6. ExistsBijection(Hits(t, M), rest)
  <2>1. f \in [Hits(t, M) -> rest]
    BY <1>1, <1>2, <1>3 DEF Hits
  <2>2. \A i, j \in Hits(t, M) : f[i] = f[j] => i = j
    BY <1>3 DEF Hits
  <2>3. \A k \in rest : \E i \in Hits(t, M) : f[i] = k
    <3> SUFFICES ASSUME NEW k \in rest PROVE \E i \in Hits(t, M) : f[i] = k
      OBVIOUS
    <3>1. k \in 2 .. Len(s) /\ s[k] \in M
      BY <1>1 DEF Hits
    <3>2. k - 1 \in Hits(t, M)
      BY <1>1, <1>2, <1>3, <3>1 DEF Hits
    <3> QED
      BY <3>1, <3>2
  <2>4. f \in Bijection(Hits(t, M), rest)
    BY <2>1, <2>2, <2>3 DEF Bijection, Injection, IsInjective, Surjection
  <2> QED
    BY <2>4 DEF ExistsBijection
<1>7. Cardinality(rest) = HitCount(t, M)
  BY <1>4, <1>6, FS_Bijection DEF HitCount
<1>8. 1 \in Hits(s, M) <=> Head(s) \in M
  BY <1>1, <1>2 DEF Hits
<1>9. Cardinality(rest) = IF 1 \in Hits(s, M) THEN HitCount(s, M) - 1 ELSE HitCount(s, M)
  BY <1>5, FS_RemoveElement DEF HitCount
<1> QED
  BY <1>4, <1>5, <1>7, <1>8, <1>9 DEF t

Among(T, M) == Cardinality(T \cap M)

LEMMA SetCounted ==
  ASSUME NEW T, IsFiniteSet(T), NEW M
  PROVE  Among(T, M) \in Nat
BY FS_Intersection, FS_CardinalityType DEF Among

LEMMA SetMissed ==
  ASSUME NEW T, IsFiniteSet(T), NEW M, Among(T, M) = 0, NEW x \in M
  PROVE  x \notin T
<1>1. IsFiniteSet(T \cap M)
  BY FS_Intersection
<1>2. T \cap M = {}
  BY <1>1, FS_EmptySet DEF Among
<1> QED
  BY <1>2

LEMMA SetAdded ==
  ASSUME NEW T, IsFiniteSet(T), NEW x, x \notin T, NEW U, U = T \cup {x}, NEW M
  PROVE  IsFiniteSet(U) /\ Among(U, M) = Among(T, M) + IF x \in M THEN 1 ELSE 0
<1>1. IsFiniteSet(T \cap M) /\ Cardinality(T \cap M) \in Nat
  BY FS_Intersection, FS_CardinalityType
<1>2. IsFiniteSet(U)
  BY FS_AddElement
<1>3. CASE x \in M
  <2>1. U \cap M = (T \cap M) \cup {x} /\ x \notin T \cap M
    BY <1>3
  <2> QED
    BY <1>1, <1>2, <1>3, <2>1, FS_AddElement DEF Among
<1>4. CASE x \notin M
  <2>1. U \cap M = T \cap M
    BY <1>4
  <2>2. Among(U, M) = Among(T, M) /\ Among(T, M) \in Nat
    BY <1>1, <2>1 DEF Among
  <2> QED
    BY <1>2, <1>4, <2>2
<1> QED
  BY <1>3, <1>4

LEMMA SetRemoved ==
  ASSUME NEW T, IsFiniteSet(T), NEW x \in T, NEW U, U = T \ {x}, NEW M
  PROVE  /\ IsFiniteSet(U) /\ Among(U, M) \in Nat
         /\ Among(T, M) = Among(U, M) + IF x \in M THEN 1 ELSE 0
<1>1. IsFiniteSet(U)
  BY FS_RemoveElement
<1>2. T = U \cup {x} /\ x \notin U
  OBVIOUS
<1> QED
  BY <1>1, <1>2, SetAdded, SetCounted

-----------------------------------------------------------------------------
(* The shapes of a step.                                                   *)

OfTool(t) == {x \in Tasks \cup Events : x.tool = t}
OfPrompt ==
  {x \in Tasks \cup Events : x.kind \in {"question", "delivery"} \cup PromptEvents}

\* A task ends with an event for the same call.
Reported ==
  \E task \in tasks, event \in Events :
    /\ tasks' = tasks \ {task} /\ channel' = Append(channel, event)
    /\ event.tool = task.tool /\ task.tool \in Tools
    /\ task \in OfPrompt <=> event \in OfPrompt
    /\ UNCHANGED <<queue, promptActive, results, dead>>

Died ==
  \E t \in Tools :
    /\ Run(t) \in tasks
    /\ tasks' = tasks \ {Run(t)} /\ dead' = dead \cup {t}
    /\ UNCHANGED <<channel, queue, promptActive, results>>

\* Nothing but the interrupt comes or goes.
Interrupted ==
  /\ \/ channel' = Append(channel, Interrupt)
     \/ channel # <<>> /\ Head(channel) = Interrupt /\ channel' = Tail(channel)
     \/ channel' = channel
  /\ UNCHANGED <<tasks, queue, promptActive, results, dead>>

Handles(t) ==
  /\ channel # <<>> /\ channel' = Tail(channel)
  /\ Head(channel) \in Events /\ Head(channel).tool = t
  /\ UNCHANGED dead

\* The event settles its call, starts something for it, or asks for a prompt.
SettledBy(t) ==
  /\ Handles(t) /\ Head(channel) \notin OfPrompt
  /\ results'[t] # None /\ \A u \in Tools \ {t} : results'[u] = results[u]
  /\ UNCHANGED <<tasks, queue, promptActive>>

Started(t) ==
  /\ Handles(t) /\ Head(channel) \notin OfPrompt
  /\ \E task \in Tasks \ OfPrompt : task.tool = t /\ tasks' = tasks \cup {task}
  /\ UNCHANGED <<queue, promptActive, results>>

Prompted(t) ==
  /\ Handles(t) /\ Head(channel) \notin OfPrompt
  /\ \E prompt \in Prompts : prompt.tool = t /\ PromptOrQueue(prompt)
  /\ UNCHANGED results

\* A prompt ends, and the terminal goes to the next one.
HandedOver(t) ==
  /\ Handles(t) /\ Head(channel) \in OfPrompt
  /\ \/ /\ \E settled : NextPrompt({Run(t)}, settled)
        /\ UNCHANGED results
     \/ /\ \E settled : NextPrompt({}, settled)
        /\ results'[t] # None /\ \A u \in Tools \ {t} : results'[u] = results[u]

LEMMA PromptKinds ==
  /\ \A t \in Tools, q \in Questions : Task("question", t, q) \in OfPrompt
  /\ \A t \in Tools, o \in Outputs : Task("delivery", t, o) \in OfPrompt
  /\ \A t, q : Task("inquiry", t, q) \notin OfPrompt /\ Run(t) \notin OfPrompt
  /\ Prompts \subseteq OfPrompt /\ Prompts \subseteq Tasks
  /\ \A e \in Events : e \in OfPrompt <=> e.kind \in PromptEvents
BY DEF OfPrompt, Tasks, Prompts, Events, Task, Run, PromptEvents, QuestionEvents, Interrupt

LEMMA ShapeOfReport ==
  ASSUME TypeOK, NEW t \in Tools, ToolTask(t) \/ AnswerTask(t)
  PROVE  Reported
<1>1. ASSUME NEW task \in Tasks, NEW event \in Events, Reports(task, event),
             event.tool = task.tool, task.tool = t,
             task \in OfPrompt <=> event \in OfPrompt
      PROVE  Reported
  BY <1>1 DEF Reports, Reported
<1>2. CASE ToolReturns(t)
  <2>1. PICK result \in Outputs : Reports(Run(t), Task("result", t, result))
    BY <1>2 DEF ToolReturns
  <2>2. Task("result", t, result) \in Events /\ Run(t) \in Tasks
    BY DEF Task, Events, Tasks, Run
  <2> QED
    BY <1>1, <2>1, <2>2, PromptKinds DEF Task, Run, PromptEvents
<1>3. CASE ToolAsks(t)
  <2>1. PICK q \in Questions : Reports(Run(t), Task("needsInput", t, q))
    BY <1>3 DEF ToolAsks
  <2>2. Task("needsInput", t, q) \in Events /\ Run(t) \in Tasks
    BY DEF Task, Events, QuestionEvents, Tasks, Run
  <2> QED
    BY <1>1, <2>1, <2>2, PromptKinds DEF Task, Run, PromptEvents
<1>4. CASE UserAnswers(t)
  <2>1. PICK q \in Questions, kind \in {"answer", "answerForTurn", "promptCancelled"} :
          Reports(Task("question", t, q), Task(kind, t, q))
    BY <1>4 DEF UserAnswers
  <2>2. Task(kind, t, q) \in Events /\ Task("question", t, q) \in Tasks
    BY DEF Task, Events, QuestionEvents, Tasks, Prompts
  <2> QED
    BY <1>1, <2>1, <2>2, PromptKinds DEF Task, PromptEvents
<1>5. CASE UserConfirms(t)
  <2>1. PICK result \in Outputs : \E final \in {result, "withheld"} :
          Reports(Task("delivery", t, result), Task("processed", t, final))
    BY <1>5 DEF UserConfirms
  <2>2. PICK final \in {result, "withheld"} :
          Reports(Task("delivery", t, result), Task("processed", t, final))
    BY <2>1
  <2>3. Task("processed", t, final) \in Events /\ Task("delivery", t, result) \in Tasks
    BY DEF Task, Events, Tasks, Prompts
  <2> QED
    BY <1>1, <2>2, <2>3, PromptKinds DEF Task, PromptEvents
<1>6. CASE AssistantAnswers(t)
  <2>1. PICK q \in Questions, kind \in {"inquiryAnswered", "inquiryFailed"} :
          Reports(Task("inquiry", t, q), Task(kind, t, q))
    BY <1>6 DEF AssistantAnswers
  <2>2. Task(kind, t, q) \in Events /\ Task("inquiry", t, q) \in Tasks
    BY DEF Task, Events, QuestionEvents, Tasks
  <2> QED
    BY <1>1, <2>1, <2>2, PromptKinds DEF Task, PromptEvents
<1> QED
  BY <1>2, <1>3, <1>4, <1>5, <1>6 DEF ToolTask, AnswerTask

LEMMA Handling ==
  ASSUME TypeOK, NEW kinds, Takes(kinds), "interrupt" \notin kinds, UNCHANGED dead
  PROVE  /\ Event.tool \in Tools /\ Handles(Event.tool)
         /\ Event \in OfPrompt <=> Event.kind \in PromptEvents
         /\ Event = Head(channel) /\ Event.kind \in kinds
<1>1. Event \in Events /\ Event.kind \in kinds
  BY TakesTyped
<1>2. Event.tool \in Tools
  BY <1>1, EventTyped
<1> QED
  BY <1>1, <1>2, PromptKinds DEF Handles, Takes, Event

\* A result is noted for one call.
LEMMA Noted ==
  ASSUME TypeOK, NEW t \in Tools, NEW response \in Response,
         results' = [results EXCEPT ![t] = response]
  PROVE  results'[t] # None /\ \A u \in Tools \ {t} : results'[u] = results[u]
BY NoneIsNoResponse DEF TypeOK

LEMMA ShapeOfEvent ==
  ASSUME TypeOK, EventLoop
  PROVE  \/ Interrupted
         \/ \E t \in Tools : SettledBy(t) \/ Started(t) \/ Prompted(t) \/ HandedOver(t)
<1>1. CASE ResultDelivered
  <2>1. /\ Event.tool \in Tools /\ Handles(Event.tool) /\ Event.kind = "result"
        /\ Head(channel) \notin OfPrompt
    BY <1>1, Handling DEF ResultDelivered, PromptEvents
  <2>2. Event.what \in Response
    BY <2>1, EventTyped DEF Handles, Event, Response
  <2>3. results'[Event.tool] # None
          /\ \A u \in Tools \ {Event.tool} : results'[u] = results[u]
    BY <1>1, <2>1, <2>2, Noted DEF ResultDelivered, Resolve, Response
  <2> QED
    BY <1>1, <2>1, <2>3 DEF ResultDelivered, SettledBy
<1>2. CASE ResultConfirmed
  <2>1. /\ Event.tool \in Tools /\ Handles(Event.tool) /\ Event.kind = "result"
        /\ Head(channel) \notin OfPrompt
    BY <1>2, Handling DEF ResultConfirmed, PromptEvents
  <2>2. Event.what \in Outputs
    BY <2>1, EventTyped DEF Handles, Event
  <2>3. Task("delivery", Event.tool, Event.what) \in Prompts
    BY <2>1, <2>2 DEF Task, Prompts
  <2> QED
    BY <1>2, <2>1, <2>3 DEF ResultConfirmed, Prompted, Task
<1>3. CASE QuestionRemembered
  <2>1. /\ Event.tool \in Tools /\ Handles(Event.tool) /\ Head(channel) \notin OfPrompt
    BY <1>3, Handling DEF QuestionRemembered, PromptEvents
  <2>2. Run(Event.tool) \in Tasks \ OfPrompt /\ Run(Event.tool).tool = Event.tool
    BY <2>1, PromptKinds DEF Run, Task, Tasks
  <2> QED
    BY <1>3, <2>1, <2>2 DEF QuestionRemembered, Started
<1>4. CASE QuestionToUser
  <2>1. /\ Event.tool \in Tools /\ Handles(Event.tool) /\ Event.kind = "needsInput"
        /\ Head(channel) \notin OfPrompt
    BY <1>4, Handling DEF QuestionToUser, PromptEvents
  <2>2. Event.what \in Questions
    BY <2>1, EventTyped DEF Handles, Event, QuestionEvents
  <2>3. Task("question", Event.tool, Event.what) \in Prompts
    BY <2>1, <2>2 DEF Task, Prompts
  <2> QED
    BY <1>4, <2>1, <2>3 DEF QuestionToUser, Prompted, Task
<1>5. CASE QuestionToAssistant
  <2>1. /\ Event.tool \in Tools /\ Handles(Event.tool) /\ Event.kind = "needsInput"
        /\ Head(channel) \notin OfPrompt
    BY <1>5, Handling DEF QuestionToAssistant, PromptEvents
  <2>2. Event.what \in Questions
    BY <2>1, EventTyped DEF Handles, Event, QuestionEvents
  <2>3. Task("inquiry", Event.tool, Event.what) \in Tasks \ OfPrompt
    BY <2>1, <2>2, PromptKinds DEF Task, Tasks
  <2> QED
    BY <1>5, <2>1, <2>3 DEF QuestionToAssistant, Started, Task
<1>6. CASE PromptAnswer
  <2>1. /\ Event.tool \in Tools /\ Handles(Event.tool) /\ Head(channel) \in OfPrompt
    BY <1>6, Handling DEF PromptAnswer, PromptEvents
  <2> QED
    BY <1>6, <2>1 DEF PromptAnswer, HandedOver
<1>7. CASE PromptCancelled
  <2>1. /\ Event.tool \in Tools /\ Handles(Event.tool) /\ Head(channel) \in OfPrompt
    BY <1>7, Handling DEF PromptCancelled, PromptEvents
  <2>2. results'[Event.tool] # None
          /\ \A u \in Tools \ {Event.tool} : results'[u] = results[u]
    BY <1>7, <2>1, Noted DEF PromptCancelled, Response
  <2> QED
    BY <1>7, <2>1, <2>2 DEF PromptCancelled, HandedOver
<1>8. CASE ResultModeProcessed
  <2>1. /\ Event.tool \in Tools /\ Handles(Event.tool) /\ Event.kind = "processed"
        /\ Head(channel) \in OfPrompt
    BY <1>8, Handling DEF ResultModeProcessed, PromptEvents
  <2>2. Event.what \in Response
    BY <2>1, EventTyped DEF Handles, Event
  <2>3. results'[Event.tool] # None
          /\ \A u \in Tools \ {Event.tool} : results'[u] = results[u]
    BY <1>8, <2>1, <2>2, Noted DEF ResultModeProcessed
  <2> QED
    BY <1>8, <2>1, <2>3 DEF ResultModeProcessed, HandedOver
<1>9. CASE InquiryAnswered
  <2>1. /\ Event.tool \in Tools /\ Handles(Event.tool) /\ Head(channel) \notin OfPrompt
    BY <1>9, Handling DEF InquiryAnswered, PromptEvents
  <2>2. Run(Event.tool) \in Tasks \ OfPrompt /\ Run(Event.tool).tool = Event.tool
    BY <2>1, PromptKinds DEF Run, Task, Tasks
  <2> QED
    BY <1>9, <2>1, <2>2 DEF InquiryAnswered, Started
<1>10. CASE InquiryFailed
  <2>1. /\ Event.tool \in Tools /\ Handles(Event.tool) /\ Head(channel) \notin OfPrompt
    BY <1>10, Handling DEF InquiryFailed, PromptEvents
  <2>2. results'[Event.tool] # None
          /\ \A u \in Tools \ {Event.tool} : results'[u] = results[u]
    BY <1>10, <2>1, Noted DEF InquiryFailed, Resolve, Response
  <2> QED
    BY <1>10, <2>1, <2>2 DEF InquiryFailed, SettledBy
<1>11. CASE InterruptDeclined \/ MenuChoice
  <2>1. TakesInterrupt
    BY <1>11
    DEF InterruptDeclined, MenuChoice, MenuContinue, MenuRestart, MenuCancel, MenuEscalate,
        MenuShown
  <2>2. Event \in Events /\ Event.kind = "interrupt"
    BY <2>1, TakesTyped DEF TakesInterrupt
  <2>3. Event = Interrupt
    BY <2>2 DEF Events, Interrupt, Task, QuestionEvents
  <2> QED
    BY <2>1, <2>3 DEF TakesInterrupt, Takes, Event, Interrupted
<1> QED
  BY <1>1, <1>2, <1>3, <1>4, <1>5, <1>6, <1>7, <1>8, <1>9, <1>10, <1>11 DEF EventLoop

LEMMA StepShape ==
  ASSUME TypeOK, [Next]_vars
  PROVE  \/ Reported \/ Died \/ Interrupted
         \/ \E t \in Tools : SettledBy(t) \/ Started(t) \/ Prompted(t) \/ HandedOver(t)
<1>1. CASE EventLoop
  BY <1>1, ShapeOfEvent
<1>2. ASSUME NEW t \in Tools, ToolTask(t) \/ AnswerTask(t)
      PROVE  Reported
  BY <1>2, ShapeOfReport
<1>3. ASSUME NEW t \in Tools, ToolPanics(t)
      PROVE  Died
  BY <1>3 DEF ToolPanics, Died
<1>4. CASE Press \/ Forward \/ ForwardSends
  BY <1>4 DEF Press, Forward, ForwardSends, Interrupted
<1>5. CASE UNCHANGED vars
  BY <1>5 DEF vars, Interrupted
<1> QED
  BY <1>1, <1>2, <1>3, <1>4, <1>5 DEF Next

-----------------------------------------------------------------------------
(* One errand per call.                                                    *)

Errands(T, c, q, t) ==
  Among(T, OfTool(t)) + HitCount(c, OfTool(t)) + HitCount(q, OfTool(t))
Owed(t) == IF results[t] = None /\ t \notin dead THEN 1 ELSE 0
ErrandsInv ==
  IsFiniteSet(tasks) /\ \A t \in Tools : Errands(tasks, channel, queue, t) = Owed(t)

LEMMA ErrandsCounted ==
  ASSUME NEW T \in SUBSET Tasks, NEW c \in Seq(Events), NEW q \in Seq(Prompts), NEW t
  PROVE  Cardinality({task \in T : task.tool = t})
           + Cardinality({i \in DOMAIN c : c[i].tool = t})
           + Cardinality({i \in DOMAIN q : q[i].tool = t}) = Errands(T, c, q, t)
<1>1. {task \in T : task.tool = t} = T \cap OfTool(t)
  BY DEF OfTool
<1>2. \A i \in DOMAIN c : c[i] \in Events
  BY LenProperties, ElementOfSeq
<1>3. \A i \in DOMAIN q : q[i] \in Tasks
  BY LenProperties, ElementOfSeq, PromptKinds
<1>4. {i \in DOMAIN c : c[i].tool = t} = Hits(c, OfTool(t))
  BY <1>2 DEF Hits, OfTool
<1>5. {i \in DOMAIN q : q[i].tool = t} = Hits(q, OfTool(t))
  BY <1>3 DEF Hits, OfTool
<1> QED
  BY <1>1, <1>4, <1>5 DEF Errands, HitCount, Among

LEMMA Counts ==
  ASSUME TypeOK, IsFiniteSet(tasks), NEW M
  PROVE  /\ Among(tasks, M) \in Nat
         /\ HitCount(channel, M) \in Nat /\ HitCount(queue, M) \in Nat
BY SetCounted, HitsFinite DEF TypeOK

\* The event that is handled is all there is of its call.
LEMMA SoleErrand ==
  ASSUME TypeOK, ErrandsInv, NEW t \in Tools, Handles(t)
  PROVE  /\ results[t] = None /\ t \notin dead
         /\ \A u \in Tools : HitCount(channel, OfTool(u))
                               = HitCount(channel', OfTool(u)) + IF u = t THEN 1 ELSE 0
         /\ HitCount(channel, OfTool(t)) = 1
         /\ Among(tasks, OfTool(t)) = 0 /\ HitCount(queue, OfTool(t)) = 0
<1>1. ASSUME NEW u \in Tools
      PROVE  HitCount(channel, OfTool(u))
               = HitCount(channel', OfTool(u)) + IF u = t THEN 1 ELSE 0
  <2>1. Head(channel) \in OfTool(u) <=> u = t
    BY DEF Handles, OfTool
  <2>2. channel \in Seq(Events) /\ channel # <<>> /\ channel' = Tail(channel)
    BY DEF TypeOK, Handles
  <2> QED
    BY <2>1, <2>2, HitsTail
<1>2. channel' \in Seq(Events)
  BY HeadTailProperties DEF TypeOK, Handles
<1>3. HitCount(channel', OfTool(t)) \in Nat
  BY <1>2, HitsFinite
<1>4. /\ Among(tasks, OfTool(t)) \in Nat
      /\ HitCount(channel, OfTool(t)) \in Nat /\ HitCount(queue, OfTool(t)) \in Nat
  BY Counts DEF ErrandsInv
<1>5. Among(tasks, OfTool(t)) + HitCount(channel, OfTool(t))
        + HitCount(queue, OfTool(t)) = Owed(t)
  BY DEF ErrandsInv, Errands
<1>6. HitCount(channel, OfTool(t)) = HitCount(channel', OfTool(t)) + 1
  BY <1>1
<1>7. Owed(t) = 1
  BY <1>3, <1>4, <1>5, <1>6 DEF Owed
<1> QED
  BY <1>1, <1>3, <1>4, <1>5, <1>6, <1>7 DEF Owed

LEMMA ReportedKeeps == ASSUME TypeOK, ErrandsInv, Reported PROVE ErrandsInv'
<1>1. PICK task \in tasks, event \in Events :
        /\ tasks' = tasks \ {task} /\ channel' = Append(channel, event)
        /\ event.tool = task.tool
        /\ UNCHANGED <<queue, results, dead>>
  BY DEF Reported
<1>2. IsFiniteSet(tasks')
  BY <1>1, SetRemoved DEF ErrandsInv
<1>3. ASSUME NEW u \in Tools PROVE Errands(tasks', channel', queue', u) = Owed(u)'
  <2>1. task \in OfTool(u) <=> event \in OfTool(u)
    BY <1>1 DEF OfTool, TypeOK
  <2>2. Among(tasks, OfTool(u))
          = Among(tasks', OfTool(u)) + IF task \in OfTool(u) THEN 1 ELSE 0
    <3>1. IsFiniteSet(tasks) /\ task \in tasks /\ tasks' = tasks \ {task}
      BY <1>1 DEF ErrandsInv
    <3> QED
      BY <3>1, SetRemoved
  <2>3. HitCount(channel', OfTool(u))
          = HitCount(channel, OfTool(u)) + IF event \in OfTool(u) THEN 1 ELSE 0
    BY <1>1, HitsAppend DEF TypeOK
  <2>4. /\ Among(tasks', OfTool(u)) \in Nat
        /\ HitCount(channel, OfTool(u)) \in Nat /\ HitCount(queue, OfTool(u)) \in Nat
    BY <1>2, Counts, SetCounted DEF ErrandsInv
  <2>5. Errands(tasks', channel', queue', u) = Errands(tasks, channel, queue, u)
    BY <1>1, <2>1, <2>2, <2>3, <2>4 DEF Errands
  <2> QED
    BY <1>1, <2>5 DEF ErrandsInv, Owed
<1> QED
  BY <1>2, <1>3 DEF ErrandsInv

LEMMA DiedKeeps == ASSUME TypeOK, ErrandsInv, Died PROVE ErrandsInv'
<1>1. PICK t \in Tools :
        /\ Run(t) \in tasks
        /\ tasks' = tasks \ {Run(t)} /\ dead' = dead \cup {t}
        /\ UNCHANGED <<channel, queue, results>>
  BY DEF Died
<1>2. IsFiniteSet(tasks')
  BY <1>1, SetRemoved DEF ErrandsInv
<1>3. ASSUME NEW u \in Tools PROVE Errands(tasks', channel', queue', u) = Owed(u)'
  <2>1. Run(t) \in OfTool(u) <=> u = t
    BY <1>1 DEF OfTool, TypeOK, Run, Task
  <2>2. Among(tasks, OfTool(u))
          = Among(tasks', OfTool(u)) + IF u = t THEN 1 ELSE 0
    BY <1>1, <2>1, SetRemoved DEF ErrandsInv
  <2>3. /\ Among(tasks', OfTool(u)) \in Nat
        /\ HitCount(channel, OfTool(u)) \in Nat /\ HitCount(queue, OfTool(u)) \in Nat
    BY <1>2, Counts, SetCounted DEF ErrandsInv
  <2>4. Among(tasks, OfTool(u)) + HitCount(channel, OfTool(u))
          + HitCount(queue, OfTool(u)) = Owed(u)
    BY DEF ErrandsInv, Errands
  <2>5. CASE u = t
    <3>1. Owed(u) = 1 /\ Owed(u)' = 0
      BY <1>1, <2>2, <2>3, <2>4, <2>5 DEF Owed
    <3> QED
      BY <1>1, <2>2, <2>3, <2>4, <2>5, <3>1 DEF Errands
  <2>6. CASE u # t
    <3>1. Owed(u)' = Owed(u)
      BY <1>1, <2>6 DEF Owed
    <3> QED
      BY <1>1, <2>2, <2>3, <2>4, <2>6, <3>1 DEF Errands
  <2> QED
    BY <2>5, <2>6
<1> QED
  BY <1>2, <1>3 DEF ErrandsInv

LEMMA InterruptedKeeps == ASSUME TypeOK, ErrandsInv, Interrupted PROVE ErrandsInv'
<1>1. ASSUME NEW u \in Tools
      PROVE  HitCount(channel', OfTool(u)) = HitCount(channel, OfTool(u))
  <2>1. Interrupt \notin OfTool(u) /\ Interrupt \in Events /\ channel \in Seq(Events)
    BY ConstantsAssumption DEF OfTool, Interrupt, Task, TypeOK, Events
  <2>2. HitCount(channel, OfTool(u)) \in Nat
    BY <2>1, HitsFinite
  <2>3. CASE channel' = Append(channel, Interrupt)
    BY <2>1, <2>2, <2>3, HitsAppend
  <2>4. CASE channel # <<>> /\ Head(channel) = Interrupt /\ channel' = Tail(channel)
    <3>1. channel' \in Seq(Events)
      BY <2>1, <2>4, HeadTailProperties
    <3>2. HitCount(channel', OfTool(u)) \in Nat
      BY <3>1, HitsFinite
    <3>3. HitCount(channel, OfTool(u)) = HitCount(Tail(channel), OfTool(u)) + 0
      BY <2>1, <2>4, HitsTail
    <3> QED
      BY <2>4, <3>2, <3>3
  <2> QED
    BY <2>3, <2>4 DEF Interrupted
<1>2. ASSUME NEW u \in Tools PROVE Errands(tasks', channel', queue', u) = Owed(u)'
  BY <1>1 DEF Interrupted, ErrandsInv, Errands, Owed
<1> QED
  BY <1>2 DEF ErrandsInv, Interrupted

LEMMA SettledKeeps ==
  ASSUME TypeOK, ErrandsInv, NEW t \in Tools, SettledBy(t) PROVE ErrandsInv'
<1>1. Handles(t)
  BY DEF SettledBy
<1>2. ASSUME NEW u \in Tools PROVE Errands(tasks', channel', queue', u) = Owed(u)'
  <2>1. /\ Among(tasks, OfTool(u)) \in Nat
        /\ HitCount(channel, OfTool(u)) \in Nat /\ HitCount(queue, OfTool(u)) \in Nat
    BY Counts DEF ErrandsInv
  <2>2. Among(tasks, OfTool(u)) + HitCount(channel, OfTool(u))
          + HitCount(queue, OfTool(u)) = Owed(u)
    BY DEF ErrandsInv, Errands
  <2>3. channel' \in Seq(Events)
    BY <1>1, HeadTailProperties DEF TypeOK, Handles
  <2>4. HitCount(channel', OfTool(u)) \in Nat
    BY <2>3, HitsFinite
  <2>5. HitCount(channel, OfTool(u)) = HitCount(channel', OfTool(u)) + IF u = t THEN 1 ELSE 0
    BY <1>1, SoleErrand
  <2>6. tasks' = tasks /\ queue' = queue
    BY DEF SettledBy
  <2>7. CASE u = t
    <3>1. Owed(u)' = 0
      BY <2>7 DEF Owed, SettledBy
    <3>2. HitCount(channel, OfTool(t)) = 1 /\ Among(tasks, OfTool(t)) = 0
            /\ HitCount(queue, OfTool(t)) = 0
      BY <1>1, SoleErrand
    <3> QED
      BY <2>4, <2>5, <2>6, <2>7, <3>1, <3>2 DEF Errands
  <2>8. CASE u # t
    <3>1. Owed(u)' = Owed(u)
      BY <1>1, <2>8 DEF Owed, SettledBy, Handles
    <3> QED
      BY <2>1, <2>2, <2>4, <2>5, <2>6, <2>8, <3>1 DEF Errands
  <2> QED
    BY <2>7, <2>8
<1> QED
  BY <1>2 DEF ErrandsInv, SettledBy

\* A task or a prompt for the call takes the place of the event.
LEMMA StartedKeeps ==
  ASSUME TypeOK, ErrandsInv, NEW t \in Tools, Started(t) PROVE ErrandsInv'
<1>1. Handles(t)
  BY DEF Started
<1>2. PICK task \in Tasks : task.tool = t /\ tasks' = tasks \cup {task}
  BY DEF Started
<1>3. /\ UNCHANGED <<queue, results, dead>>
      /\ IsFiniteSet(tasks) /\ IsFiniteSet(tasks')
  BY <1>1, <1>2, FS_AddElement DEF ErrandsInv, Started, Handles
<1>4. task \notin tasks
  <2>1. Among(tasks, OfTool(t)) = 0 /\ task \in OfTool(t)
    BY <1>1, <1>2, SoleErrand DEF OfTool
  <2> QED
    BY <1>3, <2>1, SetMissed
<1>5. ASSUME NEW u \in Tools PROVE Errands(tasks', channel', queue', u) = Owed(u)'
  <2>1. task \in OfTool(u) <=> u = t
    BY <1>2 DEF OfTool
  <2>2. Among(tasks', OfTool(u))
          = Among(tasks, OfTool(u)) + IF u = t THEN 1 ELSE 0
    BY <1>2, <1>3, <1>4, <2>1, SetAdded
  <2>3. HitCount(channel, OfTool(u)) = HitCount(channel', OfTool(u)) + IF u = t THEN 1 ELSE 0
    BY <1>1, SoleErrand
  <2>4. channel' \in Seq(Events)
    BY <1>1, HeadTailProperties DEF TypeOK, Handles
  <2>5. /\ Among(tasks, OfTool(u)) \in Nat /\ HitCount(channel', OfTool(u)) \in Nat
        /\ HitCount(queue, OfTool(u)) \in Nat
    BY <1>3, <2>4, Counts, HitsFinite
  <2>6. Errands(tasks', channel', queue', u) = Errands(tasks, channel, queue, u)
    BY <1>3, <2>2, <2>3, <2>5 DEF Errands
  <2> QED
    BY <1>3, <2>6 DEF ErrandsInv, Owed
<1> QED
  BY <1>3, <1>5 DEF ErrandsInv

LEMMA PromptedKeeps ==
  ASSUME TypeOK, ErrandsInv, NEW t \in Tools, Prompted(t) PROVE ErrandsInv'
<1>1. Handles(t)
  BY DEF Prompted
<1>2. PICK prompt \in Prompts : prompt.tool = t /\ PromptOrQueue(prompt)
  BY DEF Prompted
<1>3. CASE ~promptActive
  <2>1. Prompts \subseteq Tasks
    BY PromptKinds
  <2>2. tasks' = tasks \cup {prompt} /\ UNCHANGED <<queue, results, dead>>
    BY <1>1, <1>2, <1>3 DEF PromptOrQueue, Prompted, Handles
  <2>3. IsFiniteSet(tasks) /\ IsFiniteSet(tasks')
    BY <2>2, FS_AddElement DEF ErrandsInv
  <2>4. prompt \notin tasks
    <3>1. Among(tasks, OfTool(t)) = 0 /\ prompt \in OfTool(t)
      BY <1>1, <1>2, <2>1, SoleErrand DEF OfTool
    <3> QED
      BY <2>3, <3>1, SetMissed
  <2>5. ASSUME NEW u \in Tools PROVE Errands(tasks', channel', queue', u) = Owed(u)'
    <3>1. prompt \in OfTool(u) <=> u = t
      BY <1>2, <2>1 DEF OfTool
    <3>2. Among(tasks', OfTool(u))
            = Among(tasks, OfTool(u)) + IF u = t THEN 1 ELSE 0
      BY <2>2, <2>3, <2>4, <3>1, SetAdded
    <3>3. HitCount(channel, OfTool(u)) = HitCount(channel', OfTool(u)) + IF u = t THEN 1 ELSE 0
      BY <1>1, SoleErrand
    <3>4. channel' \in Seq(Events)
      BY <1>1, HeadTailProperties DEF TypeOK, Handles
    <3>5. /\ Among(tasks, OfTool(u)) \in Nat /\ HitCount(channel', OfTool(u)) \in Nat
          /\ HitCount(queue, OfTool(u)) \in Nat
      BY <2>3, <3>4, Counts, HitsFinite
    <3>6. Errands(tasks', channel', queue', u) = Errands(tasks, channel, queue, u)
      BY <2>2, <3>2, <3>3, <3>5 DEF Errands
    <3> QED
      BY <2>2, <3>6 DEF ErrandsInv, Owed
  <2> QED
    BY <2>3, <2>5 DEF ErrandsInv
<1>4. CASE promptActive
  <2>1. queue' = Append(queue, prompt) /\ UNCHANGED <<tasks, results, dead>>
    BY <1>1, <1>2, <1>4 DEF PromptOrQueue, Prompted, Handles
  <2>2. ASSUME NEW u \in Tools PROVE Errands(tasks', channel', queue', u) = Owed(u)'
    <3>1. prompt \in OfTool(u) <=> u = t
      BY <1>2, PromptKinds DEF OfTool
    <3>2. HitCount(queue', OfTool(u))
            = HitCount(queue, OfTool(u)) + IF u = t THEN 1 ELSE 0
      BY <2>1, <3>1, HitsAppend DEF TypeOK
    <3>3. HitCount(channel, OfTool(u)) = HitCount(channel', OfTool(u)) + IF u = t THEN 1 ELSE 0
      BY <1>1, SoleErrand
    <3>4. channel' \in Seq(Events)
      BY <1>1, HeadTailProperties DEF TypeOK, Handles
    <3>5. /\ Among(tasks, OfTool(u)) \in Nat /\ HitCount(channel', OfTool(u)) \in Nat
          /\ HitCount(queue, OfTool(u)) \in Nat
      BY <3>4, Counts, HitsFinite DEF ErrandsInv
    <3>6. Errands(tasks', channel', queue', u) = Errands(tasks, channel, queue, u)
      BY <2>1, <3>2, <3>3, <3>5 DEF Errands
    <3> QED
      BY <2>1, <3>6 DEF ErrandsInv, Owed
  <2> QED
    BY <2>1, <2>2 DEF ErrandsInv
<1> QED
  BY <1>3, <1>4

\* The prompt at the head of the queue is not on the terminal.
LEMMA NextIsWaiting ==
  ASSUME TypeOK, ErrandsInv, queue # <<>>
  PROVE  /\ Head(queue) \in Prompts /\ Tail(queue) \in Seq(Prompts)
         /\ Head(queue) \in OfPrompt
         /\ Head(queue) \notin tasks
<1> DEFINE p == Head(queue)
<1>1. queue \in Seq(Prompts) /\ p \in Prompts /\ Tail(queue) \in Seq(Prompts)
  BY HeadTailProperties DEF TypeOK
<1>2. p.tool \in Tools /\ p \in OfPrompt /\ p \in OfTool(p.tool)
  BY <1>1, PromptKinds DEF Prompts, OfTool
<1>3. HitCount(queue, OfTool(p.tool)) = HitCount(Tail(queue), OfTool(p.tool)) + 1
  BY <1>1, <1>2, HitsTail
<1>4. HitCount(Tail(queue), OfTool(p.tool)) \in Nat
  BY <1>1, HitsFinite
<1>5. /\ Among(tasks, OfTool(p.tool)) \in Nat
      /\ HitCount(channel, OfTool(p.tool)) \in Nat
  BY Counts DEF ErrandsInv
<1>6. Among(tasks, OfTool(p.tool)) + HitCount(channel, OfTool(p.tool))
        + HitCount(queue, OfTool(p.tool)) = Owed(p.tool)
  BY <1>2 DEF ErrandsInv, Errands
<1>7. Among(tasks, OfTool(p.tool)) = 0
  BY <1>3, <1>4, <1>5, <1>6 DEF Owed
<1> QED
  BY <1>1, <1>2, <1>7, SetMissed DEF ErrandsInv

\* What handing the terminal over does to the tasks and the queue together.
LEMMA NextPromptCounts ==
  ASSUME TypeOK, ErrandsInv, NEW t \in Tools, Handles(t),
         NEW started, started = {} \/ started = {Run(t)},
         NEW settled, NextPrompt(started, settled), NEW u \in Tools
  PROVE  /\ IsFiniteSet(tasks')
         /\ Among(tasks', OfTool(u)) + HitCount(queue', OfTool(u))
              = Among(tasks, OfTool(u)) + HitCount(queue, OfTool(u))
                  + IF u = t /\ started # {} THEN 1 ELSE 0
<1> DEFINE T == tasks \cup started
<1>1. Run(t) \in OfTool(u) <=> u = t
  BY DEF OfTool, Run, Task, Tasks
<1>2. Run(t) \notin tasks
  <2>1. Among(tasks, OfTool(t)) = 0 /\ Run(t) \in OfTool(t)
    BY SoleErrand DEF OfTool, Run, Task, Tasks
  <2> QED
    BY <2>1, SetMissed DEF ErrandsInv
<1>3. /\ Among(tasks, OfTool(u)) \in Nat /\ HitCount(queue, OfTool(u)) \in Nat
  BY Counts DEF ErrandsInv
<1>4. /\ IsFiniteSet(T)
      /\ Among(T, OfTool(u))
           = Among(tasks, OfTool(u)) + IF u = t /\ started # {} THEN 1 ELSE 0
  <2>1. CASE started = {}
    BY <1>3, <2>1 DEF ErrandsInv
  <2>2. CASE started = {Run(t)}
    BY <1>1, <1>2, <2>2, SetAdded DEF ErrandsInv
  <2> QED
    BY <2>1, <2>2
<1>5. Among(T, OfTool(u)) \in Nat
  BY <1>4, SetCounted
<1>6. CASE queue = <<>>
  <2>1. tasks' = T /\ queue' = queue
    BY <1>6 DEF NextPrompt
  <2> HIDE DEF T
  <2> QED
    BY <1>3, <1>4, <1>5, <2>1
<1>7. CASE queue # <<>>
  <2>1. tasks' = T \cup {Head(queue)} /\ queue' = Tail(queue)
    BY <1>7 DEF NextPrompt
  <2>2. Head(queue) \notin T
    BY <1>7, NextIsWaiting, PromptKinds
  <2> HIDE DEF T
  <2>3. /\ IsFiniteSet(tasks')
        /\ Among(tasks', OfTool(u))
             = Among(T, OfTool(u)) + IF Head(queue) \in OfTool(u) THEN 1 ELSE 0
    <3>1. PICK S, p : S = T /\ p = Head(queue)
      OBVIOUS
    <3>2. IsFiniteSet(S) /\ p \notin S /\ tasks' = S \cup {p}
      BY <1>4, <2>1, <2>2, <3>1
    <3>3. IsFiniteSet(tasks')
            /\ Among(tasks', OfTool(u)) = Among(S, OfTool(u)) + IF p \in OfTool(u) THEN 1 ELSE 0
      BY <3>2, SetAdded
    <3> QED
      BY <3>1, <3>3
  <2>4. HitCount(queue, OfTool(u))
          = HitCount(queue', OfTool(u)) + IF Head(queue) \in OfTool(u) THEN 1 ELSE 0
    BY <1>7, <2>1, HitsTail DEF TypeOK
  <2>5. HitCount(queue', OfTool(u)) \in Nat
    BY <1>7, <2>1, NextIsWaiting, HitsFinite
  <2> QED
    BY <1>3, <1>4, <1>5, <2>3, <2>4, <2>5
<1> QED
  BY <1>6, <1>7

LEMMA HandedOverKeeps ==
  ASSUME TypeOK, ErrandsInv, NEW t \in Tools, HandedOver(t) PROVE ErrandsInv'
<1>1. Handles(t) /\ dead' = dead
  BY DEF HandedOver, Handles
<1>2. channel' \in Seq(Events)
  BY <1>1, HeadTailProperties DEF TypeOK, Handles
<1>3. ASSUME NEW started, started = {} \/ started = {Run(t)},
             NEW settled, NextPrompt(started, settled),
             \A u \in Tools \ {t} : results'[u] = results[u],
             results'[t] = None <=> started # {}
      PROVE  ErrandsInv'
  <2>1. IsFiniteSet(tasks')
    BY <1>1, <1>3, NextPromptCounts
  <2>2. ASSUME NEW u \in Tools PROVE Errands(tasks', channel', queue', u) = Owed(u)'
    <3>1. Among(tasks', OfTool(u)) + HitCount(queue', OfTool(u))
            = Among(tasks, OfTool(u)) + HitCount(queue, OfTool(u))
                + IF u = t /\ started # {} THEN 1 ELSE 0
      BY <1>1, <1>3, NextPromptCounts
    <3>2. HitCount(channel, OfTool(u)) = HitCount(channel', OfTool(u)) + IF u = t THEN 1 ELSE 0
      BY <1>1, SoleErrand
    <3>3. Among(tasks, OfTool(u)) + HitCount(channel, OfTool(u))
            + HitCount(queue, OfTool(u)) = Owed(u)
      BY DEF ErrandsInv, Errands
    <3>4. /\ Among(tasks, OfTool(u)) \in Nat /\ HitCount(channel', OfTool(u)) \in Nat
          /\ HitCount(queue, OfTool(u)) \in Nat
      BY <1>2, Counts, HitsFinite DEF ErrandsInv
    <3>5. HitCount(queue', OfTool(u)) \in Nat /\ Among(tasks', OfTool(u)) \in Nat
      <4>1. queue' \in Seq(Prompts)
        BY <1>3, NextIsWaiting DEF NextPrompt, TypeOK
      <4> QED
        BY <2>1, <4>1, HitsFinite, SetCounted
    <3>6. Owed(u)' = Owed(u) - IF u = t /\ started = {} THEN 1 ELSE 0
      <4>1. results[t] = None /\ t \notin dead
        BY <1>1, SoleErrand
      <4>2. started # {} <=> started = {Run(t)}
        BY <1>3
      <4> QED
        BY <1>1, <1>3, <4>1, <4>2 DEF Owed
    <3>7. Owed(u) \in Nat
      BY DEF Owed
    <3> QED
      BY <3>1, <3>2, <3>3, <3>4, <3>5, <3>6, <3>7 DEF Errands
  <2> QED
    BY <2>1, <2>2 DEF ErrandsInv
<1>4. CASE (\E settled : NextPrompt({Run(t)}, settled)) /\ UNCHANGED results
  BY <1>1, <1>3, <1>4, SoleErrand
<1>5. CASE /\ \E settled : NextPrompt({}, settled)
           /\ results'[t] # None /\ \A u \in Tools \ {t} : results'[u] = results[u]
  BY <1>3, <1>5
<1> QED
  BY <1>4, <1>5 DEF HandedOver

\* The batch starts with a task per call.
LEMMA ErrandsInit == Init => ErrandsInv
<1> SUFFICES ASSUME Init PROVE ErrandsInv
  OBVIOUS
<1>1. IsFiniteSet(tasks)
  <2> DEFINE f == [t \in Tools |-> Run(t)]
  <2>1. \A t \in Tools : f[t] \in tasks
    BY DEF Init
  <2>2. \A task \in tasks : \E t \in Tools : f[t] = task
    BY DEF Init
  <2>3. f \in Surjection(Tools, tasks)
    BY <2>1, <2>2 DEF Surjection
  <2> QED
    BY <2>3, FS_Surjection, ConstantsAssumption
<1>2. ASSUME NEW t \in Tools PROVE Errands(tasks, channel, queue, t) = Owed(t)
  <2>1. tasks \cap OfTool(t) = {Run(t)}
    BY DEF Init, OfTool, Run, Task, Tasks
  <2>2. Among(tasks, OfTool(t)) = 1
    BY <2>1, FS_Singleton DEF Among
  <2>3. channel = <<>> /\ queue = <<>>
    BY DEF Init
  <2>4. Hits(channel, OfTool(t)) = {} /\ Hits(queue, OfTool(t)) = {}
    BY <2>3 DEF Hits
  <2>5. HitCount(channel, OfTool(t)) = 0 /\ HitCount(queue, OfTool(t)) = 0
    BY <2>4, FS_EmptySet DEF HitCount
  <2> QED
    BY <2>2, <2>5 DEF Init, Owed, Errands
<1> QED
  BY <1>1, <1>2 DEF ErrandsInv

LEMMA ErrandsStep == TypeOK /\ ErrandsInv /\ [Next]_vars => ErrandsInv'
BY StepShape, ReportedKeeps, DiedKeeps, InterruptedKeeps, SettledKeeps, StartedKeeps,
   PromptedKeeps, HandedOverKeeps

LEMMA ErrandsAlways == Spec => [](TypeOK /\ ErrandsInv)
BY TypeCorrect, ErrandsInit, ErrandsStep, PTL DEF Spec

LEMMA ErrandsAreCounted == TypeOK /\ ErrandsInv => OneErrandPerCall
<1> SUFFICES ASSUME TypeOK, ErrandsInv, NEW t \in Tools
             PROVE  ErrandCount(t) = IF results[t] = None /\ t \notin dead THEN 1 ELSE 0
  BY DEF OneErrandPerCall
<1>1. ErrandCount(t) = Errands(tasks, channel, queue, t)
  BY ErrandsCounted DEF TypeOK, ErrandCount
<1> QED
  BY <1>1 DEF ErrandsInv, Owed

\* Until a call has its result, one thing is under way that leads to one (a
\* task, an event on the channel, or a prompt in the queue), and afterwards
\* nothing is that could overwrite it, whatever the tools ask and however
\* the answers and the interrupts fall, unless the call's task panicked.
THEOREM OneErrandEach == Spec => []OneErrandPerCall
BY ErrandsAlways, ErrandsAreCounted, PTL

-----------------------------------------------------------------------------
(* One prompt on the terminal.                                             *)

PromptsInv ==
  /\ Among(tasks, OfPrompt) + HitCount(channel, OfPrompt) = IF promptActive THEN 1 ELSE 0
  /\ queue # <<>> => promptActive

LEMMA PromptsInit == Init => PromptsInv
<1> SUFFICES ASSUME Init PROVE PromptsInv
  OBVIOUS
<1>1. tasks \cap OfPrompt = {}
  BY PromptKinds DEF Init
<1>2. channel = <<>> /\ queue = <<>> /\ promptActive = FALSE
  BY DEF Init
<1>3. Hits(channel, OfPrompt) = {}
  BY <1>2 DEF Hits
<1> QED
  BY <1>1, <1>2, <1>3, FS_EmptySet DEF PromptsInv, Among, HitCount

\* The head of the channel, taken.
LEMMA HandledCounts ==
  ASSUME TypeOK, NEW t \in Tools, Handles(t), NEW M
  PROVE  /\ HitCount(channel', M) \in Nat
         /\ HitCount(channel, M)
              = HitCount(channel', M) + IF Head(channel) \in M THEN 1 ELSE 0
<1>1. channel \in Seq(Events) /\ channel # <<>> /\ channel' = Tail(channel)
  BY DEF TypeOK, Handles
<1>2. channel' \in Seq(Events)
  BY <1>1, HeadTailProperties
<1>3. HitCount(channel', M) \in Nat
  BY <1>2, HitsFinite
<1>4. HitCount(channel, M)
        = HitCount(Tail(channel), M) + IF Head(channel) \in M THEN 1 ELSE 0
  BY <1>1, HitsTail
<1> QED
  BY <1>1, <1>3, <1>4

LEMMA ReportedTakesTurns ==
  ASSUME TypeOK, ErrandsInv, PromptsInv, Reported PROVE PromptsInv'
<1>1. PICK task \in tasks, event \in Events :
        /\ tasks' = tasks \ {task} /\ channel' = Append(channel, event)
        /\ task \in OfPrompt <=> event \in OfPrompt
        /\ UNCHANGED <<queue, promptActive>>
  BY DEF Reported
<1>2. IsFiniteSet(tasks) /\ task \in tasks /\ tasks' = tasks \ {task}
  BY <1>1 DEF ErrandsInv
<1>3. /\ Among(tasks', OfPrompt) \in Nat
      /\ Among(tasks, OfPrompt)
           = Among(tasks', OfPrompt) + IF task \in OfPrompt THEN 1 ELSE 0
  <2>1. PICK M : M = OfPrompt
    OBVIOUS
  <2>2. IsFiniteSet(tasks')
    BY <1>2, FS_RemoveElement
  <2>3. Among(tasks, M) = Among(tasks', M) + IF task \in M THEN 1 ELSE 0
    BY <1>2, SetRemoved
  <2> QED
    BY <2>1, <2>2, <2>3, SetCounted
<1>4. HitCount(channel', OfPrompt)
        = HitCount(channel, OfPrompt) + IF event \in OfPrompt THEN 1 ELSE 0
  BY <1>1, HitsAppend DEF TypeOK
<1>5. HitCount(channel, OfPrompt) \in Nat
  BY <1>2, Counts
<1> QED
  BY <1>1, <1>3, <1>4, <1>5 DEF PromptsInv

LEMMA DiedTakesTurns ==
  ASSUME TypeOK, ErrandsInv, PromptsInv, Died PROVE PromptsInv'
<1>1. PICK t \in Tools :
        /\ Run(t) \in tasks /\ tasks' = tasks \ {Run(t)}
        /\ UNCHANGED <<channel, queue, promptActive>>
  BY DEF Died
<1>2. tasks' \cap OfPrompt = tasks \cap OfPrompt
  BY <1>1, PromptKinds
<1> QED
  BY <1>1, <1>2 DEF PromptsInv, Among

LEMMA InterruptedTakesTurns ==
  ASSUME TypeOK, ErrandsInv, PromptsInv, Interrupted PROVE PromptsInv'
<1>1. Interrupt \notin OfPrompt /\ Interrupt \in Events /\ channel \in Seq(Events)
  <2>1. Interrupt \in Events
    BY DEF Events
  <2>2. Interrupt.kind \notin PromptEvents
    BY DEF Interrupt, Task, PromptEvents
  <2> QED
    BY <2>1, <2>2, PromptKinds DEF TypeOK
<1>2. HitCount(channel, OfPrompt) \in Nat
  BY <1>1, HitsFinite
<1>3. HitCount(channel', OfPrompt) = HitCount(channel, OfPrompt)
  <2>1. CASE channel' = Append(channel, Interrupt)
    BY <1>1, <1>2, <2>1, HitsAppend
  <2>2. CASE channel # <<>> /\ Head(channel) = Interrupt /\ channel' = Tail(channel)
    <3>1. channel' \in Seq(Events)
      BY <1>1, <2>2, HeadTailProperties
    <3>2. HitCount(channel', OfPrompt) \in Nat
      BY <3>1, HitsFinite
    <3>3. HitCount(channel, OfPrompt) = HitCount(Tail(channel), OfPrompt) + 0
      BY <1>1, <2>2, HitsTail
    <3> QED
      BY <2>2, <3>2, <3>3
  <2> QED
    BY <2>1, <2>2 DEF Interrupted
<1> QED
  BY <1>3 DEF PromptsInv, Interrupted

\* An event that belongs to no prompt leaves the one on the terminal alone.
LEMMA OtherEvents ==
  ASSUME TypeOK, ErrandsInv, NEW t \in Tools, Handles(t), Head(channel) \notin OfPrompt
  PROVE  HitCount(channel', OfPrompt) = HitCount(channel, OfPrompt)
           /\ HitCount(channel, OfPrompt) \in Nat
<1>1. PICK M : M = OfPrompt
  OBVIOUS
<1>2. /\ HitCount(channel', M) \in Nat
      /\ HitCount(channel, M) = HitCount(channel', M) + IF Head(channel) \in M THEN 1 ELSE 0
  BY HandledCounts
<1> QED
  BY <1>1, <1>2

LEMMA StartedTakesTurns ==
  ASSUME TypeOK, ErrandsInv, PromptsInv, NEW t \in Tools, Started(t) PROVE PromptsInv'
<1>1. HitCount(channel', OfPrompt) = HitCount(channel, OfPrompt)
  BY OtherEvents DEF Started
<1>2. tasks' \cap OfPrompt = tasks \cap OfPrompt
  BY DEF Started
<1> QED
  BY <1>1, <1>2 DEF PromptsInv, Started, Among

LEMMA PromptedTakesTurns ==
  ASSUME TypeOK, ErrandsInv, PromptsInv, NEW t \in Tools, Prompted(t) PROVE PromptsInv'
<1>1. /\ HitCount(channel', OfPrompt) = HitCount(channel, OfPrompt)
      /\ HitCount(channel, OfPrompt) \in Nat
  BY OtherEvents DEF Prompted
<1>2. PICK prompt \in Prompts : PromptOrQueue(prompt)
  BY DEF Prompted
<1>3. prompt \in OfPrompt
  BY PromptKinds
<1>4. IsFiniteSet(tasks) /\ Among(tasks, OfPrompt) \in Nat
  BY Counts DEF ErrandsInv
<1>5. CASE promptActive
  <2>1. tasks' = tasks /\ promptActive' = promptActive
    BY <1>2, <1>5 DEF PromptOrQueue
  <2> QED
    BY <1>1, <1>5, <2>1 DEF PromptsInv
<1>6. CASE ~promptActive
  <2>1. Among(tasks, OfPrompt) = 0 /\ HitCount(channel, OfPrompt) = 0 /\ queue = <<>>
    BY <1>1, <1>4, <1>6 DEF PromptsInv
  <2>2. prompt \notin tasks
    BY <1>3, <1>4, <2>1, SetMissed
  <2>3. tasks' = tasks \cup {prompt} /\ promptActive' = TRUE
    BY <1>2, <1>6 DEF PromptOrQueue
  <2>4. Among(tasks', OfPrompt) = Among(tasks, OfPrompt) + 1
    <3>1. PICK M : M = OfPrompt
      OBVIOUS
    <3>2. IsFiniteSet(tasks) /\ prompt \notin tasks /\ tasks' = tasks \cup {prompt}
      BY <1>4, <2>2, <2>3
    <3>3. Among(tasks', M) = Among(tasks, M) + IF prompt \in M THEN 1 ELSE 0
      BY <3>2, SetAdded
    <3> QED
      BY <1>3, <3>1, <3>3
  <2> QED
    BY <1>1, <2>1, <2>3, <2>4 DEF PromptsInv
<1> QED
  BY <1>5, <1>6

LEMMA HandedOverTakesTurns ==
  ASSUME TypeOK, ErrandsInv, PromptsInv, NEW t \in Tools, HandedOver(t) PROVE PromptsInv'
<1>1. Handles(t) /\ Head(channel) \in OfPrompt
  BY DEF HandedOver
<1>2. /\ HitCount(channel', OfPrompt) \in Nat
      /\ HitCount(channel, OfPrompt) = HitCount(channel', OfPrompt) + 1
  BY <1>1, HandledCounts
<1>3. IsFiniteSet(tasks) /\ Among(tasks, OfPrompt) \in Nat
  BY Counts DEF ErrandsInv
<1>4. Among(tasks, OfPrompt) = 0 /\ HitCount(channel', OfPrompt) = 0
  BY <1>2, <1>3 DEF PromptsInv
<1>5. PICK started, settled : started \in {{}, {Run(t)}} /\ NextPrompt(started, settled)
  BY DEF HandedOver
<1>6. PICK T : T = tasks \cup started
  OBVIOUS
<1>7. T \cap OfPrompt = tasks \cap OfPrompt
  BY <1>5, <1>6, PromptKinds
<1>8. IsFiniteSet(T) /\ Among(T, OfPrompt) = 0
  <2>1. IsFiniteSet(T)
    BY <1>3, <1>5, <1>6, FS_AddElement
  <2> QED
    BY <1>4, <1>7, <2>1 DEF Among
<1>9. CASE queue = <<>>
  <2>1. tasks' = T /\ queue' = <<>> /\ promptActive' = FALSE
    BY <1>5, <1>6, <1>9 DEF NextPrompt
  <2> QED
    BY <1>4, <1>8, <2>1 DEF PromptsInv
<1>10. CASE queue # <<>>
  <2>1. PICK p : p = Head(queue)
    OBVIOUS
  <2>2. tasks' = T \cup {p} /\ promptActive' = TRUE
    BY <1>5, <1>6, <1>10, <2>1 DEF NextPrompt
  <2>3. p \in OfPrompt /\ p \notin T
    BY <1>5, <1>6, <1>10, <2>1, NextIsWaiting, PromptKinds
  <2>4. Among(tasks', OfPrompt) = Among(T, OfPrompt) + 1
    BY <1>8, <2>2, <2>3, SetAdded
  <2> QED
    BY <1>4, <1>8, <2>2, <2>4 DEF PromptsInv
<1> QED
  BY <1>9, <1>10

LEMMA PromptsStep == TypeOK /\ ErrandsInv /\ PromptsInv /\ [Next]_vars => PromptsInv'
<1> SUFFICES ASSUME TypeOK, ErrandsInv, PromptsInv, [Next]_vars PROVE PromptsInv'
  OBVIOUS
<1>1. ASSUME NEW t \in Tools, SettledBy(t) PROVE PromptsInv'
  <2>1. HitCount(channel', OfPrompt) = HitCount(channel, OfPrompt)
    BY <1>1, OtherEvents DEF SettledBy
  <2> QED
    BY <1>1, <2>1 DEF PromptsInv, SettledBy
<1> QED
  BY <1>1, StepShape, ReportedTakesTurns, DiedTakesTurns, InterruptedTakesTurns,
     StartedTakesTurns, PromptedTakesTurns, HandedOverTakesTurns

LEMMA PromptsAreCounted == TypeOK /\ PromptsInv => PromptsTakeTurns
<1> SUFFICES ASSUME TypeOK, PromptsInv PROVE PromptsTakeTurns
  OBVIOUS
<1>1. PromptTask = tasks \cap OfPrompt
  BY DEF PromptTask, OfPrompt, TypeOK, Tasks, Prompts, PromptEvents
<1>2. \A i \in DOMAIN channel : channel[i] \in Events
  BY LenProperties, ElementOfSeq DEF TypeOK
<1>3. InChannel(PromptEvents) = Hits(channel, OfPrompt)
  BY <1>2, PromptKinds DEF InChannel, Hits
<1> QED
  BY <1>1, <1>3 DEF PromptsTakeTurns, PromptsInv, Among, HitCount

\* At most one prompt is on the terminal at any time, the flag that guards it
\* is set exactly from the moment it is shown until its answer is handled, and
\* no prompt waits in the queue while the terminal is free.
THEOREM OnePromptAtATime == Spec => []PromptsTakeTurns
BY ErrandsAlways, PromptsInit, PromptsStep, PromptsAreCounted, PTL DEF Spec

-----------------------------------------------------------------------------
(* A reply at the menu.                                                    *)

ReplyInv == message # None => cancelledTools # {}

\* A reply comes with the calls it answers, which are there: the batch is not
\* over while the menu is shown.
LEMMA ReplyStep == ReplyInv /\ [Next]_vars => ReplyInv'
<1> SUFFICES ASSUME ReplyInv, [Next]_vars PROVE ReplyInv'
  OBVIOUS
<1>1. CASE \E reply, exit : MenuCancel(reply, exit)
  BY <1>1
  DEF MenuCancel, MenuShown, TakesInterrupt, Takes, Over, Missing, ReplyInv
<1>2. CASE UNCHANGED <<cancelledTools, message>>
  BY <1>2 DEF ReplyInv
<1>3. CASE MenuChoice
  BY <1>1, <1>2, <1>3 DEF MenuChoice, MenuContinue, MenuRestart, MenuEscalate, verdict
<1>4. CASE EventLoop /\ ~MenuChoice
  BY <1>2, <1>4
  DEF EventLoop, ResultDelivered, ResultConfirmed, QuestionRemembered, QuestionToUser,
      QuestionToAssistant, PromptAnswer, PromptCancelled, ResultModeProcessed,
      InquiryAnswered, InquiryFailed, InterruptDeclined, verdict
<1>5. CASE Press \/ Forward \/ ForwardSends
  BY <1>2, <1>5 DEF Press, Forward, ForwardSends, verdict
<1>6. ASSUME NEW t \in Tools, ToolTask(t) \/ ToolPanics(t) \/ AnswerTask(t)
      PROVE  UNCHANGED <<cancelledTools, message>>
  BY <1>6
  DEF ToolTask, AnswerTask, ToolReturns, ToolAsks, ToolPanics, UserAnswers, UserConfirms,
      AssistantAnswers, Reports, verdict
<1>7. CASE UNCHANGED vars
  BY <1>2, <1>7 DEF vars, verdict
<1> QED
  BY <1>2, <1>3, <1>4, <1>5, <1>6, <1>7 DEF Next

\* What the user wrote at the menu instead of waiting is in the results the
\* turn gets, however many interrupts, results and answers came in between.
THEOREM RepliesDelivered == Spec => []ReplyIsDelivered
<1>1. Init => ReplyInv
  BY DEF Init, ReplyInv
<1>2. TypeOK /\ ReplyInv => ReplyIsDelivered
  BY DEF TypeOK, ReplyInv, ReplyIsDelivered, ExecutionResult
<1> QED
  BY <1>1, <1>2, ReplyStep, TypeCorrect, PTL DEF Spec

-----------------------------------------------------------------------------
(***************************************************************************)
(* What the event loop notes about a call agrees with what is under way    *)
(* for it: its state, which decides whether a press opens the menu, and    *)
(* the inquiries recorded in the conversation. Eight handlers write these  *)
(* notes, and each relies on the event it handles being all there is of    *)
(* its call.                                                               *)
(***************************************************************************)

Input ==
  {"question", "inquiry", "answer", "answerForTurn", "promptCancelled",
   "inquiryAnswered", "inquiryFailed"}
Edit == {"delivery", "processed"}
Inquiry == {"inquiry", "inquiryAnswered", "inquiryFailed"}

Tasked(t, K, T) == \E task \in T : task.tool = t /\ task.kind \in K
Told(t, K, c) == \E i \in DOMAIN c : c[i].tool = t /\ c[i].kind \in K
At(t, K) == Tasked(t, K, tasks) \/ Told(t, K, channel)

Book(t) ==
  /\ states[t] = "Completed" <=> results[t] # None
  /\ states[t] = "AwaitingInput" <=> At(t, Input)
  /\ states[t] = "AwaitingResultEdit" <=> At(t, Edit)
  /\ unanswered[t] = IF At(t, Inquiry) \/ results[t] = "inquiryFailed" THEN 1 ELSE 0
BooksInv == \A t \in Tools : Book(t)

\* What the books say of a call with this under way.
StateFor(kind) ==
  IF kind \in Input THEN "AwaitingInput"
  ELSE IF kind \in Edit THEN "AwaitingResultEdit" ELSE "Running"
OwedTo(kind) == IF kind \in Inquiry THEN 1 ELSE 0

-----------------------------------------------------------------------------
(* How an event comes and goes.                                            *)

LEMMA ToldAppend ==
  ASSUME NEW c \in Seq(Events), NEW e \in Events, NEW t, NEW K
  PROVE  Told(t, K, Append(c, e)) <=> Told(t, K, c) \/ (e.tool = t /\ e.kind \in K)
<1> DEFINE d == Append(c, e)
<1>1. /\ DOMAIN c = 1 .. Len(c) /\ Len(c) \in Nat
      /\ d \in Seq(Events) /\ Len(d) = Len(c) + 1
      /\ \A i \in 1 .. Len(c) : d[i] = c[i]
      /\ d[Len(c) + 1] = e
  BY LenProperties, AppendProperties
<1>2. DOMAIN d = 1 .. Len(c) + 1
  BY <1>1, LenProperties
<1> HIDE DEF d
<1>3. Told(t, K, d) <=> Told(t, K, c) \/ (e.tool = t /\ e.kind \in K)
  BY <1>1, <1>2 DEF Told
<1> QED
  BY <1>3 DEF d

LEMMA ToldTail ==
  ASSUME NEW c \in Seq(Events), c # <<>>, NEW t, NEW K
  PROVE  Told(t, K, c) <=> Told(t, K, Tail(c)) \/ (Head(c).tool = t /\ Head(c).kind \in K)
<1> DEFINE d == Tail(c)
<1>1. /\ DOMAIN c = 1 .. Len(c) /\ Len(c) \in Nat /\ Len(c) # 0
      /\ d \in Seq(Events) /\ Len(d) = Len(c) - 1
      /\ \A i \in 1 .. Len(d) : d[i] = c[i + 1]
      /\ Head(c) = c[1]
  BY LenProperties, HeadTailProperties, EmptySeq
<1>2. DOMAIN d = 1 .. Len(c) - 1
  BY <1>1, LenProperties
<1> HIDE DEF d
<1>3. Told(t, K, d) => Told(t, K, c)
  BY <1>1, <1>2 DEF Told
<1>4. Head(c).tool = t /\ Head(c).kind \in K => Told(t, K, c)
  BY <1>1 DEF Told
<1>5. ASSUME Told(t, K, c) PROVE Told(t, K, d) \/ (Head(c).tool = t /\ Head(c).kind \in K)
  <2>1. PICK i \in 1 .. Len(c) : c[i].tool = t /\ c[i].kind \in K
    BY <1>1, <1>5 DEF Told
  <2>2. CASE i = 1
    BY <1>1, <2>1, <2>2
  <2>3. CASE i # 1
    <3>1. i - 1 \in 1 .. Len(c) - 1 /\ d[i - 1] = c[i]
      BY <1>1, <2>1, <2>3
    <3> QED
      BY <1>2, <2>1, <3>1 DEF Told
  <2> QED
    BY <2>2, <2>3
<1> QED
  BY <1>3, <1>4, <1>5 DEF d

\* Nothing counted, nothing told.
LEMMA NothingTold ==
  ASSUME NEW c \in Seq(Events), NEW t, HitCount(c, OfTool(t)) = 0, NEW K
  PROVE  ~Told(t, K, c)
<1>1. IsFiniteSet(Hits(c, OfTool(t)))
  BY HitsFinite
<1>2. Hits(c, OfTool(t)) = {}
  BY <1>1, FS_EmptySet DEF HitCount
<1>3. \A i \in DOMAIN c : c[i] \in Events
  BY LenProperties, ElementOfSeq
<1> QED
  BY <1>2, <1>3 DEF Told, Hits, OfTool

LEMMA NothingTasked ==
  ASSUME NEW T \in SUBSET Tasks, IsFiniteSet(T), NEW t, Among(T, OfTool(t)) = 0, NEW K
  PROVE  ~Tasked(t, K, T)
<1>1. \A x \in OfTool(t) : x \notin T
  BY SetMissed
<1> QED
  BY <1>1 DEF Tasked, OfTool

\* The event that is handled is what its call is at, and nothing else is.
LEMMA EventAt ==
  ASSUME TypeOK, ErrandsInv, NEW t \in Tools, Handles(t), NEW K
  PROVE  /\ At(t, K) <=> Head(channel).kind \in K
         /\ ~Tasked(t, K, tasks) /\ ~Told(t, K, channel')
<1>1. channel \in Seq(Events) /\ channel # <<>> /\ channel' = Tail(channel)
        /\ tasks \in SUBSET Tasks /\ IsFiniteSet(tasks) /\ Head(channel).tool = t
  BY DEF TypeOK, Handles, ErrandsInv
<1>2. channel' \in Seq(Events)
  BY <1>1, HeadTailProperties
<1>3. /\ Among(tasks, OfTool(t)) = 0 /\ HitCount(channel, OfTool(t)) = 1
      /\ HitCount(channel, OfTool(t)) = HitCount(channel', OfTool(t)) + 1
  BY SoleErrand
<1>4. ~Tasked(t, K, tasks)
  BY <1>1, <1>3, NothingTasked
<1>5. HitCount(channel', OfTool(t)) = 0
  BY <1>2, <1>3, HitsFinite
<1>6. ~Told(t, K, Tail(channel))
  BY <1>1, <1>2, <1>5, NothingTold
<1> QED
  BY <1>1, <1>4, <1>6, ToldTail DEF At

\* What the handler starts is what its call is at next; the other calls go on.
LEMMA HandledAt ==
  ASSUME TypeOK, ErrandsInv, NEW t \in Tools, Handles(t),
         NEW X, tasks' = tasks \cup X, NEW u \in Tools, NEW K
  PROVE  At(u, K)' <=> (u # t /\ At(u, K)) \/ Tasked(u, K, X)
<1>1. Told(u, K, channel) <=> Told(u, K, channel') \/ (u = t /\ Head(channel).kind \in K)
  BY ToldTail DEF TypeOK, Handles
<1>2. Tasked(u, K, tasks') <=> Tasked(u, K, tasks) \/ Tasked(u, K, X)
  BY DEF Tasked
<1>3. At(u, K)' <=> Tasked(u, K, tasks') \/ Told(u, K, channel')
  BY DEF At, Tasked, Told
<1> QED
  BY <1>1, <1>2, <1>3, EventAt DEF At

-----------------------------------------------------------------------------
(* The books of one call.                                                  *)

\* A call that is left alone keeps its books.
LEMMA Untouched ==
  ASSUME NEW u \in Tools, Book(u),
         At(u, Input)' <=> At(u, Input), At(u, Edit)' <=> At(u, Edit),
         At(u, Inquiry)' <=> At(u, Inquiry),
         states'[u] = states[u], results'[u] = results[u], unanswered'[u] = unanswered[u]
  PROVE  Book(u)'
BY DEF Book

\* A call without a result for which one thing is under way.
LEMMA BookedFor ==
  ASSUME NEW u \in Tools, NEW kind,
         At(u, Input)' <=> kind \in Input, At(u, Edit)' <=> kind \in Edit,
         At(u, Inquiry)' <=> kind \in Inquiry,
         states'[u] = StateFor(kind), results'[u] = None, unanswered'[u] = OwedTo(kind)
  PROVE  Book(u)'
<1>1. ~(kind \in Input /\ kind \in Edit)
  BY DEF Input, Edit
<1>2. None # "inquiryFailed"
  BY ConstantsAssumption
<1> QED
  BY <1>1, <1>2 DEF Book, StateFor, OwedTo

\* A call that is settled.
LEMMA Closed ==
  ASSUME NEW u \in Tools, NEW response \in Response,
         ~At(u, Input)', ~At(u, Edit)', ~At(u, Inquiry)',
         states'[u] = "Completed", results'[u] = response,
         unanswered'[u] = IF response = "inquiryFailed" THEN 1 ELSE 0
  PROVE  Book(u)'
BY NoneIsNoResponse DEF Book

\* The call whose event is handled has no result, and owes what the event says.
LEMMA BookOfEvent ==
  ASSUME TypeOK, ErrandsInv, BooksInv, NEW t \in Tools, Handles(t)
  PROVE  /\ results[t] = None /\ unanswered[t] = OwedTo(Head(channel).kind)
         /\ states[t] = StateFor(Head(channel).kind)
<1>1. results[t] = None
  BY SoleErrand
<1>2. \A K : At(t, K) <=> Head(channel).kind \in K
  BY EventAt
<1>3. states[t] \in ToolCallState
  BY DEF TypeOK
<1>4. Book(t)
  BY DEF BooksInv
<1>5. None # "inquiryFailed"
  BY ConstantsAssumption
<1> QED
  BY <1>1, <1>2, <1>3, <1>4, <1>5 DEF Book, StateFor, OwedTo, ToolCallState

-----------------------------------------------------------------------------
(* The handlers.                                                           *)

LEMMA Settling ==
  ASSUME TypeOK, ErrandsInv, BooksInv, NEW t \in Tools, Handles(t),
         NEW response \in Response,
         response = "inquiryFailed" <=> Head(channel).kind \in Inquiry,
         results' = [results EXCEPT ![t] = response],
         states' = [states EXCEPT ![t] = "Completed"],
         UNCHANGED <<tasks, unanswered>>
  PROVE  BooksInv'
<1>1. ASSUME NEW u \in Tools, NEW K PROVE At(u, K)' <=> u # t /\ At(u, K)
  <2>1. tasks' = tasks \cup {} /\ ~Tasked(u, K, {})
    BY DEF Tasked
  <2> QED
    BY <2>1, HandledAt
<1>2. Book(t)'
  <2>1. unanswered'[t] = IF response = "inquiryFailed" THEN 1 ELSE 0
    BY BookOfEvent DEF OwedTo
  <2>2. states'[t] = "Completed" /\ results'[t] = response
    BY DEF TypeOK
  <2> QED
    BY <1>1, <2>1, <2>2, Closed
<1>3. ASSUME NEW u \in Tools, u # t PROVE Book(u)'
  <2>1. states'[u] = states[u] /\ results'[u] = results[u] /\ unanswered'[u] = unanswered[u]
    BY <1>3 DEF TypeOK
  <2>2. Book(u)
    BY DEF BooksInv
  <2> QED
    BY <1>1, <1>3, <2>1, <2>2, Untouched
<1> QED
  BY <1>2, <1>3 DEF BooksInv

\* The call goes on with another task, or waits in the queue.
LEMMA Moving ==
  ASSUME TypeOK, ErrandsInv, BooksInv, NEW t \in Tools, Handles(t),
         NEW X, tasks' = tasks \cup X, NEW kind,
         \A K : Tasked(t, K, X) <=> kind \in K,
         \A K : \A u \in Tools \ {t} : ~Tasked(u, K, X),
         states'[t] = StateFor(kind), unanswered'[t] = OwedTo(kind),
         \A u \in Tools \ {t} : states'[u] = states[u] /\ unanswered'[u] = unanswered[u],
         UNCHANGED results
  PROVE  BooksInv'
<1>1. ASSUME NEW K PROVE At(t, K)' <=> kind \in K
  BY HandledAt
<1>2. ASSUME NEW u \in Tools, u # t, NEW K PROVE At(u, K)' <=> At(u, K)
  BY <1>2, HandledAt
<1>3. Book(t)'
  <2>1. results'[t] = None
    BY BookOfEvent
  <2> QED
    BY <1>1, <2>1, BookedFor
<1>4. ASSUME NEW u \in Tools, u # t PROVE Book(u)'
  <2>1. states'[u] = states[u] /\ results'[u] = results[u] /\ unanswered'[u] = unanswered[u]
    BY <1>4
  <2>2. Book(u)
    BY DEF BooksInv
  <2> QED
    BY <1>2, <1>4, <2>1, <2>2, Untouched
<1> QED
  BY <1>3, <1>4 DEF BooksInv

LEMMA Starting ==
  ASSUME TypeOK, ErrandsInv, BooksInv, NEW t \in Tools, Handles(t),
         NEW x \in Tasks, x.tool = t, tasks' = tasks \cup {x},
         states' = [states EXCEPT ![t] = StateFor(x.kind)],
         unanswered' = [unanswered EXCEPT ![t] = OwedTo(x.kind)],
         UNCHANGED results
  PROVE  BooksInv'
<1>1. \A K : Tasked(t, K, {x}) <=> x.kind \in K
  BY DEF Tasked
<1>2. \A K : \A u \in Tools \ {t} : ~Tasked(u, K, {x})
  BY DEF Tasked
<1>3. states'[t] = StateFor(x.kind) /\ unanswered'[t] = OwedTo(x.kind)
  BY DEF TypeOK
<1>4. \A u \in Tools \ {t} : states'[u] = states[u] /\ unanswered'[u] = unanswered[u]
  BY DEF TypeOK
<1> QED
  BY <1>1, <1>2, <1>3, <1>4, Moving

LEMMA Prompting ==
  ASSUME TypeOK, ErrandsInv, BooksInv, NEW t \in Tools, Handles(t),
         Head(channel).kind \in {"result", "needsInput"},
         NEW prompt \in Prompts, prompt.tool = t, PromptOrQueue(prompt),
         UNCHANGED <<results, unanswered>>
  PROVE  BooksInv'
<1>1. OwedTo(Head(channel).kind) = 0 /\ StateFor(Head(channel).kind) = "Running"
  BY DEF OwedTo, StateFor, Input, Edit, Inquiry
<1>2. unanswered[t] = 0 /\ states[t] = "Running"
  BY <1>1, BookOfEvent
<1>3. CASE promptActive
  <2>1. tasks' = tasks \cup {} /\ UNCHANGED states
    BY <1>3 DEF PromptOrQueue
  <2>3. ASSUME NEW u \in Tools, NEW K PROVE At(u, K)' <=> u # t /\ At(u, K)
    <3>1. ~Tasked(u, K, {})
      BY DEF Tasked
    <3> QED
      BY <2>1, <3>1, HandledAt
  <2>4. Book(t)'
    <3>1. /\ "run" \notin Input /\ "run" \notin Edit /\ "run" \notin Inquiry
          /\ StateFor("run") = "Running" /\ OwedTo("run") = 0
      BY DEF Input, Edit, Inquiry, StateFor, OwedTo
    <3>2. results'[t] = None /\ states'[t] = "Running" /\ unanswered'[t] = 0
      BY <1>2, <2>1, BookOfEvent
    <3> QED
      BY <2>3, <3>1, <3>2, BookedFor
  <2>5. ASSUME NEW u \in Tools, u # t PROVE Book(u)'
    <3>1. states'[u] = states[u] /\ results'[u] = results[u] /\ unanswered'[u] = unanswered[u]
      BY <2>1
    <3>2. Book(u)
      BY DEF BooksInv
    <3> QED
      BY <2>3, <2>5, <3>1, <3>2, Untouched
  <2> QED
    BY <2>4, <2>5 DEF BooksInv
<1>4. CASE ~promptActive
  <2>1. prompt \in Tasks
    BY PromptKinds
  <2>2. Awaiting(prompt) = StateFor(prompt.kind) /\ OwedTo(prompt.kind) = 0
    BY DEF Prompts, Awaiting, StateFor, OwedTo, Input, Edit, Inquiry
  <2>3. tasks' = tasks \cup {prompt} /\ states' = [states EXCEPT ![t] = StateFor(prompt.kind)]
    BY <1>4, <2>2 DEF PromptOrQueue
  <2>4. unanswered' = [unanswered EXCEPT ![t] = OwedTo(prompt.kind)]
    BY <1>2, <2>2 DEF TypeOK
  <2> QED
    BY <2>1, <2>3, <2>4, Starting
<1> QED
  BY <1>3, <1>4

\* The call of the next prompt has nothing else under way.
LEMMA NextIsIdle ==
  ASSUME TypeOK, ErrandsInv, queue # <<>>, NEW p, p = Head(queue), NEW K
  PROVE  /\ p \in Prompts /\ p.tool \in Tools
         /\ results[p.tool] = None /\ ~At(p.tool, K)
<1>1. queue \in Seq(Prompts) /\ p \in Prompts /\ Tail(queue) \in Seq(Prompts)
  BY HeadTailProperties DEF TypeOK
<1>2. p.tool \in Tools /\ p \in OfTool(p.tool)
  BY <1>1, PromptKinds DEF Prompts, OfTool
<1>3. HitCount(queue, OfTool(p.tool)) = HitCount(Tail(queue), OfTool(p.tool)) + 1
  BY <1>1, <1>2, HitsTail
<1>4. HitCount(Tail(queue), OfTool(p.tool)) \in Nat
  BY <1>1, HitsFinite
<1>5. /\ Among(tasks, OfTool(p.tool)) \in Nat
      /\ HitCount(channel, OfTool(p.tool)) \in Nat
  BY Counts DEF ErrandsInv
<1>6. Among(tasks, OfTool(p.tool)) + HitCount(channel, OfTool(p.tool))
        + HitCount(queue, OfTool(p.tool)) = Owed(p.tool)
  BY <1>2 DEF ErrandsInv, Errands
<1>7. /\ results[p.tool] = None /\ Among(tasks, OfTool(p.tool)) = 0
      /\ HitCount(channel, OfTool(p.tool)) = 0
  BY <1>3, <1>4, <1>5, <1>6 DEF Owed
<1>8. ~Told(p.tool, K, channel)
  BY <1>7, NothingTold DEF TypeOK
<1>9. ~Tasked(p.tool, K, tasks)
  BY <1>7, NothingTasked DEF TypeOK, ErrandsInv
<1> QED
  BY <1>1, <1>2, <1>7, <1>8, <1>9 DEF At

\* The prompt's call is settled or runs again, and the next prompt's call, if
\* there is one, waits for the user.
LEMMA Handing ==
  ASSUME TypeOK, ErrandsInv, BooksInv, NEW t \in Tools, Handles(t),
         NEW started, \A x \in started : x.tool = t, NEW settled \in [Tools -> ToolCallState],
         NextPrompt(started, settled),
         \A u \in Tools \ {t} : settled[u] = states[u] /\ results'[u] = results[u],
         UNCHANGED unanswered,
         (\A K : At(t, K)' <=> Tasked(t, K, started)) /\ states'[t] = settled[t] => Book(t)'
  PROVE  BooksInv'
<1>1. CASE queue = <<>>
  <2>1. tasks' = tasks \cup started /\ states' = settled
    BY <1>1 DEF NextPrompt
  <2>2. ASSUME NEW u \in Tools, NEW K
        PROVE  At(u, K)' <=> (u # t /\ At(u, K)) \/ Tasked(u, K, started)
    BY <2>1, HandledAt
  <2>3. ASSUME NEW u \in Tools, u # t PROVE Book(u)'
    <3>1. \A K : ~Tasked(u, K, started)
      BY <2>3 DEF Tasked
    <3>2. states'[u] = states[u] /\ results'[u] = results[u] /\ unanswered'[u] = unanswered[u]
      BY <2>1, <2>3
    <3>3. Book(u)
      BY DEF BooksInv
    <3> QED
      BY <2>2, <2>3, <3>1, <3>2, <3>3, Untouched
  <2> QED
    BY <2>1, <2>2, <2>3 DEF BooksInv
<1>2. CASE queue # <<>>
  <2>1. PICK p : p = Head(queue)
    OBVIOUS
  <2>2. /\ tasks' = tasks \cup (started \cup {p})
        /\ states' = [settled EXCEPT ![p.tool] = Awaiting(p)]
    BY <1>2, <2>1 DEF NextPrompt
  <2>3. /\ p \in Prompts /\ p.tool \in Tools /\ results[p.tool] = None
        /\ \A K : ~At(p.tool, K)
    BY <1>2, <2>1, NextIsIdle
  <2>4. p.tool # t
    <3>1. HitCount(queue, OfTool(t)) = 0 /\ queue \in Seq(Prompts) /\ Tail(queue) \in Seq(Prompts)
      BY <1>2, SoleErrand, HeadTailProperties DEF TypeOK
    <3>2. HitCount(queue, OfTool(t))
            = HitCount(Tail(queue), OfTool(t)) + IF p \in OfTool(t) THEN 1 ELSE 0
      BY <1>2, <2>1, <3>1, HitsTail
    <3>3. HitCount(Tail(queue), OfTool(t)) \in Nat
      BY <3>1, HitsFinite
    <3>4. p \notin OfTool(t)
      BY <3>1, <3>2, <3>3
    <3> QED
      BY <2>3, <3>4, PromptKinds DEF OfTool
  <2>5. ASSUME NEW u \in Tools, NEW K
        PROVE  At(u, K)' <=> \/ u # t /\ At(u, K)
                             \/ Tasked(u, K, started)
                             \/ p.tool = u /\ p.kind \in K
    <3>1. Tasked(u, K, started \cup {p})
            <=> Tasked(u, K, started) \/ (p.tool = u /\ p.kind \in K)
      BY DEF Tasked
    <3> QED
      BY <2>2, <3>1, HandledAt
  <2>6. \A u \in Tools \ {t} : \A K : ~Tasked(u, K, started)
    BY DEF Tasked
  <2>7. Book(t)'
    BY <2>2, <2>4, <2>5
  <2>8. Book(p.tool)'
    <3>1. ASSUME NEW K PROVE At(p.tool, K)' <=> p.kind \in K
      BY <2>3, <2>4, <2>5, <2>6
    <3>2. Awaiting(p) = StateFor(p.kind) /\ OwedTo(p.kind) = 0
      BY <2>3 DEF Prompts, Awaiting, StateFor, OwedTo, Input, Edit, Inquiry
    <3>3. states'[p.tool] = StateFor(p.kind) /\ results'[p.tool] = None
      BY <2>2, <2>3, <2>4, <3>2
    <3>4. unanswered'[p.tool] = OwedTo(p.kind)
      <4>1. Book(p.tool) /\ None # "inquiryFailed"
        BY <2>3, ConstantsAssumption DEF BooksInv
      <4> QED
        BY <2>3, <3>2, <4>1 DEF Book
    <3> QED
      BY <2>3, <3>1, <3>3, <3>4, BookedFor
  <2>9. ASSUME NEW u \in Tools, u # t, u # p.tool PROVE Book(u)'
    <3>1. states'[u] = states[u] /\ results'[u] = results[u] /\ unanswered'[u] = unanswered[u]
      BY <2>2, <2>9
    <3>2. Book(u)
      BY DEF BooksInv
    <3> QED
      BY <2>5, <2>6, <2>9, <3>1, <3>2, Untouched
  <2> QED
    BY <2>7, <2>8, <2>9 DEF BooksInv
<1> QED
  BY <1>1, <1>2

LEMMA HandlersKeepBooks ==
  ASSUME TypeOK, ErrandsInv, BooksInv, EventLoop
  PROVE  BooksInv'
<1>t. PICK t : t = Event.tool
  OBVIOUS
<1>1. CASE ResultDelivered
  <2>1. t \in Tools /\ Handles(t) /\ Event = Head(channel) /\ Event.kind = "result"
    BY <1>t, <1>1, Handling DEF ResultDelivered
  <2>2. Event.what \in Outputs
    BY <1>t, <2>1, EventTyped DEF Handles
  <2>3. PICK response \in Outputs \cup {"skipped"} :
          /\ results' = [results EXCEPT ![t] = response]
          /\ states' = [states EXCEPT ![t] = "Completed"]
    BY <1>t, <1>1, <2>2 DEF ResultDelivered, Resolve
  <2>4. response \in Response /\ response # "inquiryFailed" /\ "result" \notin Inquiry
    BY DEF Outputs, Response, Inquiry
  <2> QED
    BY <1>t, <1>1, <2>1, <2>3, <2>4, Settling DEF ResultDelivered, ledger
<1>2. CASE InquiryFailed
  <2>1. t \in Tools /\ Handles(t) /\ Event = Head(channel) /\ Event.kind = "inquiryFailed"
    BY <1>t, <1>2, Handling DEF InquiryFailed
  <2>2. "inquiryFailed" \in Response /\ "inquiryFailed" \in Inquiry
    BY DEF Response, Inquiry
  <2> QED
    BY <1>t, <1>2, <2>1, <2>2, Settling DEF InquiryFailed, Resolve, ledger
<1>3. CASE ResultConfirmed
  <2>1. t \in Tools /\ Handles(t) /\ Event = Head(channel) /\ Event.kind = "result"
    BY <1>t, <1>3, Handling DEF ResultConfirmed
  <2>2. Event.what \in Outputs
    BY <1>t, <2>1, EventTyped DEF Handles
  <2>3. PICK prompt : prompt = Task("delivery", t, Event.what)
    OBVIOUS
  <2>4. prompt \in Prompts /\ prompt.tool = t
    BY <2>1, <2>2, <2>3 DEF Task, Prompts
  <2> QED
    BY <1>t, <1>3, <2>1, <2>3, <2>4, Prompting DEF ResultConfirmed, ledger
<1>4. CASE QuestionToUser
  <2>1. t \in Tools /\ Handles(t) /\ Event = Head(channel) /\ Event.kind = "needsInput"
    BY <1>t, <1>4, Handling DEF QuestionToUser
  <2>2. Event.what \in Questions
    BY <1>t, <2>1, EventTyped DEF Handles, QuestionEvents
  <2>3. PICK prompt : prompt = Task("question", t, Event.what)
    OBVIOUS
  <2>4. prompt \in Prompts /\ prompt.tool = t
    BY <2>1, <2>2, <2>3 DEF Task, Prompts
  <2> QED
    BY <1>t, <1>4, <2>1, <2>3, <2>4, Prompting DEF QuestionToUser, ledger
<1>5. CASE QuestionRemembered
  <2>1. t \in Tools /\ Handles(t) /\ Event = Head(channel) /\ Event.kind = "needsInput"
    BY <1>t, <1>5, Handling DEF QuestionRemembered
  <2>2. Run(t) \in Tasks /\ Run(t).tool = t /\ Run(t).kind = "run"
    BY <2>1 DEF Run, Task, Tasks
  <2>3. /\ StateFor("run") = "Running" /\ StateFor("needsInput") = "Running"
        /\ OwedTo("run") = 0 /\ OwedTo("needsInput") = 0
    BY DEF StateFor, OwedTo, Input, Edit, Inquiry
  <2>4. states[t] = "Running" /\ unanswered[t] = 0
    BY <2>1, <2>3, BookOfEvent
  <2>5. /\ states' = [states EXCEPT ![t] = StateFor(Run(t).kind)]
        /\ unanswered' = [unanswered EXCEPT ![t] = OwedTo(Run(t).kind)]
    BY <1>t, <1>5, <2>2, <2>3, <2>4 DEF QuestionRemembered, TypeOK, ledger
  <2> QED
    BY <1>t, <1>5, <2>1, <2>2, <2>5, Starting DEF QuestionRemembered
<1>6. CASE QuestionToAssistant
  <2>1. t \in Tools /\ Handles(t) /\ Event = Head(channel) /\ Event.kind = "needsInput"
    BY <1>t, <1>6, Handling DEF QuestionToAssistant
  <2>2. Event.what \in Questions
    BY <1>t, <2>1, EventTyped DEF Handles, QuestionEvents
  <2>3. PICK x : x = Task("inquiry", t, Event.what)
    OBVIOUS
  <2>4. x \in Tasks /\ x.tool = t /\ x.kind = "inquiry"
    BY <2>1, <2>2, <2>3 DEF Task, Tasks
  <2>5. StateFor("inquiry") = "AwaitingInput" /\ OwedTo("inquiry") = 1 /\ OwedTo("needsInput") = 0
    BY DEF StateFor, OwedTo, Input, Inquiry
  <2>6. unanswered[t] = 0
    BY <2>1, <2>5, BookOfEvent
  <2>7. /\ states' = [states EXCEPT ![t] = StateFor(x.kind)]
        /\ unanswered' = [unanswered EXCEPT ![t] = OwedTo(x.kind)]
    <3>1. unanswered' = [unanswered EXCEPT ![t] = unanswered[t] + 1]
      BY <1>t, <1>6 DEF QuestionToAssistant, Requested
    <3>2. unanswered[t] + 1 = OwedTo(x.kind)
      BY <2>4, <2>5, <2>6
    <3>3. unanswered' = [unanswered EXCEPT ![t] = OwedTo(x.kind)]
      BY <3>1, <3>2
    <3>4. states' = [states EXCEPT ![t] = StateFor(x.kind)]
      BY <1>t, <1>6, <2>4, <2>5 DEF QuestionToAssistant
    <3> QED
      BY <3>3, <3>4
  <2> QED
    BY <1>t, <1>6, <2>1, <2>3, <2>4, <2>7, Starting DEF QuestionToAssistant
<1>7. CASE InquiryAnswered
  <2>1. t \in Tools /\ Handles(t) /\ Event = Head(channel) /\ Event.kind = "inquiryAnswered"
    BY <1>t, <1>7, Handling DEF InquiryAnswered
  <2>2. Run(t) \in Tasks /\ Run(t).tool = t /\ Run(t).kind = "run"
    BY <2>1 DEF Run, Task, Tasks
  <2>3. StateFor("run") = "Running" /\ OwedTo("run") = 0 /\ OwedTo("inquiryAnswered") = 1
    BY DEF StateFor, OwedTo, Input, Edit, Inquiry
  <2>4. unanswered[t] = 1
    BY <2>1, <2>3, BookOfEvent
  <2>5. /\ states' = [states EXCEPT ![t] = StateFor(Run(t).kind)]
        /\ unanswered' = [unanswered EXCEPT ![t] = OwedTo(Run(t).kind)]
    <3>1. unanswered' = [unanswered EXCEPT ![t] = unanswered[t] - 1]
      BY <1>t, <1>7 DEF InquiryAnswered, Responded
    <3>2. unanswered[t] - 1 = OwedTo(Run(t).kind)
      BY <2>2, <2>3, <2>4
    <3>3. unanswered' = [unanswered EXCEPT ![t] = OwedTo(Run(t).kind)]
      BY <3>1, <3>2
    <3>4. states' = [states EXCEPT ![t] = StateFor(Run(t).kind)]
      BY <1>t, <1>7, <2>2, <2>3 DEF InquiryAnswered
    <3> QED
      BY <3>3, <3>4
  <2> QED
    BY <1>t, <1>7, <2>1, <2>2, <2>5, Starting DEF InquiryAnswered
<1>8. CASE PromptAnswer
  <2>1. /\ t \in Tools /\ Handles(t) /\ Event = Head(channel)
        /\ Event.kind \in {"answer", "answerForTurn"}
    BY <1>t, <1>8, Handling DEF PromptAnswer
  <2>2. PICK settled : settled = [states EXCEPT ![t] = "Running"]
    OBVIOUS
  <2>3. /\ settled \in [Tools -> ToolCallState] /\ settled[t] = "Running"
        /\ \A u \in Tools \ {t} : settled[u] = states[u] /\ results'[u] = results[u]
    BY <1>t, <1>8, <2>1, <2>2 DEF PromptAnswer, TypeOK, ToolCallState
  <2>4. \A x \in {Run(t)} : x.tool = t
    BY DEF Run, Task
  <2>5. ASSUME \A K : At(t, K)' <=> Tasked(t, K, {Run(t)}), states'[t] = settled[t]
        PROVE  Book(t)'
    <3>1. \A K : At(t, K)' <=> "run" \in K
      BY <2>5 DEF Tasked, Run, Task
    <3>2. StateFor("run") = "Running" /\ OwedTo("run") = 0 /\ OwedTo(Event.kind) = 0
      BY <2>1 DEF StateFor, OwedTo, Input, Edit, Inquiry
    <3>3. results'[t] = None /\ unanswered'[t] = 0
      BY <1>t, <1>8, <2>1, <3>2, BookOfEvent DEF PromptAnswer
    <3> QED
      BY <2>1, <2>3, <2>5, <3>1, <3>2, <3>3, BookedFor
  <2> QED
    BY <1>t, <1>8, <2>1, <2>2, <2>3, <2>4, <2>5, Handing DEF PromptAnswer
<1>9. CASE PromptCancelled \/ ResultModeProcessed
  <2>1. /\ t \in Tools /\ Handles(t) /\ Event = Head(channel)
        /\ Event.kind \in {"promptCancelled", "processed"}
    BY <1>t, <1>9, Handling DEF PromptCancelled, ResultModeProcessed
  <2>2. PICK response \in Response : /\ response # "inquiryFailed"
                                     /\ results' = [results EXCEPT ![t] = response]
    <3>1. CASE PromptCancelled
      BY <1>t, <3>1 DEF PromptCancelled, Response
    <3>2. CASE ResultModeProcessed
      <4>1. Event \in Events /\ Event.kind = "processed"
        BY <3>2, TakesTyped DEF ResultModeProcessed
      <4>2. Event.what \in Outputs \cup {"withheld"}
        BY <4>1 DEF Events, Interrupt, Task, QuestionEvents
      <4>3. Event.what \in Response /\ Event.what # "inquiryFailed"
        BY <4>2 DEF Outputs, Response
      <4> QED
        BY <1>t, <3>2, <4>3 DEF ResultModeProcessed
    <3> QED
      BY <1>t, <1>9, <3>1, <3>2
  <2>3. PICK settled : settled = [states EXCEPT ![t] = "Completed"]
    OBVIOUS
  <2>4. /\ settled \in [Tools -> ToolCallState] /\ settled[t] = "Completed"
        /\ \A u \in Tools \ {t} : settled[u] = states[u] /\ results'[u] = results[u]
        /\ results'[t] = response
    BY <2>1, <2>2, <2>3 DEF TypeOK, ToolCallState
  <2>5. NextPrompt({}, settled) /\ UNCHANGED unanswered
    BY <1>t, <1>9, <2>3 DEF PromptCancelled, ResultModeProcessed, ledger
  <2>6. ASSUME \A K : At(t, K)' <=> Tasked(t, K, {}), states'[t] = settled[t]
        PROVE  Book(t)'
    <3>1. \A K : ~At(t, K)'
      BY <2>6 DEF Tasked
    <3>2. OwedTo(Event.kind) = 0
      BY <2>1 DEF OwedTo, Inquiry
    <3>3. unanswered'[t] = 0
      BY <2>1, <2>5, <3>2, BookOfEvent
    <3> QED
      BY <2>1, <2>2, <2>4, <2>6, <3>1, <3>3, Closed
  <2> QED
    BY <2>1, <2>4, <2>5, <2>6, Handing
<1>10. CASE InterruptDeclined \/ MenuChoice
  <2>1. TakesInterrupt
    BY <1>10
    DEF InterruptDeclined, MenuChoice, MenuContinue, MenuRestart, MenuCancel, MenuEscalate,
        MenuShown
  <2>2. /\ channel' = Tail(channel) /\ channel # <<>> /\ Head(channel).tool \notin Tools
        /\ UNCHANGED <<tasks, states, results, unanswered>>
    <3>1. Event \in Events /\ Event.kind = "interrupt"
      BY <2>1, TakesTyped DEF TakesInterrupt
    <3>2. Event = Interrupt
      BY <3>1 DEF Events, Interrupt, Task, QuestionEvents
    <3>3. Event.tool \notin Tools
      BY <3>2, ConstantsAssumption DEF Interrupt, Task
    <3> QED
      BY <2>1, <3>3 DEF TakesInterrupt, Takes, Event, ledger
  <2>3. ASSUME NEW u \in Tools, NEW K PROVE At(u, K)' <=> At(u, K)
    <3>1. Told(u, K, channel) <=> Told(u, K, channel')
      BY <2>2, ToldTail DEF TypeOK
    <3>2. At(u, K)' <=> Tasked(u, K, tasks') \/ Told(u, K, channel')
      BY DEF At, Tasked, Told
    <3> QED
      BY <2>2, <3>1, <3>2 DEF At
  <2>4. ASSUME NEW u \in Tools PROVE Book(u)'
    BY <2>2, <2>3, Untouched DEF BooksInv
  <2> QED
    BY <2>4 DEF BooksInv
<1> QED
  BY <1>1, <1>2, <1>3, <1>4, <1>5, <1>6, <1>7, <1>8, <1>9, <1>10 DEF EventLoop

-----------------------------------------------------------------------------
(* The tasks, the presses and the theorem.                                 *)

LEMMA ReportKeepsBooks ==
  ASSUME TypeOK, BooksInv, NEW task \in Tasks, NEW event \in Events, Reports(task, event),
         event.tool = task.tool, task.kind \in Input <=> event.kind \in Input,
         task.kind \in Edit <=> event.kind \in Edit,
         task.kind \in Inquiry <=> event.kind \in Inquiry
  PROVE  BooksInv'
<1>1. ASSUME NEW u \in Tools, NEW K, task.kind \in K <=> event.kind \in K
      PROVE  At(u, K)' <=> At(u, K)
  <2>1. Told(u, K, channel') <=> Told(u, K, channel) \/ (event.tool = u /\ event.kind \in K)
    BY ToldAppend DEF Reports, TypeOK
  <2>2. Tasked(u, K, tasks) <=> Tasked(u, K, tasks') \/ (task.tool = u /\ task.kind \in K)
    BY DEF Reports, Tasked
  <2>3. At(u, K)' <=> Tasked(u, K, tasks') \/ Told(u, K, channel')
    BY DEF At, Tasked, Told
  <2> QED
    BY <1>1, <2>1, <2>2, <2>3 DEF At
<1>2. ASSUME NEW u \in Tools PROVE Book(u)'
  <2>1. Book(u) /\ UNCHANGED <<states, results, unanswered>>
    BY DEF BooksInv, Reports, ledger
  <2> QED
    BY <1>1, <2>1, Untouched
<1> QED
  BY <1>2 DEF BooksInv

LEMMA TasksKeepBooks ==
  ASSUME TypeOK, BooksInv, NEW t \in Tools, ToolTask(t) \/ AnswerTask(t)
  PROVE  BooksInv'
<1>1. CASE ToolReturns(t)
  <2>1. PICK result \in Outputs : Reports(Run(t), Task("result", t, result))
    BY <1>1 DEF ToolReturns
  <2>2. Task("result", t, result) \in Events /\ Run(t) \in Tasks
    BY DEF Task, Events, Tasks, Run
  <2> QED
    BY <2>1, <2>2, ReportKeepsBooks DEF Task, Run, Input, Edit, Inquiry
<1>2. CASE ToolAsks(t)
  <2>1. PICK q \in Questions : Reports(Run(t), Task("needsInput", t, q))
    BY <1>2 DEF ToolAsks
  <2>2. Task("needsInput", t, q) \in Events /\ Run(t) \in Tasks
    BY DEF Task, Events, QuestionEvents, Tasks, Run
  <2> QED
    BY <2>1, <2>2, ReportKeepsBooks DEF Task, Run, Input, Edit, Inquiry
<1>3. CASE UserAnswers(t)
  <2>1. PICK q \in Questions, kind \in {"answer", "answerForTurn", "promptCancelled"} :
          Reports(Task("question", t, q), Task(kind, t, q))
    BY <1>3 DEF UserAnswers
  <2>2. Task(kind, t, q) \in Events /\ Task("question", t, q) \in Tasks
    BY DEF Task, Events, QuestionEvents, Tasks, Prompts
  <2> QED
    BY <2>1, <2>2, ReportKeepsBooks DEF Task, Input, Edit, Inquiry
<1>4. CASE UserConfirms(t)
  <2>1. PICK result \in Outputs, final \in Outputs \cup {"withheld"} :
          Reports(Task("delivery", t, result), Task("processed", t, final))
    BY <1>4 DEF UserConfirms
  <2>2. Task("processed", t, final) \in Events /\ Task("delivery", t, result) \in Tasks
    BY DEF Task, Events, Tasks, Prompts
  <2> QED
    BY <2>1, <2>2, ReportKeepsBooks DEF Task, Input, Edit, Inquiry
<1>5. CASE AssistantAnswers(t)
  <2>1. PICK q \in Questions, kind \in {"inquiryAnswered", "inquiryFailed"} :
          Reports(Task("inquiry", t, q), Task(kind, t, q))
    BY <1>5 DEF AssistantAnswers
  <2>2. Task(kind, t, q) \in Events /\ Task("inquiry", t, q) \in Tasks
    BY DEF Task, Events, QuestionEvents, Tasks
  <2> QED
    BY <2>1, <2>2, ReportKeepsBooks DEF Task, Input, Edit, Inquiry
<1> QED
  BY <1>1, <1>2, <1>3, <1>4, <1>5 DEF ToolTask, AnswerTask

\* A panic takes a task that says nothing in the books, a press adds an
\* event of no call.
LEMMA OthersKeepBooks ==
  ASSUME TypeOK, BooksInv,
         \/ \E t \in Tools : ToolPanics(t)
         \/ Press \/ Forward \/ ForwardSends \/ UNCHANGED vars
  PROVE  BooksInv'
<1>1. UNCHANGED <<states, results, unanswered>>
  BY DEF ToolPanics, Press, Forward, ForwardSends, vars, ledger
<1>2. ASSUME NEW u \in Tools, NEW K, "run" \notin K PROVE At(u, K)' <=> At(u, K)
  <2>1. Tasked(u, K, tasks') <=> Tasked(u, K, tasks)
    <3>1. ASSUME NEW t \in Tools, ToolPanics(t)
          PROVE  tasks' = tasks \ {Run(t)} /\ Run(t).kind = "run"
      BY <3>1 DEF ToolPanics, Run, Task
    <3>2. CASE \E t \in Tools : ToolPanics(t)
      BY <1>2, <3>1, <3>2 DEF Tasked
    <3>3. CASE Press \/ Forward \/ ForwardSends \/ UNCHANGED vars
      BY <3>3 DEF Press, Forward, ForwardSends, vars
    <3> QED
      BY <3>2, <3>3
  <2>2. Told(u, K, channel') <=> Told(u, K, channel)
    <3>1. CASE ForwardSends
      <4>1. Interrupt \in Events /\ Interrupt.tool # u /\ channel \in Seq(Events)
        BY ConstantsAssumption DEF Events, Interrupt, Task, TypeOK
      <4>2. channel' = Append(channel, Interrupt)
        BY <3>1 DEF ForwardSends
      <4> QED
        BY <4>1, <4>2, ToldAppend
    <3>2. CASE ~ForwardSends
      BY <3>2 DEF ToolPanics, Press, Forward, vars
    <3> QED
      BY <3>1, <3>2
  <2>3. At(u, K)' <=> Tasked(u, K, tasks') \/ Told(u, K, channel')
    BY DEF At, Tasked, Told
  <2> QED
    BY <2>1, <2>2, <2>3 DEF At
<1>3. ASSUME NEW u \in Tools PROVE Book(u)'
  <2>1. "run" \notin Input /\ "run" \notin Edit /\ "run" \notin Inquiry
    BY DEF Input, Edit, Inquiry
  <2>2. Book(u)
    BY DEF BooksInv
  <2> QED
    BY <1>1, <1>2, <2>1, <2>2, Untouched
<1> QED
  BY <1>3 DEF BooksInv

LEMMA BooksInit == Init => BooksInv
<1> SUFFICES ASSUME Init, NEW u \in Tools PROVE Book(u)
  BY DEF BooksInv
<1>1. ASSUME NEW K, "run" \notin K PROVE ~At(u, K)
  BY <1>1 DEF Init, At, Tasked, Told, Run, Task
<1>2. "run" \notin Input /\ "run" \notin Edit /\ "run" \notin Inquiry
  BY DEF Input, Edit, Inquiry
<1>3. None # "inquiryFailed"
  BY ConstantsAssumption
<1> QED
  BY <1>1, <1>2, <1>3 DEF Init, Book

LEMMA BooksStep == TypeOK /\ ErrandsInv /\ BooksInv /\ [Next]_vars => BooksInv'
BY HandlersKeepBooks, TasksKeepBooks, OthersKeepBooks DEF Next

LEMMA BooksAreKept == TypeOK /\ BooksInv => BooksAgree
<1> SUFFICES ASSUME TypeOK, BooksInv, NEW t \in Tools
             PROVE  MarkIsCurrent(t) /\ InquiryIsAnswered(t)
  BY DEF BooksAgree
<1>1. \A x \in tasks : x.kind \in {"run", "inquiry", "question", "delivery"}
  BY DEF TypeOK, Tasks, Prompts
<1>2. \A i \in DOMAIN channel :
        channel[i].kind \in {"result", "processed", "interrupt"} \cup QuestionEvents
  <2>1. \A i \in DOMAIN channel : channel[i] \in Events
    BY LenProperties, ElementOfSeq DEF TypeOK
  <2> QED
    BY <2>1 DEF Events, Interrupt, Task
<1>3. AtWork(t, {"question", "inquiry"}, QuestionEvents \ {"needsInput"}) <=> At(t, Input)
  BY <1>1, <1>2 DEF AtWork, InChannel, At, Tasked, Told, Input, QuestionEvents
<1>4. AtWork(t, {"delivery"}, {"processed"}) <=> At(t, Edit)
  BY <1>1, <1>2 DEF AtWork, InChannel, At, Tasked, Told, Edit, QuestionEvents
<1>5. AtWork(t, {"inquiry"}, {"inquiryAnswered", "inquiryFailed"}) <=> At(t, Inquiry)
  BY <1>1, <1>2 DEF AtWork, InChannel, At, Tasked, Told, Inquiry, QuestionEvents
<1> QED
  BY <1>3, <1>4, <1>5 DEF BooksInv, Book, MarkIsCurrent, InquiryIsAnswered

\* The state noted for each call, by which the loop decides whether a press
\* opens the menu, says what is under way for it, and each inquiry in the
\* conversation has its response, but the one under way and the one that
\* failed, whatever the order in which results, answers, inquiries and
\* prompts are handled.
THEOREM BooksAlwaysAgree == Spec => []BooksAgree
BY ErrandsAlways, BooksInit, BooksStep, BooksAreKept, PTL DEF Spec
=============================================================================
