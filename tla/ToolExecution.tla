---------------------------- MODULE ToolExecution ----------------------------
(***************************************************************************)
(* The execution of one batch of approved tool calls:                      *)
(* ToolCoordinator::execute_with_prompting and its handlers                *)
(* (crates/jp_cli/src/cmd/query/tool/coordinator.rs), with the tool        *)
(* interrupt of crates/jp_cli/src/cmd/query/interrupt/.                    *)
(*                                                                         *)
(* Tools run concurrently, each in a task of its own.  Every task reports  *)
(* by one event on a bounded channel, and one event loop handles the       *)
(* events: it records a result, asks the user (one prompt at a time, the   *)
(* others wait in a queue), asks another assistant, or starts the tool     *)
(* again with the answer.  A press of Ctrl-C reaches the loop through the  *)
(* handler's one-slot channel and a forwarding task.                       *)
(*                                                                         *)
(* Left out: the progress timer and the rendering of results; what answers *)
(* and results say; a user who edits a result (the edit is the result).    *)
(* A question is put to the user only on a terminal, and so is a result    *)
(* delivered with confirmation: "user" and "ask" stand for both            *)
(* conditions.                                                             *)
(***************************************************************************)
EXTENDS Integers, Sequences, FiniteSets

CONSTANTS
  Tools,        \* the calls of the batch
  Names,        \* the tools they call
  Questions,    \* what tools may ask
  Replies,      \* what the user may write instead of a result
  None,         \* no result yet, no reply
  ChannelSize,  \* capacity of the event channel (32 in the code)
  MaxAsks,      \* bound: questions one call asks
  MaxPresses,   \* bound: presses of Ctrl-C
  MaxPanics     \* bound: tool tasks that panic

ASSUME ConstantsAssumption ==
  /\ ChannelSize \in Nat \ {0}
  /\ MaxAsks \in Nat /\ MaxPresses \in Nat /\ MaxPanics \in Nat
  /\ Tools # {} /\ IsFiniteSet(Tools)
  /\ None \notin Tools \cup Questions \cup Replies
  /\ None \notin {"output", "cancelled", "skipped", "withheld", "inputCancelled",
                  "inquiryFailed", "configured"}

VARIABLES
  nameOf,         \* the tool each call is for
  delivery,       \* result mode of each tool
  route,          \* who answers the questions of each tool
  stalePermission,\* another call of the turn is marked as awaiting permission
  tasks,          \* spawned tasks that have not reported
  asks,           \* questions each call asked
  channel,        \* events on their way to the loop
  promptActive,   \* prompt_active
  queue,          \* pending_prompts
  states,         \* tool_states
  results,        \* results
  remembered,     \* <<name, question>> answered for the rest of the turn (some before
                  \* the batch, some by the configuration)
  unanswered,     \* inquiry requests of a call without a response in the stream
  cancelled,      \* the cancellation token
  outcome,        \* ExecutionOutcome, by severity
  cancelledTools, \* cancelled_indices
  message,        \* cancellation_message
  presses,        \* presses so far
  notified,       \* the handler's slot holds a notification
  forwarding,     \* the forwarding task holds one
  passedDown,     \* interrupts declined to the next handler
  dead            \* calls whose task panicked

config == <<nameOf, delivery, route, stalePermission>>
verdict == <<cancelled, outcome, cancelledTools, message>>
pressVars == <<presses, notified, forwarding, passedDown>>
ledger == <<remembered, unanswered>>

vars == <<config, tasks, asks, channel, promptActive, queue, states, results,
          ledger, verdict, pressVars, dead>>

Completed == 0
Restart == 1
Stopped == 2
Escalated == 3

Deliveries == {"unattended", "skip", "ask"}
Outputs == {"output", "cancelled"}
Response ==
  Outputs \cup {"skipped", "withheld", "inputCancelled", "inquiryFailed", "configured"}
    \cup Replies

Task(kind, tool, what) == [kind |-> kind, tool |-> tool, what |-> what]
Run(tool) == Task("run", tool, None)
Interrupt == Task("interrupt", None, None)

\* What runs for a call, and PendingPrompt.
Prompts ==
  [kind : {"question"}, tool : Tools, what : Questions]
    \cup [kind : {"delivery"}, tool : Tools, what : Outputs]
Tasks ==
  [kind : {"run"}, tool : Tools, what : {None}]
    \cup [kind : {"inquiry"}, tool : Tools, what : Questions]
    \cup Prompts

\* ExecutionEvent.
QuestionEvents ==
  {"needsInput", "answer", "answerForTurn", "promptCancelled",
   "inquiryAnswered", "inquiryFailed"}
Events ==
  [kind : {"result"}, tool : Tools, what : Outputs]
    \cup [kind : QuestionEvents, tool : Tools, what : Questions]
    \cup [kind : {"processed"}, tool : Tools, what : Outputs \cup {"withheld"}]
    \cup {Interrupt}

ToolCallState == {"Running", "AwaitingInput", "AwaitingResultEdit", "Completed"}
Awaiting(prompt) ==
  IF prompt.kind = "question" THEN "AwaitingInput" ELSE "AwaitingResultEdit"

Init ==
  /\ nameOf \in [Tools -> Names]
  /\ delivery \in [Names -> Deliveries]
  /\ route \in [Names -> {"user", "assistant"}]
  /\ stalePermission \in BOOLEAN
  /\ tasks = {Run(t) : t \in Tools}
  /\ asks = [t \in Tools |-> 0]
  /\ channel = <<>>
  /\ promptActive = FALSE
  /\ queue = <<>>
  /\ states = [t \in Tools |-> "Running"]
  /\ results = [t \in Tools |-> None]
  /\ remembered \in SUBSET (Names \X Questions)
  /\ unanswered = [t \in Tools |-> 0]
  /\ cancelled = FALSE
  /\ outcome = Completed
  /\ cancelledTools = {}
  /\ message = None
  /\ presses = 0 /\ notified = FALSE /\ forwarding = FALSE /\ passedDown = 0
  /\ dead = {}

Over == \A t \in Tools : results[t] # None

-----------------------------------------------------------------------------
(* The tasks.  A task that cannot send its event waits for room.           *)

\* Mutation: the channel takes whatever comes.
Unbounded == TRUE

HasRoom == Len(channel) < ChannelSize

Reports(task, event) ==
  /\ ~Over
  /\ task \in tasks
  /\ HasRoom
  /\ tasks' = tasks \ {task}
  /\ channel' = Append(channel, event)
  /\ UNCHANGED <<config, promptActive, queue, states, results, ledger, verdict, pressVars, dead>>

\* A tool may finish, or take no notice of the token; only a cancelled one
\* says that it was.
ToolReturns(t) ==
  /\ \E result \in IF cancelled THEN Outputs ELSE Outputs \ {"cancelled"} :
       Reports(Run(t), Task("result", t, result))
  /\ UNCHANGED asks

ToolAsks(t) ==
  /\ asks[t] < MaxAsks
  /\ asks' = [asks EXCEPT ![t] = @ + 1]
  /\ \E q \in Questions : Reports(Run(t), Task("needsInput", t, q))

\* The task unwinds: its sender is dropped and nothing is reported.
ToolPanics(t) ==
  /\ ~Over
  /\ Run(t) \in tasks
  /\ Cardinality(dead) < MaxPanics
  /\ tasks' = tasks \ {Run(t)}
  /\ dead' = dead \cup {t}
  /\ UNCHANGED <<config, asks, channel, promptActive, queue, states, results, ledger,
                 verdict, pressVars>>

\* The user answers, for this call or for the turn, or cancels the prompt.
UserAnswers(t) ==
  /\ \E q \in Questions, kind \in {"answer", "answerForTurn", "promptCancelled"} :
       Reports(Task("question", t, q), Task(kind, t, q))
  /\ UNCHANGED asks

\* The user lets the result through, or does not.
UserConfirms(t) ==
  /\ \E result \in Outputs : \E final \in {result, "withheld"} :
       Reports(Task("delivery", t, result), Task("processed", t, final))
  /\ UNCHANGED asks

AssistantAnswers(t) ==
  /\ \E q \in Questions, kind \in {"inquiryAnswered", "inquiryFailed"} :
       Reports(Task("inquiry", t, q), Task(kind, t, q))
  /\ UNCHANGED asks

-----------------------------------------------------------------------------
(* Ctrl-C: the router fills the slot, the forwarding task empties it.      *)

Press ==
  /\ ~Over
  /\ presses < MaxPresses
  /\ presses' = presses + 1
  /\ notified' = TRUE
  /\ UNCHANGED <<config, tasks, asks, channel, promptActive, queue, states, results,
                 ledger, verdict, forwarding, passedDown, dead>>

Forward ==
  /\ ~Over
  /\ notified /\ ~forwarding
  /\ notified' = FALSE /\ forwarding' = TRUE
  /\ UNCHANGED <<config, tasks, asks, channel, promptActive, queue, states, results,
                 ledger, verdict, presses, passedDown, dead>>

ForwardSends ==
  /\ ~Over
  /\ forwarding
  /\ HasRoom
  /\ channel' = Append(channel, Interrupt)
  /\ forwarding' = FALSE
  /\ UNCHANGED <<config, tasks, asks, promptActive, queue, states, results, ledger,
                 verdict, presses, notified, passedDown, dead>>


-----------------------------------------------------------------------------
(* The event loop: one event at a time, until every call has a result.     *)

Takes(kinds) ==
  /\ ~Over
  /\ channel # <<>>
  /\ Head(channel).kind \in kinds
  /\ channel' = Tail(channel)

Event == Head(channel)

Resolve(t, response) ==
  /\ results' = [results EXCEPT ![t] = response]
  /\ states' = [states EXCEPT ![t] = "Completed"]

\* Mutation: with a prompt on the terminal, another one is forgotten.
PromptOrNothing(prompt) ==
  IF promptActive
    THEN UNCHANGED <<queue, tasks, promptActive, states>>
    ELSE /\ promptActive' = TRUE
         /\ tasks' = tasks \cup {prompt}
         /\ states' = [states EXCEPT ![prompt.tool] = Awaiting(prompt)]
         /\ UNCHANGED queue

\* Mutation: a prompt is put on the terminal whatever is on it.
PromptAtOnce(prompt) ==
  /\ promptActive' = TRUE
  /\ tasks' = tasks \cup {prompt}
  /\ states' = [states EXCEPT ![prompt.tool] = Awaiting(prompt)]
  /\ UNCHANGED queue

PromptOrQueue(prompt) ==
  IF promptActive
    THEN /\ queue' = Append(queue, prompt)
         /\ UNCHANGED <<tasks, promptActive, states>>
    ELSE /\ promptActive' = TRUE
         /\ tasks' = tasks \cup {prompt}
         /\ states' = [states EXCEPT ![prompt.tool] = Awaiting(prompt)]
         /\ UNCHANGED queue

\* Mutation: the prompt that ends frees the terminal and calls nobody.
TerminalFreed(started, settled) ==
  /\ promptActive' = FALSE
  /\ tasks' = tasks \cup started
  /\ states' = settled
  /\ UNCHANGED queue

\* prompt_active = false, what the answer spawns, then process_next_prompt.
NextPrompt(started, settled) ==
  IF queue = <<>>
    THEN /\ promptActive' = FALSE
         /\ tasks' = tasks \cup started
         /\ states' = settled
         /\ UNCHANGED queue
    ELSE /\ promptActive' = TRUE
         /\ tasks' = tasks \cup started \cup {Head(queue)}
         /\ states' = [settled EXCEPT ![Head(queue).tool] = Awaiting(Head(queue))]
         /\ queue' = Tail(queue)

\* handle_tool_result, Completed: delivered as it is, replaced, or confirmed.
ResultDelivered ==
  /\ Takes({"result"})
  /\ delivery[nameOf[Event.tool]] # "ask"
  /\ Resolve(Event.tool,
             IF delivery[nameOf[Event.tool]] = "skip" THEN "skipped" ELSE Event.what)
  /\ UNCHANGED <<config, tasks, asks, promptActive, queue, ledger, verdict, pressVars, dead>>

ResultConfirmed ==
  /\ Takes({"result"})
  /\ delivery[nameOf[Event.tool]] = "ask"
  /\ PromptOrQueue(Task("delivery", Event.tool, Event.what))
  /\ UNCHANGED <<config, asks, results, ledger, verdict, pressVars, dead>>

Known == <<nameOf[Event.tool], Event.what>> \in remembered

\* handle_tool_result, NeedsInput: an answer given for the turn is used at
\* once, without a word to the user.
QuestionRemembered ==
  /\ Takes({"needsInput"})
  /\ Known
  /\ tasks' = tasks \cup {Run(Event.tool)}
  /\ UNCHANGED <<config, asks, promptActive, queue, states, results, ledger, verdict,
                 pressVars, dead>>

QuestionToUser ==
  /\ Takes({"needsInput"})
  /\ ~Known
  /\ route[nameOf[Event.tool]] = "user"
  /\ PromptOrQueue(Task("question", Event.tool, Event.what))
  /\ UNCHANGED <<config, asks, results, ledger, verdict, pressVars, dead>>

\* Mutation: the stream is not told.
NotRecorded(t) == unanswered' = unanswered

\* conv.update_events: the inquiry request, and later its response.
Requested(t) == unanswered' = [unanswered EXCEPT ![t] = @ + 1]
Responded(t) == unanswered' = [unanswered EXCEPT ![t] = @ - 1]

\* The request is recorded in the stream before the inquiry starts.
QuestionToAssistant ==
  /\ Takes({"needsInput"})
  /\ ~Known
  /\ route[nameOf[Event.tool]] = "assistant"
  /\ Requested(Event.tool)
  /\ tasks' = tasks \cup {Task("inquiry", Event.tool, Event.what)}
  /\ states' = [states EXCEPT ![Event.tool] = "AwaitingInput"]
  /\ UNCHANGED <<config, asks, promptActive, queue, results, remembered, verdict,
                 pressVars, dead>>

\* handle_prompt_answer.
PromptAnswer ==
  /\ Takes({"answer", "answerForTurn"})
  /\ remembered' = IF Event.kind = "answerForTurn"
                     THEN remembered \cup {<<nameOf[Event.tool], Event.what>>}
                     ELSE remembered
  /\ NextPrompt({Run(Event.tool)}, [states EXCEPT ![Event.tool] = "Running"])
  /\ UNCHANGED <<config, asks, results, unanswered, verdict, pressVars, dead>>

\* handle_prompt_cancelled.
PromptCancelled ==
  /\ Takes({"promptCancelled"})
  /\ results' = [results EXCEPT ![Event.tool] = "inputCancelled"]
  /\ NextPrompt({}, [states EXCEPT ![Event.tool] = "Completed"])
  /\ UNCHANGED <<config, asks, ledger, verdict, pressVars, dead>>

ResultModeProcessed ==
  /\ Takes({"processed"})
  /\ results' = [results EXCEPT ![Event.tool] = Event.what]
  /\ NextPrompt({}, [states EXCEPT ![Event.tool] = "Completed"])
  /\ UNCHANGED <<config, asks, ledger, verdict, pressVars, dead>>

InquiryAnswered ==
  /\ Takes({"inquiryAnswered"})
  /\ Responded(Event.tool)
  /\ tasks' = tasks \cup {Run(Event.tool)}
  /\ states' = [states EXCEPT ![Event.tool] = "Running"]
  /\ UNCHANGED <<config, asks, promptActive, queue, results, remembered, verdict,
                 pressVars, dead>>

\* The request stays in the stream without a response.
InquiryFailed ==
  /\ Takes({"inquiryFailed"})
  /\ Resolve(Event.tool, "inquiryFailed")
  /\ UNCHANGED <<config, tasks, asks, promptActive, queue, ledger, verdict, pressVars, dead>>

-----------------------------------------------------------------------------
(* An interrupt in the event loop.                                         *)

IsPrompting ==
  stalePermission \/ \E t \in Tools : states[t] \in {"AwaitingInput", "AwaitingResultEdit"}

TakesInterrupt ==
  /\ Takes({"interrupt"})
  /\ UNCHANGED <<config, tasks, asks, promptActive, queue, states, results, ledger,
                 presses, notified, forwarding, dead>>

InterruptDeclined ==
  /\ TakesInterrupt
  /\ promptActive \/ IsPrompting
  /\ passedDown' = passedDown + 1
  /\ UNCHANGED verdict

MenuShown ==
  /\ TakesInterrupt
  /\ ~promptActive /\ ~IsPrompting
  /\ UNCHANGED passedDown

\* Mutation: the last choice decides.
LastChoice(choice) == choice

\* ExecutionOutcome::upgrade.
Upgraded(choice) == IF choice > outcome THEN choice ELSE outcome

MenuContinue ==
  /\ MenuShown
  /\ UNCHANGED verdict

MenuRestart ==
  /\ MenuShown
  /\ cancelled' = TRUE
  /\ outcome' = Upgraded(Restart)
  /\ UNCHANGED <<cancelledTools, message>>

\* Mutation: the calls that have a result already are cancelled too.
EveryCall == Tools

Missing == {t \in Tools : results[t] = None}

\* "Stop & respond" with a reply or an empty one, "Stop (cancel & exit)".
MenuCancel(reply, exit) ==
  /\ MenuShown
  /\ cancelled' = TRUE
  /\ cancelledTools' = Missing
  /\ message' = reply
  /\ outcome' = IF exit THEN Upgraded(Stopped) ELSE outcome

MenuEscalate ==
  /\ MenuShown
  /\ cancelled' = TRUE
  /\ outcome' = Upgraded(Escalated)
  /\ UNCHANGED <<cancelledTools, message>>

MenuChoice ==
  \/ MenuContinue
  \/ MenuRestart
  \/ \E reply \in Replies \cup {None} : MenuCancel(reply, FALSE)
  \/ MenuCancel(None, TRUE)
  \/ MenuEscalate

\* Mutation: what a cancelled call had left to say is kept.
NothingOverwritten == results

\* What the turn gets once every call has a result.
ExecutionResult ==
  [t \in Tools |->
     IF t \in cancelledTools
       THEN IF message = None THEN "configured" ELSE message
       ELSE results[t]]

EventLoop ==
  \/ ResultDelivered \/ ResultConfirmed
  \/ QuestionRemembered \/ QuestionToUser \/ QuestionToAssistant
  \/ PromptAnswer \/ PromptCancelled \/ ResultModeProcessed
  \/ InquiryAnswered \/ InquiryFailed
  \/ InterruptDeclined \/ MenuChoice

ToolTask(t) == ToolReturns(t) \/ ToolAsks(t)
AnswerTask(t) == UserAnswers(t) \/ UserConfirms(t) \/ AssistantAnswers(t)

Next ==
  \/ EventLoop
  \/ \E t \in Tools : ToolTask(t) \/ ToolPanics(t) \/ AnswerTask(t)
  \/ Press \/ Forward \/ ForwardSends

\* The scheduler runs every task that can go on; a tool that does not panic
\* comes to an end, the user and the assistant answer.
Fairness ==
  /\ WF_vars(EventLoop)
  /\ \A t \in Tools : WF_vars(ToolTask(t)) /\ WF_vars(AnswerTask(t))
  /\ WF_vars(Forward) /\ WF_vars(ForwardSends)

Spec == Init /\ [][Next]_vars /\ Fairness

-----------------------------------------------------------------------------
(* Properties.                                                             *)

PromptTask == {task \in tasks : task.kind \in {"question", "delivery"}}
PromptEvents == {"answer", "answerForTurn", "promptCancelled", "processed"}
InChannel(kinds) == {i \in DOMAIN channel : channel[i].kind \in kinds}

\* What is under way for a call: its tasks, its events, its queued prompts.
ErrandCount(t) ==
  Cardinality({task \in tasks : task.tool = t})
    + Cardinality({i \in DOMAIN channel : channel[i].tool = t})
    + Cardinality({i \in DOMAIN queue : queue[i].tool = t})

\* The variables have the values the code gives them.
TypeOK ==
  /\ nameOf \in [Tools -> Names]
  /\ delivery \in [Names -> Deliveries]
  /\ route \in [Names -> {"user", "assistant"}]
  /\ stalePermission \in BOOLEAN
  /\ tasks \subseteq Tasks
  /\ asks \in [Tools -> 0 .. MaxAsks]
  /\ channel \in Seq(Events)
  /\ Len(channel) <= ChannelSize
  /\ promptActive \in BOOLEAN
  /\ queue \in Seq(Prompts)
  /\ states \in [Tools -> ToolCallState]
  /\ results \in [Tools -> Response \cup {None}]
  /\ remembered \subseteq Names \X Questions
  /\ unanswered \in [Tools -> Int]
  /\ cancelled \in BOOLEAN
  /\ outcome \in Completed .. Escalated
  /\ cancelledTools \subseteq Tools
  /\ message \in Replies \cup {None}
  /\ presses \in 0 .. MaxPresses
  /\ notified \in BOOLEAN /\ forwarding \in BOOLEAN
  /\ passedDown \in Nat
  /\ dead \subseteq Tools

\* A call without a result has exactly one thing under way that will lead to
\* one (a task, an event, a queued prompt), unless its task panicked; a call
\* with a result has none, so no result is ever overwritten by a late event.
\* This is what makes "every result is there" a condition the loop reaches
\* (execute_with_prompting: spawn_*, process_next_prompt).
OneErrandPerCall ==
  \A t \in Tools :
    ErrandCount(t) = IF results[t] = None /\ t \notin dead THEN 1 ELSE 0

\* The terminal belongs to one prompt: prompt_active says whether one is on
\* it or has just been answered, and prompts wait in the queue only then.
PromptsTakeTurns ==
  /\ Cardinality(PromptTask) + Cardinality(InChannel(PromptEvents))
       = IF promptActive THEN 1 ELSE 0
  /\ queue # <<>> => promptActive

AtWork(t, tasked, told) ==
  \/ \E task \in tasks : task.tool = t /\ task.kind \in tasked
  \/ \E i \in InChannel(told) : channel[i].tool = t

\* tool_states, which decides whether a press of Ctrl-C opens the menu.
MarkIsCurrent(t) ==
  /\ states[t] = "Completed" <=> results[t] # None
  /\ states[t] = "AwaitingInput" <=>
       AtWork(t, {"question", "inquiry"}, QuestionEvents \ {"needsInput"})
  /\ states[t] = "AwaitingResultEdit" <=> AtWork(t, {"delivery"}, {"processed"})

\* The inquiry requests in the stream, which has a response for each of them
\* but the one under way and the one that failed.
InquiryIsAnswered(t) ==
  unanswered[t] =
    IF \/ AtWork(t, {"inquiry"}, {"inquiryAnswered", "inquiryFailed"})
       \/ results[t] = "inquiryFailed"
      THEN 1 ELSE 0

\* What is noted about a call agrees with what is under way for it, whichever
\* handler noted it last: its state and the record of its inquiries in the
\* conversation (set_tool_state and update_events, in eight handlers).
BooksAgree == \A t \in Tools : MarkIsCurrent(t) /\ InquiryIsAnswered(t)

\* A reply the user wrote at the menu is in the results the turn gets, unless
\* a later choice of the user replaced it: it is never attached to nothing.
ReplyIsDelivered ==
  Over /\ message # None => \E t \in Tools : ExecutionResult[t] = message

\* A call that had its result when the user cancelled the batch keeps it: no
\* interrupt adds a finished call to the cancelled ones.
FinishedCallsStayFinished ==
  [][\A t \in Tools : results[t] # None /\ t \in cancelledTools' => t \in cancelledTools]_vars

\* The loop ends whatever is asked, queued, cancelled or declined, unless a
\* tool task panicked: a dead task is the one thing it waits for in vain.
BatchEnds == <>(Over \/ dead # {})

\* The batch keeps the promise of ToolBatch: one result per call, one report,
\* and a decision of the user is never replaced by a milder one
\* (ExecutionOutcome::upgrade).
Batch == INSTANCE ToolBatch WITH
  Gravest <- Escalated, open <- Missing, verdict <- outcome, reported <- Over
Refinement == Batch!Spec
=============================================================================
