------------------------------ MODULE TurnLoop ------------------------------
(***************************************************************************)
(* One conversation turn of `jp query`: run_turn_loop and the turn         *)
(* coordinator (crates/jp_cli/src/cmd/query/turn_loop.rs and               *)
(* turn/coordinator.rs), with the event builder, the retry budget, the     *)
(* pending-tool scratchpad and the persistence scopes of the lock.         *)
(*                                                                         *)
(* The loop sends the conversation to the provider, collects its events,   *)
(* runs the tool calls it asks for and sends the results back, until the   *)
(* assistant is done.  The environment is the provider (content, calls,    *)
(* patches, failures), the user (Ctrl-C at any instant, menu choices,      *)
(* permissions), the disk (a write may fail) and the router, which gives a *)
(* press to the innermost handler scope or cancels the shutdown token.     *)
(*                                                                         *)
(* One step is the code between two points where a press can be observed.  *)
(***************************************************************************)
EXTENDS Naturals, Sequences, FiniteSets, SequencesExt, Selection

CONSTANTS
  MaxChunks,    \* bound: content parts the provider streams
  MaxCalls,     \* bound: tool calls the provider asks for
  MaxPresses,   \* bound: presses of Ctrl-C
  MaxFaults,    \* bound: failed writes
  MaxRetries,   \* request.max_retries
  MaxRebuilds,  \* MAX_CONSECUTIVE_REBUILDS
  MaxMetadata,  \* bound: metadata entries a patch can remove
  ReuseIds      \* the provider numbers its calls from 1 in every response

\* A past turn has made a call, so there is an id for one.
ASSUME TurnConstants ==
  /\ MaxChunks \in Nat /\ MaxCalls \in Nat \ {0} /\ MaxPresses \in Nat
  /\ MaxFaults \in Nat /\ MaxRetries \in Nat /\ MaxRebuilds \in Nat
  /\ MaxMetadata \in Nat /\ ReuseIds \in BOOLEAN

VARIABLES
  pc,         \* where run_turn_loop is
  phase,      \* TurnPhase
  stream,     \* the conversation's events in memory
  disk,       \* the events on disk
  dirty,      \* the live ConversationMut has unsaved changes
  trim,       \* PendingStreamTrim: the last turn is to be replaced
  text,       \* the event builder's content buffer
  openCall,   \* the event builder's tool-call buffer, or NoCall
  pending,    \* PendingTools
  plan,       \* the execution plan of the executing phase
  restart,    \* restart_requested
  retry,      \* StreamRetryState
  got,        \* received_provider_event
  turnRx,     \* the turn-level handler's channel holds a notification
  innerRx,    \* the streaming or tool handler's channel holds one
  backoffRx,  \* the backoff handler's channel holds one
  shutdown,   \* the shutdown token is cancelled
  ending,     \* how the turn ended, or "no"
  env,        \* what the provider and the user have done so far
  faults,     \* number of writes that failed
  hist        \* history, for the properties only

vars == <<pc, phase, stream, disk, dirty, trim, text, openCall, pending, plan,
          restart, retry, got, turnRx, innerRx, backoffRx, shutdown, ending, env,
          faults, hist>>

rxVars == <<turnRx, innerRx, backoffRx>>
builderVars == <<text, openCall>>
toolVars == <<pending, plan, restart>>
diskVars == <<disk, faults>>

Calls == 1 .. MaxCalls
NoCall == 0
Chunks == 0 .. MaxChunks

Phases == {"Idle", "Streaming", "Executing", "Complete", "Aborted"}
Places == {"top", "dispatch", "connect", "poll", "decide", "backoff", "leave",
           "tools", "done"}
Endings == {"no", "complete", "aborted", "connect error", "stream error",
            "rebuild refused", "escalated", "write error", "dropped", "killed"}

Kinds == {"request", "reply", "text", "call", "result"}
Authors == {"user", "provider", "executor", "resolved", "orphan", "interrupted"}

\* A "request" opens a turn (TurnStart and ChatRequest), a "reply" is a
\* ChatRequest inside one, "text" a committed ChatResponse.
Event == [kind : Kinds, id : Calls \cup {NoCall}, chunks : Seq(Chunks), by : Authors]

Request == [kind |-> "request", id |-> NoCall, chunks |-> <<>>, by |-> "user"]
Reply == [kind |-> "reply", id |-> NoCall, chunks |-> <<>>, by |-> "user"]
Text(chunks) == [kind |-> "text", id |-> NoCall, chunks |-> chunks, by |-> "provider"]
Call(id) == [kind |-> "call", id |-> id, chunks |-> <<>>, by |-> "provider"]
Result(id, by) == [kind |-> "result", id |-> id, chunks |-> <<>>, by |-> by]

-----------------------------------------------------------------------------
(* The conversation stream.                                                *)

Indices(s, kind) == {i \in DOMAIN s : s[i].kind = kind}

Answered(s) == {s[i].id : i \in Indices(s, "result")}
Called(s) == {s[i].id : i \in Indices(s, "call")}

TurnStart(s) ==
  IF Indices(s, "request") = {} THEN 1
  ELSE CHOOSE i \in Indices(s, "request") : \A j \in Indices(s, "request") : j <= i

\* The calls of the last turn whose id has no result in any turn.
Unresponded(s) ==
  Pick(s, {i \in Indices(s, "call") : i >= TurnStart(s) /\ s[i].id \notin Answered(s)})

\* remove_orphaned_tool_call_responses.  Mutation of sanitize, on its own: the
\* calls without a result stay as they are.
OrphanResultsRemoved(s) ==
  Pick(s, {i \in DOMAIN s : s[i].kind = "result" => s[i].id \in Called(s)})

Repaired(e, answered) ==
  IF e.kind = "call" /\ e.id \notin answered THEN <<e, Result(e.id, "interrupted")>> ELSE <<e>>

\* sanitize: results without a call go, calls without a result get a
\* synthetic one right behind them.
Sanitized(s) ==
  LET paired == OrphanResultsRemoved(s)
  IN FlattenSeq([i \in DOMAIN paired |-> Repaired(paired[i], Answered(s))])

\* trim_chat_request: everything from the last user message on.
Trimmed(s) ==
  LET said == Indices(s, "request") \cup Indices(s, "reply")
  IN IF said = {} THEN <<>>
     ELSE SubSeq(s, 1, (CHOOSE i \in said : \A j \in said : j <= i) - 1)

\* pop_while(is_chat_response).
WithoutTrailingText(s) ==
  LET kept == {i \in DOMAIN s : s[i].kind # "text"}
  IN IF kept = {} THEN <<>>
     ELSE SubSeq(s, 1, CHOOSE i \in kept : \A j \in kept : j <= i)

\* peek_partial_events: a tool call that is still open is left out.
Partial == IF text = <<>> THEN <<>> ELSE <<Text(text)>>

-----------------------------------------------------------------------------
(* Initial states.                                                         *)

\* The conversation is new, has a request that was cut off and is replayed, or
\* has a complete turn, which may be replayed.
PastTurn == <<Request, Call(1), Result(1, "executor"), Text(<<0>>)>>

Init ==
  /\ pc = "top" /\ phase = "Idle"
  /\ stream \in {<<>>, <<Request>>, PastTurn}
  /\ trim \in {stream = <<Request>>, stream # <<>>}
  /\ disk = stream /\ dirty = FALSE
  /\ text = <<>> /\ openCall = NoCall
  /\ pending = [id \in Calls |-> "none"] /\ plan = <<>> /\ restart = FALSE
  /\ retry = [failures |-> 0, changed |-> FALSE, rebuilds |-> 0]
  /\ got = FALSE
  /\ turnRx = FALSE /\ innerRx = FALSE /\ backoffRx = FALSE
  /\ shutdown = FALSE
  /\ ending = "no"
  /\ env = [chunks |-> 0, calls |-> IF stream = PastTurn /\ ~ReuseIds THEN 1 ELSE 0,
            inResponse |-> 0, presses |-> 0, metadata |-> MaxMetadata]
  /\ faults = 0
  /\ hist = [fruitless |-> 0, discarded |-> {}]

-----------------------------------------------------------------------------
(* Persistence scopes.                                                     *)

\* A ConversationMut is dropped: unsaved changes are written, and a write
\* that fails is only logged.
DropScope(s, unsaved) ==
  \/ ~unsaved /\ UNCHANGED diskVars
  \/ unsaved /\ disk' = s /\ UNCHANGED faults
  \/ unsaved /\ faults < MaxFaults /\ faults' = faults + 1 /\ UNCHANGED disk

\* flush() succeeds.
Flushed(s) == disk' = s /\ UNCHANGED faults

\* flush() fails and the error leaves the loop, which drops the scope.
FlushFails(s) ==
  /\ faults < MaxFaults
  /\ \/ disk' = s /\ faults' = faults + 1
     \/ faults + 1 < MaxFaults /\ faults' = faults + 2 /\ UNCHANGED disk

\* flush() with its error logged, then the scope dropped.
FlushAndDrop(s, unsaved) ==
  IF unsaved THEN Flushed(s) \/ FlushFails(s) ELSE UNCHANGED diskVars

End(how) ==
  /\ pc' = "done"
  /\ ending' = how
  /\ turnRx' = FALSE /\ innerRx' = FALSE /\ backoffRx' = FALSE

-----------------------------------------------------------------------------
(* The top of the loop.                                                    *)

\* A notification of the turn-level handler completes the turn.
CompleteEarly ==
  /\ pc = "top"
  /\ turnRx
  /\ turnRx' = FALSE
  /\ stream' = stream \o Partial
  /\ DropScope(stream', TRUE)
  /\ phase' = "Complete"
  /\ pc' = "dispatch"
  /\ UNCHANGED <<dirty, trim, builderVars, toolVars, retry, got, innerRx, backoffRx,
                 shutdown, ending, env, hist>>

NoInterrupt ==
  /\ pc = "top"
  /\ ~turnRx
  /\ pc' = "dispatch"
  /\ UNCHANGED <<phase, stream, diskVars, dirty, trim, builderVars, toolVars, retry,
                 got, rxVars, shutdown, ending, env, hist>>

\* Mutation: the trim is applied, the request that replaces the turn is not.
TrimmedOnly(s) == IF trim THEN Trimmed(s) ELSE Append(s, Request)

WithRequest(s) == Append(IF trim THEN Trimmed(s) ELSE s, Request)

\* The deferred trim and the new request are one update.
StartTurn ==
  /\ pc = "dispatch"
  /\ phase = "Idle"
  /\ stream' = WithRequest(stream)
  /\ trim' = FALSE
  /\ DropScope(stream', TRUE)
  /\ phase' = "Streaming"
  /\ pc' = "top"
  /\ UNCHANGED <<dirty, builderVars, toolVars, retry, got, rxVars, shutdown, ending,
                 env, hist>>

FinishTurn ==
  /\ pc = "dispatch"
  /\ phase = "Complete"
  /\ End("complete")
  /\ UNCHANGED <<phase, stream, diskVars, dirty, trim, builderVars, toolVars, retry,
                 got, shutdown, env, hist>>

\* The stream is repaired, the request built and the streaming handler
\* registered.
OpenRequest ==
  /\ pc = "dispatch"
  /\ phase = "Streaming"
  /\ stream' = Sanitized(stream)
  /\ DropScope(stream', TRUE)
  /\ innerRx' = FALSE
  /\ pc' = "connect"
  /\ UNCHANGED <<phase, dirty, trim, builderVars, toolVars, retry, got, turnRx,
                 backoffRx, shutdown, ending, env, hist>>

\* What the two budgets allow in a row; the history counts one further.
FruitlessLimit == MaxRetries + MaxRebuilds + 1

\* The provider call returns a stream of events.
Connected ==
  /\ pc = "connect"
  /\ pc' = "poll"
  /\ got' = FALSE
  /\ env' = [env EXCEPT !.inResponse = 0]
  /\ hist' = [hist EXCEPT !.fruitless = IF @ > FruitlessLimit THEN @ ELSE @ + 1]
  /\ UNCHANGED <<phase, stream, diskVars, dirty, trim, builderVars, toolVars, retry,
                 rxVars, shutdown, ending>>

\* The provider call fails: `?` leaves the loop.
ConnectFails ==
  /\ pc = "connect"
  /\ End("connect error")
  /\ UNCHANGED <<phase, stream, diskVars, dirty, trim, builderVars, toolVars, retry,
                 got, shutdown, env, hist>>

-----------------------------------------------------------------------------
(* Provider events.                                                        *)

\* Mutation: what has just been committed stays in the builder.
BuilderKept == UNCHANGED builderVars

\* drain(), clear() or a new EventBuilder.
BuilderReset == text' = <<>> /\ openCall' = NoCall

NoFailures == [failures |-> 0, changed |-> FALSE, rebuilds |-> 0]

\* The first event of the response that is content or a real finish resets
\* the retry state.
Advances ==
  /\ got' = TRUE
  /\ retry' = IF got THEN retry ELSE NoFailures
  /\ hist' = [hist EXCEPT !.fruitless = 0]

ContentPart ==
  /\ pc = "poll"
  /\ env.chunks < MaxChunks
  /\ env' = [env EXCEPT !.chunks = @ + 1]
  /\ text' = Append(text, env.chunks + 1)
  /\ dirty' = TRUE
  /\ Advances
  /\ UNCHANGED <<pc, phase, stream, diskVars, trim, openCall, toolVars, rxVars,
                 shutdown, ending>>

\* The id of the next call: unique, or its position in this response.
NextCallId == IF ReuseIds THEN env.inResponse + 1 ELSE env.calls + 1

CallPart ==
  /\ pc = "poll"
  /\ openCall = NoCall
  /\ env.calls < MaxCalls
  /\ openCall' = NextCallId
  /\ env' = [env EXCEPT !.calls = @ + 1, !.inResponse = @ + 1]
  /\ dirty' = TRUE
  /\ Advances
  /\ UNCHANGED <<pc, phase, stream, diskVars, trim, text, toolVars, rxVars, shutdown,
                 ending>>

FlushText ==
  /\ pc = "poll"
  /\ text # <<>>
  /\ stream' = stream \o Partial
  /\ text' = <<>>
  /\ dirty' = TRUE
  /\ UNCHANGED <<pc, phase, diskVars, trim, openCall, toolVars, retry, got, rxVars,
                 shutdown, ending, env, hist>>

\* A finished tool call is committed and its permission decided.
FlushCall ==
  /\ pc = "poll"
  /\ openCall # NoCall
  /\ stream' = Append(stream, Call(openCall))
  /\ openCall' = NoCall
  /\ dirty' = TRUE
  /\ pc' = "decide"
  /\ UNCHANGED <<phase, diskVars, trim, text, toolVars, retry, got, rxVars, shutdown,
                 ending, env, hist>>

\* Approved with an executor, or resolved without one (skipped, unavailable).
Decide ==
  /\ pc = "decide"
  /\ \E work \in {"approved", "resolved"} :
       pending' = [pending EXCEPT ![Last(stream).id] = work]
  /\ pc' = "poll"
  /\ UNCHANGED <<phase, stream, diskVars, dirty, trim, builderVars, plan, restart,
                 retry, got, rxVars, shutdown, ending, env, hist>>

\* Keep-alives and patches that match nothing.
Quiet ==
  /\ pc = "poll"
  /\ dirty' = TRUE
  /\ UNCHANGED <<pc, phase, stream, diskVars, trim, builderVars, toolVars, retry, got,
                 rxVars, shutdown, ending, env, hist>>

\* A patch removes metadata from the stream.
Patch ==
  /\ pc = "poll"
  /\ env.metadata > 0
  /\ env' = [env EXCEPT !.metadata = @ - 1]
  /\ retry' = [retry EXCEPT !.changed = TRUE]
  /\ dirty' = TRUE
  /\ UNCHANGED <<pc, phase, stream, diskVars, trim, builderVars, toolVars, got, rxVars,
                 shutdown, ending, hist>>

\* Mutation: only the last event is looked at.
PhaseAfterLast(s) == IF Last(s).kind = "call" THEN "Executing" ELSE "Complete"

\* transition_from_streaming.
PhaseAfter(s) == IF Unresponded(s) = <<>> THEN "Complete" ELSE "Executing"

Finished ==
  /\ pc = "poll"
  /\ stream' = stream \o Partial
  /\ BuilderReset
  /\ phase' = PhaseAfter(stream')
  /\ dirty' = TRUE
  /\ pc' = "leave"
  /\ Advances
  /\ UNCHANGED <<diskVars, trim, toolVars, rxVars, shutdown, ending, env>>

ChunksOf(s) == UNION {ToSet(s[i].chunks) : i \in DOMAIN s}

\* A refusal discards the partial output and the trailing responses.
FinishedRefused ==
  /\ pc = "poll"
  /\ stream' = WithoutTrailingText(stream)
  /\ BuilderReset
  /\ phase' = PhaseAfter(stream')
  /\ dirty' = TRUE
  /\ pc' = "leave"
  /\ got' = TRUE
  /\ retry' = IF got THEN retry ELSE NoFailures
  /\ hist' = [hist EXCEPT !.fruitless = 0,
                !.discarded = @ \cup ToSet(text) \cup (ChunksOf(stream) \ ChunksOf(stream'))]
  /\ UNCHANGED <<diskVars, trim, toolVars, rxVars, shutdown, ending, env>>

\* Mutation: rebuilds are not counted.
RebuildsUncapped == retry.changed

\* authorize_rebuild.
MayRebuild == retry.changed /\ retry.rebuilds < MaxRebuilds

\* Finished(Retry): the request is rebuilt.  The builder keeps its buffers.
Rebuild ==
  /\ pc = "poll"
  /\ MayRebuild
  /\ retry' = [retry EXCEPT !.changed = FALSE, !.rebuilds = @ + 1]
  /\ dirty' = TRUE
  /\ pc' = "leave"
  /\ UNCHANGED <<phase, stream, diskVars, trim, builderVars, toolVars, got, rxVars,
                 shutdown, ending, env, hist>>

RebuildRefused ==
  /\ pc = "poll"
  /\ ~MayRebuild
  /\ stream' = stream \o Partial
  /\ FlushAndDrop(stream', TRUE)
  /\ End("rebuild refused")
  /\ UNCHANGED <<phase, dirty, trim, builderVars, toolVars, retry, got, shutdown, env,
                 hist>>

\* Mutations: one retry too many; the builder reset without its content being
\* committed.
OneRetryMore == retry.failures <= MaxRetries
NothingCommitted == <<>>

CanRetry == retry.failures < MaxRetries
Attempt == retry.failures + 1

\* commit_partial_response.
CommittedPartial == Partial

\* handle_stream_error within the budget: commit, reset the builder, wait.
StreamErrorRetried ==
  /\ pc = "poll"
  /\ CanRetry
  /\ retry' = [retry EXCEPT !.failures = Attempt]
  /\ stream' = stream \o CommittedPartial
  /\ dirty' = (dirty \/ text # <<>>)
  /\ BuilderReset
  /\ phase' = "Streaming"
  /\ backoffRx' = FALSE
  /\ pc' = "backoff"
  /\ UNCHANGED <<diskVars, trim, toolVars, got, turnRx, innerRx, shutdown, ending, env,
                 hist>>

\* Not retryable, or out of budget.
StreamErrorFatal ==
  /\ pc = "poll"
  /\ stream' = stream \o CommittedPartial
  /\ FlushAndDrop(stream', dirty \/ text # <<>>)
  /\ End("stream error")
  /\ UNCHANGED <<phase, dirty, trim, builderVars, toolVars, retry, got, shutdown, env,
                 hist>>

\* Mutation: only a signal ends the wait, the timer's branch being lost.
BackoffNeedsSignal ==
  /\ pc = "backoff"
  /\ backoffRx
  /\ pc' = "leave"
  /\ UNCHANGED <<phase, stream, diskVars, dirty, trim, builderVars, toolVars, retry, got,
                 rxVars, shutdown, ending, env, hist>>

BackoffElapsed ==
  /\ pc = "backoff"
  /\ ~backoffRx
  /\ pc' = "leave"
  /\ UNCHANGED <<phase, stream, diskVars, dirty, trim, builderVars, toolVars, retry, got,
                 rxVars, shutdown, ending, env, hist>>

-----------------------------------------------------------------------------
(* The streaming interrupt menu.                                           *)

\* The menu opens on a live stream, or on a dead one after the backoff.
MenuOpen == (pc = "poll" /\ innerRx) \/ (pc = "backoff" /\ backoffRx)

MenuTaken == IF pc = "poll" THEN innerRx' = FALSE /\ UNCHANGED <<turnRx, backoffRx>>
                            ELSE backoffRx' = FALSE /\ UNCHANGED <<turnRx, innerRx>>

\* Resume keeps the live stream; with a dead one Continue commits what is
\* there (the builder was reset) and asks again.
KeepGoing ==
  /\ MenuOpen
  /\ MenuTaken
  /\ stream' = IF pc = "poll" THEN stream ELSE stream \o Partial
  /\ dirty' = TRUE
  /\ pc' = IF pc = "poll" THEN "poll" ELSE "leave"
  /\ hist' = [hist EXCEPT !.fruitless = 0]
  /\ UNCHANGED <<phase, diskVars, trim, builderVars, toolVars, retry, got, shutdown,
                 ending, env>>

Stop ==
  /\ MenuOpen
  /\ MenuTaken
  /\ stream' = stream \o Partial
  /\ dirty' = TRUE
  /\ phase' = "Complete"
  /\ pc' = "leave"
  /\ UNCHANGED <<diskVars, trim, builderVars, toolVars, retry, got, shutdown, ending,
                 env, hist>>

\* The loop returns, and the scope it drops is dirty.
Abort ==
  /\ MenuOpen
  /\ phase' = "Aborted"
  /\ DropScope(stream, TRUE)
  /\ End("aborted")
  /\ UNCHANGED <<stream, dirty, trim, builderVars, toolVars, retry, got, shutdown, env,
                 hist>>

ReplyNow ==
  /\ MenuOpen
  /\ MenuTaken
  /\ stream' = Append(stream \o Partial, Reply)
  /\ BuilderReset
  /\ dirty' = TRUE
  /\ phase' = "Streaming"
  /\ pc' = "leave"
  /\ hist' = [hist EXCEPT !.fruitless = 0]
  /\ UNCHANGED <<diskVars, trim, toolVars, retry, got, shutdown, ending, env>>

\* The menu itself was cancelled.
Escalate ==
  /\ MenuOpen
  /\ stream' = stream \o Partial
  /\ phase' = "Complete"
  /\ shutdown' = TRUE
  /\ DropScope(stream', TRUE)
  /\ End("escalated")
  /\ UNCHANGED <<dirty, trim, builderVars, toolVars, retry, got, env, hist>>

Menu == KeepGoing \/ Stop \/ Abort \/ ReplyNow \/ Escalate

\* Mutation: a failed flush is logged and the loop goes on.
WriteErrorIgnored ==
  /\ faults < MaxFaults
  /\ faults' = faults + 1
  /\ pc' = "top"
  /\ innerRx' = FALSE
  /\ dirty' = FALSE
  /\ UNCHANGED <<disk, turnRx, backoffRx, ending>>

CycleLost == FlushFails(stream) /\ End("write error") /\ UNCHANGED dirty

CycleSaved ==
  /\ IF dirty THEN Flushed(stream) ELSE UNCHANGED diskVars
  /\ pc' = "top"
  /\ innerRx' = FALSE
  /\ dirty' = FALSE
  /\ UNCHANGED <<turnRx, backoffRx, ending>>

\* The streaming handler is deregistered and the cycle saved.
LeaveStreaming ==
  /\ pc = "leave"
  /\ CycleSaved \/ (dirty /\ CycleLost)
  /\ UNCHANGED <<phase, stream, trim, builderVars, toolVars, retry, got, shutdown, env,
                 hist>>

-----------------------------------------------------------------------------
(* The executing phase.                                                    *)

\* build_execution_plan: each call of the turn without a response, in order,
\* takes its entry; one whose entry is gone is an orphan.
PlanFor(s, entries) ==
  LET calls == Unresponded(s)
      first(i) == \A j \in 1 .. i - 1 : calls[j].id # calls[i].id
      work(i) == IF first(i) THEN entries[calls[i].id] ELSE "none"
  IN [i \in DOMAIN calls |->
        [id |-> calls[i].id, work |-> IF work(i) = "none" THEN "orphan" ELSE work(i)]]

Taken(s, entries) ==
  [id \in Calls |-> IF \E i \in DOMAIN Unresponded(s) : Unresponded(s)[i].id = id
                      THEN "none" ELSE entries[id]]

\* After a restart the calls are prepared and decided again.
Prepared ==
  IF restart
    THEN {entries \in [Calls -> {"none", "approved", "resolved"}] :
            \A id \in Calls :
              IF \E i \in DOMAIN Unresponded(stream) : Unresponded(stream)[i].id = id
                THEN entries[id] # "none"
                ELSE entries[id] = pending[id]}
    ELSE {pending}

\* The loop is left when there is nothing to run; the phase is Executing only
\* while there is (TLC would find the deadlock here).
StartTools ==
  /\ pc = "dispatch"
  /\ phase = "Executing"
  /\ Unresponded(stream) # <<>>
  /\ \E entries \in Prepared :
       /\ plan' = PlanFor(stream, entries)
       /\ pending' = Taken(stream, entries)
  /\ restart' = FALSE
  /\ innerRx' = FALSE
  /\ dirty' = FALSE
  /\ pc' = "tools"
  /\ UNCHANGED <<phase, stream, diskVars, trim, builderVars, retry, got, turnRx,
                 backoffRx, shutdown, ending, env, hist>>

\* Without an approved call the coordinator returns at once: no handler is
\* registered and nothing is awaited.
Executing == pc = "tools" /\ \E i \in DOMAIN plan : plan[i].work = "approved"

Responses ==
  [i \in DOMAIN plan |->
     Result(plan[i].id, IF plan[i].work = "approved" THEN "executor" ELSE plan[i].work)]

\* commit_tool_responses, then where the loop goes when the flush succeeds.
CommitResponses(goOn) ==
  /\ stream' = stream \o Responses
  /\ phase' = "Streaming"
  /\ plan' = <<>>
  /\ \/ Flushed(stream') /\ goOn
     \/ FlushFails(stream') /\ End("write error")
  /\ UNCHANGED <<dirty, trim, builderVars, pending, restart, retry, got, env, hist>>

ToolsCompleted ==
  /\ pc = "tools"
  /\ CommitResponses(pc' = "top" /\ innerRx' = FALSE /\ UNCHANGED <<turnRx, backoffRx, ending>>)
  /\ UNCHANGED shutdown

ToolsStopped ==
  /\ pc = "tools"
  /\ innerRx
  /\ CommitResponses(End("complete"))
  /\ UNCHANGED shutdown

ToolsEscalated ==
  /\ pc = "tools"
  /\ innerRx
  /\ shutdown' = TRUE
  /\ CommitResponses(End("escalated"))

\* The batch is cancelled and prepared again on the next iteration.
ToolsRestarted ==
  /\ pc = "tools"
  /\ innerRx
  /\ restart' = TRUE
  /\ plan' = <<>>
  /\ innerRx' = FALSE
  /\ pc' = "top"
  /\ UNCHANGED <<phase, stream, diskVars, dirty, trim, builderVars, pending, retry, got,
                 turnRx, backoffRx, shutdown, ending, env, hist>>

\* The tool handler resumes, or declines to the turn-level handler.
ToolInterruptPassed ==
  /\ pc = "tools"
  /\ innerRx
  /\ innerRx' = FALSE
  /\ turnRx' \in {turnRx, TRUE}
  /\ UNCHANGED <<pc, phase, stream, diskVars, dirty, trim, builderVars, toolVars, retry,
                 got, backoffRx, shutdown, ending, env, hist>>

-----------------------------------------------------------------------------
(* The user's signals and the end of the process.                          *)

\* A first press goes to the innermost handler scope.
Press ==
  /\ pc # "done"
  /\ ~shutdown
  /\ env.presses < MaxPresses
  /\ env' = [env EXCEPT !.presses = @ + 1]
  /\ CASE pc \in {"connect", "poll", "decide", "leave"} \/ Executing ->
            innerRx' = TRUE /\ UNCHANGED <<turnRx, backoffRx>>
       [] pc = "backoff" -> backoffRx' = TRUE /\ UNCHANGED <<turnRx, innerRx>>
       [] OTHER -> turnRx' = TRUE /\ UNCHANGED <<innerRx, backoffRx>>
  /\ UNCHANGED <<pc, phase, stream, diskVars, dirty, trim, builderVars, toolVars, retry,
                 got, shutdown, ending, hist>>

\* A second press within the cooldown, or SIGTERM.
RequestShutdown ==
  /\ pc # "done"
  /\ ~shutdown
  /\ env.presses < MaxPresses
  /\ env' = [env EXCEPT !.presses = @ + 1]
  /\ shutdown' = TRUE
  /\ UNCHANGED <<pc, phase, stream, diskVars, dirty, trim, builderVars, toolVars, retry,
                 got, rxVars, ending, hist>>

\* A press once shutdown has begun exits the process: no scope is dropped.
Killed ==
  /\ pc # "done"
  /\ shutdown
  /\ env.presses < MaxPresses
  /\ env' = [env EXCEPT !.presses = @ + 1]
  /\ End("killed")
  /\ UNCHANGED <<phase, stream, diskVars, dirty, trim, builderVars, toolVars, retry,
                 got, shutdown, hist>>

AtAwait ==
  \/ pc \in {"connect", "poll", "decide", "backoff"}
  \/ Executing
  \/ pc = "dispatch" /\ phase = "Executing" /\ restart

\* The command's future is dropped where it waits.
FutureDropped ==
  /\ AtAwait
  /\ shutdown
  /\ DropScope(stream, dirty)
  /\ End("dropped")
  /\ UNCHANGED <<phase, stream, dirty, trim, builderVars, toolVars, retry, got, shutdown,
                 env, hist>>

Done == pc = "done" /\ UNCHANGED vars

LoopHead == CompleteEarly \/ NoInterrupt \/ StartTurn \/ FinishTurn \/ OpenRequest
              \/ Connected \/ ConnectFails
ProviderEvent == ContentPart \/ CallPart \/ FlushText \/ FlushCall \/ Quiet \/ Patch
                   \/ Finished \/ FinishedRefused \/ Rebuild \/ RebuildRefused
                   \/ StreamErrorRetried \/ StreamErrorFatal
Tools == StartTools \/ ToolsCompleted \/ ToolsStopped \/ ToolsEscalated
           \/ ToolsRestarted \/ ToolInterruptPassed
Turn == LoopHead \/ ProviderEvent \/ Decide \/ BackoffElapsed \/ Menu \/ LeaveStreaming
          \/ Tools \/ FutureDropped
User == Press \/ RequestShutdown \/ Killed

Next == Turn \/ User \/ Done

\* The loop runs on while the provider goes on with a response it has begun
\* and the user answers what is asked.
Fairness == WF_vars(Turn)

Spec == Init /\ [][Next]_vars /\ Fairness

-----------------------------------------------------------------------------
(* Properties.                                                             *)

TypeOK ==
  /\ pc \in Places
  /\ phase \in Phases
  /\ stream \in Seq(Event)
  /\ disk \in Seq(Event)
  /\ dirty \in BOOLEAN
  /\ trim \in BOOLEAN
  /\ text \in Seq(Chunks)
  /\ openCall \in Calls \cup {NoCall}
  /\ pending \in [Calls -> {"none", "approved", "resolved"}]
  /\ plan \in Seq([id : Calls, work : {"approved", "resolved", "orphan"}])
  /\ restart \in BOOLEAN
  /\ retry \in [failures : 0 .. MaxRetries, changed : BOOLEAN, rebuilds : 0 .. MaxRebuilds]
  /\ got \in BOOLEAN
  /\ turnRx \in BOOLEAN
  /\ innerRx \in BOOLEAN
  /\ backoffRx \in BOOLEAN
  /\ shutdown \in BOOLEAN
  /\ ending \in Endings
  /\ faults \in 0 .. MaxFaults

\* Every request the provider gets pairs each tool call with exactly one
\* result behind it, and each result with a call.
RequestIsWellFormed ==
  pc = "connect" =>
    /\ \A i \in Indices(stream, "call") :
         Cardinality({j \in Indices(stream, "result") : stream[j].id = stream[i].id /\ j > i}) = 1
    /\ \A j \in Indices(stream, "result") :
         \E i \in Indices(stream, "call") : i < j /\ stream[i].id = stream[j].id

Unrepaired(s) == Pick(s, {i \in DOMAIN s : s[i].by # "interrupted"})

\* The turn holds more than the request that opens it.
UnderWay(s) == \E i \in DOMAIN s : i > TurnStart(s) /\ s[i].by # "interrupted"

\* Once a cycle of the turn has committed anything, the next request only
\* leaves when the whole conversation is on disk: the loop does not go on over
\* a failed write.  Until then the opening request may be in memory alone.
FollowUpIsDurable ==
  pc = "connect" /\ UnderWay(stream) => Unrepaired(disk) = Unrepaired(stream)

\* The endings that commit nothing first, so that text which is only in the
\* event builder goes with it: the provider call fails (`?`), which matters
\* after a rebuild, as that keeps the builder's buffers; a menu is aborted; a
\* write fails; the command is dropped where it waits; the process is killed.
BuilderLost == {"connect error", "aborted", "write error", "dropped", "killed"}

InBuilder == IF pc = "done" /\ ending \notin BuilderLost THEN {} ELSE ToSet(text)

\* Content the user has seen is in the conversation, still in the builder, or
\* refused by the provider; when the turn has ended it is in the conversation,
\* but for what the builder held at one of the five endings above, and that
\* conversation is on disk, unless the process was killed or a write failed.
\* Writes that fail on the way, and are only logged where a scope is dropped,
\* are made up for by the end of a turn that completes without an interrupt.
ContentSurvives ==
  /\ 1 .. env.chunks \subseteq ChunksOf(stream) \cup hist.discarded \cup InBuilder
  /\ pc = "done" /\ ending # "killed" => disk = stream \/ faults > 0
  /\ pc = "done" /\ ending = "complete" /\ env.presses = 0 => disk = stream

\* Each part that was streamed is committed once, however often the stream
\* failed or was rebuilt; a press at the end of a cycle that a press has
\* stopped may commit what is in the builder again.
ContentIsNotRepeated ==
  env.presses <= 1 => IsInjective(FlattenSeq([i \in DOMAIN stream |-> stream[i].chunks]))

\* The provider is asked only so many times in a row without an answer, by
\* failed streams and rebuilds together.
FruitlessRequestsBounded == hist.fruitless <= FruitlessLimit

\* A replay swaps the old turn for the new one in a single write: no write
\* takes the last request from a conversation, so whenever the process dies
\* either the old turn or its replacement is there.
ReplayIsAtomic ==
  [][Indices(disk, "request") # {} => Indices(disk', "request") # {}]_vars

\* Without interrupts a completed turn has answered each of its calls.
EveryCallAnswered ==
  pc = "done" /\ ending = "complete" /\ env.presses = 0 =>
    LET turn == SubSeq(stream, TurnStart(stream), Len(stream))
    IN \A id \in Calls :
         Cardinality({i \in Indices(turn, "call") : turn[i].id = id})
           = Cardinality({i \in Indices(turn, "result") : turn[i].id = id})

\* The turn ends: retries and rebuilds run out.
TurnEnds == <>(pc = "done")

\* The loop implements the dialogue of ToolDialogue: calls are opened while
\* the provider answers, and all settled before it is asked again.
Open == {id \in Calls : id \in Called(stream) \ Answered(stream)}

D == INSTANCE ToolDialogue WITH
       open <- Open,
       state <- IF pc = "done" THEN "over"
                ELSE IF pc \in {"poll", "decide"} THEN "listening" ELSE "composing"

ImplementsDialogue == D!Spec
=============================================================================
