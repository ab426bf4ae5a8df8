---------------------------- MODULE SignalRouter ----------------------------
(***************************************************************************)
(* The interrupt router of jp (crates/jp_cli/src/signals.rs) and the part  *)
(* of the process it steers.  Two tasks run concurrently:                  *)
(*                                                                         *)
(*   - the signal task takes OS signals one at a time and routes them: a   *)
(*     press of Ctrl-C climbs the escalation ladder (notify the innermost  *)
(*     interrupt handler, cancel the shutdown token, exit the process);    *)
(*   - the main task runs the command, which opens and closes interrupt    *)
(*     handler scopes, polls the receiver of the innermost one, shows a    *)
(*     menu when it fires, and is dropped at its next await point once the *)
(*     shutdown token is cancelled.                                        *)
(*                                                                         *)
(* Each step is what happens between two points where the other task can   *)
(* be observed: the signal task looks up the topmost handler under the     *)
(* stack lock and sends to it after the lock is released.                  *)
(***************************************************************************)
EXTENDS Naturals, Sequences, SequencesExt

CONSTANTS
  MaxHandlers,  \* bound: handler scopes opened in one behaviour
  MaxSignals    \* bound: signals the OS delivers in one behaviour

ASSUME BoundsAssumption == MaxHandlers \in Nat /\ MaxSignals \in Nat

VARIABLES
  stack,      \* ids of the registered handlers, outermost first
  nextId,     \* next_handler_id
  guards,     \* ids whose InterruptGuard is alive
  receivers,  \* ids whose notification receiver is alive
  pending,    \* ids whose one-slot channel holds a notification
  arrived,    \* signals delivered by the OS and not yet taken by the task
  delivered,  \* number of signals delivered so far
  presses,    \* EscalationState.presses
  warm,       \* the last press is within the cooldown
  shutdown,   \* the shutdown token is cancelled
  router,     \* where the signal task is in route_interrupt
  main,       \* what the main task does
  menu,       \* id of the handler whose interrupt is being handled, or 0
  exitCode    \* code given to process::exit by the signal task, or 0

vars == <<stack, nextId, guards, receivers, pending, arrived, delivered,
          presses, warm, shutdown, router, main, menu, exitCode>>

osVars == <<arrived, delivered>>
scopeVars == <<stack, nextId, guards, receivers>>
ladderVars == <<presses, warm>>

Handlers == 1 .. MaxHandlers
OsSignal == {"Interrupt", "Terminate", "Quit"}

\* "seen" is the id the next handler would have got when the topmost one was
\* looked up: every handler with a smaller id existed already.
RouterStates ==
  [at : {"idle", "lookup"}, target : {0}, seen : {0}]
    \cup [at : {"send"}, target : Handlers, seen : 1 .. MaxHandlers + 1]

MainStates == {"run", "menu", "unwind", "teardown", "done"}

Idle == [at |-> "idle", target |-> 0, seen |-> 0]
LookingUp == [at |-> "lookup", target |-> 0, seen |-> 0]

SIGINT_EXIT_CODE == 130
SIGQUIT_EXIT_CODE == 131

Init ==
  /\ stack = <<>> /\ nextId = 1
  /\ guards = {} /\ receivers = {} /\ pending = {}
  /\ arrived = {} /\ delivered = 0
  /\ presses = 0 /\ warm = FALSE
  /\ shutdown = FALSE
  /\ router = Idle
  /\ main = "run" /\ menu = 0
  /\ exitCode = 0

\* The process lives until the signal task exits it or main returns.
Alive == exitCode = 0 /\ main # "done"

-----------------------------------------------------------------------------
(* The environment: the OS and the clock.                                  *)

\* A signal that is already pending is coalesced with the new one.
Deliver(signal) ==
  /\ Alive
  /\ delivered < MaxSignals
  /\ delivered' = delivered + 1
  /\ arrived' = arrived \cup {signal}
  /\ UNCHANGED <<scopeVars, pending, ladderVars, shutdown, router, main, menu, exitCode>>

\* More than the cooldown passes since the last press.
CooldownPasses ==
  /\ Alive
  /\ warm
  /\ warm' = FALSE
  /\ UNCHANGED <<scopeVars, pending, osVars, presses, shutdown, router, main, menu, exitCode>>

-----------------------------------------------------------------------------
(* The signal task.                                                        *)

\* Mutation: the second press tries the handlers once more.
SecondPressNotifies(count) ==
  IF shutdown \/ count >= 3
    THEN exitCode' = SIGINT_EXIT_CODE /\ UNCHANGED <<shutdown, router>>
    ELSE router' = LookingUp /\ UNCHANGED <<exitCode, shutdown>>

\* Mutation: the second press exits, as if a shutdown had been requested.
SecondPressExits(count) ==
  IF shutdown \/ count >= 2
    THEN exitCode' = SIGINT_EXIT_CODE /\ UNCHANGED <<shutdown, router>>
    ELSE router' = LookingUp /\ UNCHANGED <<exitCode, shutdown>>

\* Mutation: only the press count is looked at.
ShutdownIgnored(count) ==
  IF count >= 3
    THEN exitCode' = SIGINT_EXIT_CODE /\ UNCHANGED <<shutdown, router>>
    ELSE IF count = 2
           THEN shutdown' = TRUE /\ UNCHANGED <<exitCode, router>>
           ELSE router' = LookingUp /\ UNCHANGED <<exitCode, shutdown>>

Bumped == IF warm THEN presses + 1 ELSE 1

\* What the press count decides before any handler is considered.
Climb(count) ==
  IF shutdown \/ count >= 3
    THEN exitCode' = SIGINT_EXIT_CODE /\ UNCHANGED <<shutdown, router>>
    ELSE IF count = 2
           THEN shutdown' = TRUE /\ UNCHANGED <<exitCode, router>>
           ELSE router' = LookingUp /\ UNCHANGED <<exitCode, shutdown>>

RouteInterrupt ==
  /\ Alive
  /\ router = Idle
  /\ "Interrupt" \in arrived
  /\ arrived' = arrived \ {"Interrupt"}
  /\ presses' = Bumped
  /\ warm' = TRUE
  /\ Climb(Bumped)
  /\ UNCHANGED <<scopeVars, pending, delivered, main, menu>>

\* Mutation: the handler registered first gets the press.
OutermostHandler == Head(stack)

TopmostHandler == Last(stack)

\* topmost(): clones the sender of the last handler on the stack; with no
\* handler the press requests a graceful shutdown.
Topmost ==
  /\ Alive
  /\ router.at = "lookup"
  /\ IF stack = <<>>
       THEN shutdown' = TRUE /\ router' = Idle
       ELSE /\ router' = [at |-> "send", target |-> TopmostHandler, seen |-> nextId]
            /\ UNCHANGED shutdown
  /\ UNCHANGED <<scopeVars, pending, osVars, ladderVars, main, menu, exitCode>>

\* Mutation: a closed channel is not told from an open one.
NotifyBlindly(id) == pending' = pending \cup {id} /\ UNCHANGED shutdown

\* try_send: a full channel already tells the handler, a closed one means its
\* event loop is gone and falls back to a graceful shutdown.
Notify(id) ==
  IF id \in receivers
    THEN pending' = pending \cup {id} /\ UNCHANGED shutdown
    ELSE shutdown' = TRUE /\ UNCHANGED pending

NotifyTopmost ==
  /\ Alive
  /\ router.at = "send"
  /\ Notify(router.target)
  /\ router' = Idle
  /\ UNCHANGED <<scopeVars, osVars, ladderVars, main, menu, exitCode>>

RouteTerminate ==
  /\ Alive
  /\ router = Idle
  /\ "Terminate" \in arrived
  /\ arrived' = arrived \ {"Terminate"}
  /\ shutdown' = TRUE
  /\ UNCHANGED <<scopeVars, pending, delivered, ladderVars, router, main, menu, exitCode>>

RouteQuit ==
  /\ Alive
  /\ router = Idle
  /\ "Quit" \in arrived
  /\ arrived' = arrived \ {"Quit"}
  /\ exitCode' = SIGQUIT_EXIT_CODE
  /\ UNCHANGED <<scopeVars, pending, delivered, ladderVars, shutdown, router, main, menu>>

SignalTask ==
  RouteInterrupt \/ Topmost \/ NotifyTopmost \/ RouteTerminate \/ RouteQuit

-----------------------------------------------------------------------------
(* The main task: the command and its handler scopes.                      *)

PushHandler ==
  /\ Alive
  /\ main = "run"
  /\ nextId <= MaxHandlers
  /\ stack' = Append(stack, nextId)
  /\ guards' = guards \cup {nextId}
  /\ receivers' = receivers \cup {nextId}
  /\ nextId' = nextId + 1
  /\ UNCHANGED <<pending, osVars, ladderVars, shutdown, router, main, menu, exitCode>>

\* Mutation: a guard takes the topmost entry, as in a strict stack.
WithoutLast(s, id) == IF s = <<>> THEN s ELSE Front(s)

\* The entry with that id taken out of the stack, wherever it is.
Without(s, id) ==
  IF \E i \in DOMAIN s : s[i] = id
    THEN RemoveAt(s, CHOOSE i \in DOMAIN s : s[i] = id)
    ELSE s

\* remove(id): the guard of any scope, in any order.
DropGuard(id) ==
  /\ Alive
  /\ main \in {"run", "unwind"}
  /\ id \in guards
  /\ guards' = guards \ {id}
  /\ stack' = Without(stack, id)
  /\ UNCHANGED <<nextId, receivers, pending, osVars, ladderVars, shutdown, router,
                 main, menu, exitCode>>

\* Dropping a receiver closes its channel and discards what it holds.
DropReceiver(id) ==
  /\ Alive
  /\ main \in {"run", "unwind"}
  /\ id \in receivers
  /\ receivers' = receivers \ {id}
  /\ pending' = pending \ {id}
  /\ UNCHANGED <<stack, nextId, guards, osVars, ladderVars, shutdown, router,
                 main, menu, exitCode>>

\* The event loop of the innermost scope is the one that runs.
Innermost(id) == id \in receivers /\ \A other \in receivers : other <= id

\* The event loop takes the notification and runs its interrupt logic.
Receive(id) ==
  /\ Alive
  /\ main = "run"
  /\ Innermost(id)
  /\ id \in pending
  /\ pending' = pending \ {id}
  /\ main' = "menu"
  /\ menu' = id
  /\ UNCHANGED <<scopeVars, osVars, ladderVars, shutdown, router, exitCode>>

\* The user answers the menu and the loop goes on.
Handled ==
  /\ Alive
  /\ main = "menu"
  /\ main' = "run"
  /\ menu' = 0
  /\ UNCHANGED <<scopeVars, pending, osVars, ladderVars, shutdown, router, exitCode>>

\* The menu could not be shown: the handler cancels the token itself.
Escalate ==
  /\ Alive
  /\ main = "menu"
  /\ main' = "run"
  /\ menu' = 0
  /\ shutdown' = TRUE
  /\ UNCHANGED <<scopeVars, pending, osVars, ladderVars, router, exitCode>>

\* Mutation: the declining handler is asked again.
SameHandler == Last(stack)

NextBelow == stack[Len(stack) - 1]

\* notify_next_or_shutdown(): only the innermost loop declines, and its scope
\* is still on the stack while it runs.
Decline ==
  /\ Alive
  /\ main = "menu"
  /\ stack # <<>> /\ Last(stack) = menu
  /\ IF Len(stack) > 1
       THEN Notify(NextBelow)
       ELSE shutdown' = TRUE /\ UNCHANGED pending
  /\ main' = "run"
  /\ menu' = 0
  /\ UNCHANGED <<scopeVars, osVars, ladderVars, router, exitCode>>

\* Mutation: the token is only looked at between handler scopes.
DroppedWhenIdle ==
  /\ Alive
  /\ main = "run"
  /\ shutdown
  /\ guards = {}
  /\ main' = "unwind"
  /\ UNCHANGED <<scopeVars, pending, osVars, ladderVars, shutdown, router, menu, exitCode>>

\* The select over the command and the token: the token is looked at when the
\* command waits, and its future is dropped, scope by scope.
FutureDropped ==
  /\ Alive
  /\ main = "run"
  /\ shutdown
  /\ main' = "unwind"
  /\ UNCHANGED <<scopeVars, pending, osVars, ladderVars, shutdown, router, menu, exitCode>>

\* The command returned, or its future is gone: no scope is left.
Teardown ==
  /\ Alive
  /\ main \in {"run", "unwind"}
  /\ guards = {} /\ receivers = {}
  /\ main' = "teardown"
  /\ UNCHANGED <<scopeVars, pending, osVars, ladderVars, shutdown, router, menu, exitCode>>

\* Background tasks are drained (their wait is bounded) and main returns.
MainReturns ==
  /\ Alive
  /\ main = "teardown"
  /\ main' = "done"
  /\ UNCHANGED <<scopeVars, pending, osVars, ladderVars, shutdown, router, menu, exitCode>>

\* The process is gone.
Ended == ~Alive /\ UNCHANGED vars

CloseScope == \E id \in Handlers : DropGuard(id) \/ DropReceiver(id)

MainTask ==
  \/ PushHandler
  \/ CloseScope
  \/ \E id \in Handlers : Receive(id)
  \/ Handled
  \/ Escalate
  \/ Decline
  \/ FutureDropped
  \/ Teardown
  \/ MainReturns

Next ==
  \/ \E signal \in OsSignal : Deliver(signal)
  \/ CooldownPasses
  \/ SignalTask
  \/ MainTask
  \/ Ended

\* The signal task runs on a worker of its own.  The main task reaches an
\* await point, and once it unwinds or tears down it runs to the end; nothing
\* makes the user answer a menu.
Fairness ==
  /\ WF_vars(SignalTask)
  /\ WF_vars(FutureDropped)
  /\ WF_vars(main = "unwind" /\ CloseScope)
  /\ WF_vars(main # "run" /\ Teardown)
  /\ WF_vars(MainReturns)

Spec == Init /\ [][Next]_vars /\ Fairness

-----------------------------------------------------------------------------
(* Properties.                                                             *)

\* Every variable stays in its range: in particular a channel only holds a
\* notification while its receiver is alive.
TypeOK ==
  /\ stack \in Seq(Handlers)
  /\ nextId \in 1 .. MaxHandlers + 1
  /\ guards \subseteq Handlers
  /\ receivers \subseteq Handlers
  /\ pending \subseteq receivers
  /\ arrived \subseteq OsSignal
  /\ delivered \in 0 .. MaxSignals
  /\ presses \in Nat
  /\ warm \in BOOLEAN
  /\ shutdown \in BOOLEAN
  /\ router \in RouterStates
  /\ main \in MainStates
  /\ menu \in {0} \cup Handlers
  /\ exitCode \in {0, SIGINT_EXIT_CODE, SIGQUIT_EXIT_CODE}

\* Whatever order guards drop in (early returns, unwinding), the stack holds
\* exactly the live guards, each once, in the order they were registered.
StackHoldsLiveGuards ==
  /\ \A id \in guards : \E i \in DOMAIN stack : stack[i] = id
  /\ \A i \in DOMAIN stack : stack[i] \in guards /\ stack[i] < nextId
  /\ \A i, j \in DOMAIN stack : i < j => stack[i] < stack[j]

\* A press never kills the process without a graceful shutdown having been
\* requested first, by whatever combination of presses, SIGTERM, declined
\* menus and closed handlers.
ExitOnlyAfterShutdown == exitCode = SIGINT_EXIT_CODE => shutdown

\* Two presses within the cooldown always end in a shutdown request, whatever
\* the handlers do with the first.
SecondPressShutsDown == presses >= 2 => shutdown

\* The lookup and the send are not atomic, so a scope may open in between and
\* miss the press; a scope that existed at the lookup is never passed over
\* for one below it.
PressGoesToTopmost ==
  router.at = "send" =>
    \A i \in DOMAIN stack : stack[i] > router.target => stack[i] >= router.seen

\* Declining hands the press to a scope below, or shuts down: it never comes
\* back to the handler that declined it.
DeclineGoesDown ==
  [][ Decline => \/ shutdown'
                 \/ \E id \in pending' : id < menu /\ pending' = pending \cup {id} ]_vars

\* The user can always get out: a press made once shutdown has begun ends the
\* process even when the main task never runs again.
PressDuringShutdownExits ==
  shutdown /\ "Interrupt" \in arrived ~> ~Alive

\* A requested shutdown ends the process unless a menu stays unanswered.
ShutdownEnds == shutdown ~> ~Alive \/ main = "menu"
=============================================================================
