------------------------ MODULE SignalRouter_proofs ------------------------
(***************************************************************************)
(* Proofs that the safety invariants of SignalRouter hold for any number   *)
(* of handler scopes and signals.                                          *)
(***************************************************************************)
EXTENDS SignalRouter, SequenceTheorems, TLAPS

\* What removing position k of a sequence leaves.
LEMMA RemoveAtProperties ==
  ASSUME NEW S, NEW s \in Seq(S), NEW k \in DOMAIN s
  PROVE  /\ RemoveAt(s, k) \in Seq(S)
         /\ Len(RemoveAt(s, k)) = Len(s) - 1
         /\ \A i \in 1 .. Len(s) - 1 :
              RemoveAt(s, k)[i] = IF i < k THEN s[i] ELSE s[i + 1]
<1> DEFINE a == SubSeq(s, 1, k - 1)
           b == SubSeq(s, k + 1, Len(s))
<1>1. DOMAIN s = 1 .. Len(s) /\ Len(s) \in Nat /\ k \in 1 .. Len(s)
  BY LenProperties
<1>2. \A i \in 1 .. Len(s) : s[i] \in S
  BY <1>1, ElementOfSeq
<1>3. a \in Seq(S) /\ Len(a) = k - 1 /\ \A i \in 1 .. k - 1 : a[i] = s[i]
  <2>1. \A i \in 1 .. k - 1 : s[i] \in S
    BY <1>1, <1>2
  <2> QED BY <1>1, <2>1, SubSeqProperties
<1>4. b \in Seq(S) /\ Len(b) = Len(s) - k /\ \A i \in 1 .. Len(s) - k : b[i] = s[k + i]
  <2>1. \A i \in k + 1 .. Len(s) : s[i] \in S
    BY <1>1, <1>2
  <2>2. /\ b \in Seq(S)
        /\ Len(b) = IF k + 1 <= Len(s) THEN Len(s) - (k + 1) + 1 ELSE 0
        /\ \A i \in 1 .. Len(s) - (k + 1) + 1 : b[i] = s[k + 1 + i - 1]
    BY <1>1, <2>1, SubSeqProperties
  <2> QED BY <1>1, <2>2
<1> DEFINE t == a \o b
<1>5. /\ t \in Seq(S)
      /\ Len(t) = Len(a) + Len(b)
      /\ \A i \in 1 .. Len(a) + Len(b) :
           t[i] = IF i <= Len(a) THEN a[i] ELSE b[i - Len(a)]
  <2> HIDE DEF a, b
  <2> QED BY <1>3, <1>4, ConcatProperties
<1>6. RemoveAt(s, k) = t
  BY DEF RemoveAt
<1> HIDE DEF a, b, t
<1>7. Len(t) = Len(s) - 1
  BY <1>1, <1>3, <1>4, <1>5
<1>8. ASSUME NEW i \in 1 .. Len(s) - 1
      PROVE  t[i] = IF i < k THEN s[i] ELSE s[i + 1]
  <2>1. CASE i < k
    BY <1>1, <1>3, <1>4, <1>5, <2>1
  <2>2. CASE ~(i < k)
    <3>1. i - (k - 1) \in 1 .. Len(s) - k
      BY <1>1, <2>2
    <3>2. t[i] = b[i - (k - 1)]
      BY <1>1, <1>3, <1>4, <1>5, <2>2
    <3>3. b[i - (k - 1)] = s[k + (i - (k - 1))]
      BY <1>4, <3>1
    <3>4. k + (i - (k - 1)) = i + 1
      BY <1>1
    <3> QED BY <2>2, <3>2, <3>3, <3>4
  <2> QED BY <2>1, <2>2
<1> QED BY <1>5, <1>6, <1>7, <1>8

\* Removing an element of an increasing sequence of ids.
LEMMA WithoutKeepsOrder ==
  ASSUME NEW S, NEW s \in Seq(S), NEW id,
         \A i \in DOMAIN s : s[i] \in Nat,
         \A i, j \in DOMAIN s : i < j => s[i] < s[j],
         NEW t, t = Without(s, id)
  PROVE  /\ t \in Seq(S)
         /\ \A i \in DOMAIN t : t[i] # id /\ \E j \in DOMAIN s : t[i] = s[j]
         /\ \A j \in DOMAIN s : s[j] # id => \E i \in DOMAIN t : t[i] = s[j]
         /\ \A i, j \in DOMAIN t : i < j => t[i] < t[j]
<1>1. DOMAIN s = 1 .. Len(s) /\ Len(s) \in Nat
  BY LenProperties
<1>2. CASE ~ \E i \in DOMAIN s : s[i] = id
  BY <1>2 DEF Without
<1>3. CASE \E i \in DOMAIN s : s[i] = id
  <2> DEFINE k == CHOOSE i \in DOMAIN s : s[i] = id
  <2>1. k \in DOMAIN s /\ s[k] = id
    BY <1>3
  <2>2. t = RemoveAt(s, k)
    BY <1>3 DEF Without
  <2> HIDE DEF k
  <2>3. /\ t \in Seq(S)
        /\ Len(t) = Len(s) - 1
        /\ \A i \in 1 .. Len(s) - 1 : t[i] = IF i < k THEN s[i] ELSE s[i + 1]
    BY <2>1, <2>2, RemoveAtProperties
  <2>4. DOMAIN t = 1 .. Len(s) - 1
    BY <2>3, LenProperties
  <2> DEFINE from(i) == IF i < k THEN i ELSE i + 1
  <2>6. ASSUME NEW i \in DOMAIN t
        PROVE  from(i) \in DOMAIN s /\ from(i) # k /\ t[i] = s[from(i)]
    BY <1>1, <2>1, <2>3, <2>4
  <2>7. ASSUME NEW i \in DOMAIN t, NEW j \in DOMAIN t, i < j
        PROVE  from(i) < from(j)
    BY <1>1, <2>1, <2>4, <2>7
  <2> HIDE DEF from
  <2>8. \A i, j \in DOMAIN s : i # j => s[i] # s[j]
    <3> SUFFICES ASSUME NEW i \in DOMAIN s, NEW j \in DOMAIN s, i # j PROVE s[i] # s[j]
      OBVIOUS
    <3>1. i < j \/ j < i
      BY <1>1
    <3>2. s[i] < s[j] \/ s[j] < s[i]
      BY <3>1
    <3>3. s[i] \in Nat /\ s[j] \in Nat
      OBVIOUS
    <3> QED BY <3>2, <3>3
  <2>9. ASSUME NEW i \in DOMAIN t PROVE t[i] # id /\ \E j \in DOMAIN s : t[i] = s[j]
    BY <2>1, <2>6, <2>8
  <2>10. ASSUME NEW j \in DOMAIN s, s[j] # id PROVE \E i \in DOMAIN t : t[i] = s[j]
    <3>1. CASE j < k
      <4>1. j \in DOMAIN t /\ t[j] = s[j]
        BY <1>1, <2>1, <2>3, <2>4, <3>1
      <4> QED BY <4>1
    <3>2. CASE j > k
      <4>1. j - 1 \in DOMAIN t /\ t[j - 1] = s[j]
        BY <1>1, <2>1, <2>3, <2>4, <3>2
      <4> QED BY <4>1
    <3> QED BY <1>1, <2>1, <2>10, <3>1, <3>2
  <2>11. ASSUME NEW i \in DOMAIN t, NEW j \in DOMAIN t, i < j PROVE t[i] < t[j]
    <3>1. from(i) < from(j)
      BY <2>11, <2>7
    <3>2. s[from(i)] < s[from(j)]
      BY <2>6, <3>1
    <3> QED BY <2>6, <3>2
  <2> QED BY <2>2, <2>3, <2>9, <2>10, <2>11
<1> QED BY <1>2, <1>3

-----------------------------------------------------------------------------
(* Type correctness.                                                       *)

\* The sends on a notification channel keep its type.
LEMMA NotifyTyping ==
  ASSUME TypeOK, NEW id \in Handlers, Notify(id)
  PROVE  pending' \subseteq receivers /\ shutdown' \in BOOLEAN
BY DEF TypeOK, Notify

LEMMA Typing == TypeOK /\ [Next]_vars => TypeOK'
<1> SUFFICES ASSUME TypeOK, [Next]_vars PROVE TypeOK'
  OBVIOUS
<1> USE BoundsAssumption
<1> USE DEF TypeOK, Handlers, OsSignal, RouterStates, MainStates, Idle, LookingUp, Alive,
            SIGINT_EXIT_CODE, SIGQUIT_EXIT_CODE, scopeVars, osVars, ladderVars
<1>1. ASSUME NEW signal \in OsSignal, Deliver(signal) PROVE TypeOK'
  BY <1>1 DEF Deliver
<1>2. CASE CooldownPasses
  BY <1>2 DEF CooldownPasses
<1>3. CASE RouteInterrupt
  <2>1. Bumped \in Nat
    BY DEF Bumped
  <2>2. presses' \in Nat /\ warm' \in BOOLEAN /\ arrived' \subseteq OsSignal
    BY <1>3, <2>1 DEF RouteInterrupt
  <2>3. Climb(Bumped)
    BY <1>3 DEF RouteInterrupt
  <2>4. router' \in RouterStates
    BY <2>3 DEF Climb
  <2>5. shutdown' \in BOOLEAN
    BY <2>3, Zenon DEF Climb
  <2>6. exitCode' \in {0, SIGINT_EXIT_CODE, SIGQUIT_EXIT_CODE}
    BY <2>3, Zenon DEF Climb
  <2> QED BY <1>3, <2>2, <2>4, <2>5, <2>6 DEF RouteInterrupt
<1>4. CASE Topmost
  <2>1. CASE stack = <<>>
    BY <1>4, <2>1 DEF Topmost, TopmostHandler
  <2>2. CASE stack # <<>>
    <3>1. Last(stack) \in Handlers
      BY <2>2 DEF Last
    <3>2. router' \in RouterStates
      BY <1>4, <2>2, <3>1 DEF Topmost, TopmostHandler
    <3> QED BY <1>4, <2>2, <3>2 DEF Topmost, TopmostHandler
  <2> QED BY <2>1, <2>2
<1>5. CASE NotifyTopmost
  <2>1. router.target \in Handlers
    BY <1>5 DEF NotifyTopmost
  <2>2. pending' \subseteq receivers /\ shutdown' \in BOOLEAN
    BY <1>5, <2>1, NotifyTyping DEF NotifyTopmost
  <2> QED BY <1>5, <2>2 DEF NotifyTopmost
<1>6. CASE RouteTerminate
  BY <1>6 DEF RouteTerminate
<1>7. CASE RouteQuit
  BY <1>7 DEF RouteQuit
<1>8. CASE PushHandler
  <2>1. nextId \in Handlers
    BY <1>8 DEF PushHandler
  <2>2. stack' \in Seq(Handlers)
    BY <1>8, <2>1, AppendProperties DEF PushHandler
  <2> QED BY <1>8, <2>1, <2>2 DEF PushHandler
<1>9. ASSUME NEW id \in Handlers, DropGuard(id) PROVE TypeOK'
  <2>1. stack' \in Seq(Handlers)
    <3>1. CASE \E i \in DOMAIN stack : stack[i] = id
      BY <1>9, <3>1, RemoveAtProperties DEF DropGuard, Without
    <3>2. CASE ~ \E i \in DOMAIN stack : stack[i] = id
      BY <1>9, <3>2 DEF DropGuard, Without
    <3> QED BY <3>1, <3>2
  <2> QED BY <1>9, <2>1 DEF DropGuard
<1>10. ASSUME NEW id \in Handlers, DropReceiver(id) PROVE TypeOK'
  BY <1>10 DEF DropReceiver
<1>11. ASSUME NEW id \in Handlers, Receive(id) PROVE TypeOK'
  BY <1>11 DEF Receive
<1>12. CASE Handled
  BY <1>12 DEF Handled
<1>13. CASE Escalate
  BY <1>13 DEF Escalate
<1>14. CASE Decline
  <2>1. CASE Len(stack) > 1
    <3>1. Len(stack) - 1 \in 1 .. Len(stack)
      BY <2>1
    <3>2. stack[Len(stack) - 1] \in Handlers
      BY <3>1, ElementOfSeq
    <3>3. pending' \subseteq receivers /\ shutdown' \in BOOLEAN
      BY <1>14, <2>1, <3>2, NotifyTyping DEF Decline, NextBelow
    <3> QED BY <1>14, <3>3 DEF Decline, NextBelow
  <2>2. CASE ~(Len(stack) > 1)
    BY <1>14, <2>2 DEF Decline, NextBelow
  <2> QED BY <2>1, <2>2
<1>15. CASE FutureDropped
  BY <1>15 DEF FutureDropped
<1>16. CASE Teardown
  BY <1>16 DEF Teardown
<1>17. CASE MainReturns
  BY <1>17 DEF MainReturns
<1>18. CASE UNCHANGED vars
  BY <1>18 DEF vars
<1> QED
  BY <1>1, <1>2, <1>3, <1>4, <1>5, <1>6, <1>7, <1>8, <1>9, <1>10, <1>11, <1>12,
     <1>13, <1>14, <1>15, <1>16, <1>17, <1>18
  DEF Next, SignalTask, MainTask, CloseScope, Ended

\* TypeOK for every number of scopes and signals.
THEOREM TypeCorrect == Spec => []TypeOK
<1>1. Init => TypeOK
  <2> SUFFICES ASSUME Init PROVE TypeOK
    OBVIOUS
  <2>1. stack \in Seq(Handlers)
    BY EmptySeq DEF Init
  <2>2. router \in RouterStates
    BY DEF Init, RouterStates, Idle
  <2>3. nextId \in 1 .. MaxHandlers + 1 /\ delivered \in 0 .. MaxSignals /\ presses \in Nat
    BY BoundsAssumption DEF Init
  <2>4. warm \in BOOLEAN /\ shutdown \in BOOLEAN
    BY DEF Init
  <2>5. guards \subseteq Handlers /\ receivers \subseteq Handlers /\ pending \subseteq receivers /\ arrived \subseteq OsSignal
    BY DEF Init
  <2>6. main \in MainStates /\ menu \in {0} \cup Handlers /\ exitCode \in {0, SIGINT_EXIT_CODE, SIGQUIT_EXIT_CODE}
    BY DEF Init, MainStates
  <2> QED
    BY <2>1, <2>2, <2>3, <2>4, <2>5, <2>6 DEF TypeOK
<1> QED BY <1>1, Typing, PTL DEF Spec

-----------------------------------------------------------------------------
(* The handler stack.                                                      *)

\* What dropping a guard leaves on the stack.
LEMMA DropGuardStack ==
  ASSUME TypeOK, StackHoldsLiveGuards, NEW id \in Handlers, DropGuard(id)
  PROVE  /\ \A i \in DOMAIN stack' : stack'[i] # id /\ \E j \in DOMAIN stack : stack'[i] = stack[j]
         /\ \A j \in DOMAIN stack : stack[j] # id => \E i \in DOMAIN stack' : stack'[i] = stack[j]
         /\ \A i, j \in DOMAIN stack' : i < j => stack'[i] < stack'[j]
<1>1. stack \in Seq(Handlers) /\ \A i \in DOMAIN stack : stack[i] \in Nat
  <2>1. stack \in Seq(Handlers)
    BY DEF TypeOK
  <2>2. \A i \in DOMAIN stack : stack[i] \in Handlers
    BY <2>1, LenProperties, ElementOfSeq
  <2> QED BY <2>1, <2>2 DEF Handlers
<1>2. stack' = Without(stack, id)
  BY DEF DropGuard
<1>3. \A i, j \in DOMAIN stack : i < j => stack[i] < stack[j]
  BY DEF StackHoldsLiveGuards
<1> QED BY <1>1, <1>2, <1>3, WithoutKeepsOrder, SMTT(30)

\* Only opening and closing scopes touch the stack, the guards and the ids.
LEMMA StackStep == TypeOK /\ StackHoldsLiveGuards /\ [Next]_vars => StackHoldsLiveGuards'
<1> SUFFICES ASSUME TypeOK, StackHoldsLiveGuards, [Next]_vars
             PROVE  StackHoldsLiveGuards'
  OBVIOUS
<1>1. CASE PushHandler
  <2>1. /\ nextId \in Handlers
        /\ guards' = guards \cup {nextId}
        /\ nextId' = nextId + 1
        /\ stack' = Append(stack, nextId)
        /\ nextId \in Nat
    BY <1>1 DEF PushHandler, TypeOK, Handlers
  <2>2. stack \in Seq(Handlers) /\ Len(stack) \in Nat /\ DOMAIN stack = 1 .. Len(stack)
    BY LenProperties DEF TypeOK
  <2>3. /\ Len(stack') = Len(stack) + 1
        /\ \A i \in 1 .. Len(stack) : stack'[i] = stack[i]
        /\ stack'[Len(stack) + 1] = nextId
        /\ stack' \in Seq(Handlers)
    BY <2>1, <2>2, AppendProperties
  <2>4. DOMAIN stack' = 1 .. Len(stack) + 1
    BY <2>3, LenProperties
  <2>5. ASSUME NEW i \in DOMAIN stack'
        PROVE  \/ i \in DOMAIN stack /\ stack'[i] = stack[i]
               \/ i = Len(stack) + 1 /\ stack'[i] = nextId
    BY <2>2, <2>3, <2>4
  <2>6. \A i \in DOMAIN stack : stack[i] \in guards /\ stack[i] \in Nat /\ stack[i] < nextId
    <3> SUFFICES ASSUME NEW i \in DOMAIN stack
                 PROVE  stack[i] \in guards /\ stack[i] \in Nat /\ stack[i] < nextId
      OBVIOUS
    <3>1. stack[i] \in Handlers
      BY <2>2, ElementOfSeq
    <3> QED BY <3>1 DEF StackHoldsLiveGuards, Handlers
  <2>7. \A id \in guards' : \E i \in DOMAIN stack' : stack'[i] = id
    <3> SUFFICES ASSUME NEW id \in guards' PROVE \E i \in DOMAIN stack' : stack'[i] = id
      OBVIOUS
    <3>1. CASE id = nextId
      BY <2>2, <2>3, <2>4, <3>1
    <3>2. CASE id \in guards
      <4>1. PICK i \in DOMAIN stack : stack[i] = id
        BY <3>2 DEF StackHoldsLiveGuards
      <4>2. i \in DOMAIN stack' /\ stack'[i] = id
        BY <2>2, <2>3, <2>4, <4>1
      <4> QED BY <4>2
    <3> QED BY <2>1, <3>1, <3>2
  <2>8. \A i \in DOMAIN stack' : stack'[i] \in guards' /\ stack'[i] < nextId'
    BY <2>1, <2>5, <2>6
  <2>9. \A i, j \in DOMAIN stack' : i < j => stack'[i] < stack'[j]
    <3> SUFFICES ASSUME NEW i \in DOMAIN stack', NEW j \in DOMAIN stack', i < j
                 PROVE  stack'[i] < stack'[j]
      OBVIOUS
    <3>1. i \in DOMAIN stack /\ stack'[i] = stack[i]
      BY <2>2, <2>4, <2>5
    <3>2. CASE j \in DOMAIN stack /\ stack'[j] = stack[j]
      BY <3>1, <3>2 DEF StackHoldsLiveGuards
    <3>3. CASE j = Len(stack) + 1 /\ stack'[j] = nextId
      BY <2>6, <3>1, <3>3
    <3> QED BY <2>5, <3>2, <3>3
  <2> QED BY <2>7, <2>8, <2>9 DEF StackHoldsLiveGuards
<1>2. ASSUME NEW id \in Handlers, DropGuard(id) PROVE StackHoldsLiveGuards'
  <2>1. guards' = guards \ {id} /\ nextId' = nextId
    BY <1>2 DEF DropGuard
  <2>2. /\ \A i \in DOMAIN stack' : stack'[i] # id /\ \E j \in DOMAIN stack : stack'[i] = stack[j]
        /\ \A j \in DOMAIN stack : stack[j] # id => \E i \in DOMAIN stack' : stack'[i] = stack[j]
        /\ \A i, j \in DOMAIN stack' : i < j => stack'[i] < stack'[j]
    BY <1>2, DropGuardStack
  <2>3. \A other \in guards' : \E i \in DOMAIN stack' : stack'[i] = other
    BY <2>1, <2>2 DEF StackHoldsLiveGuards
  <2>4. \A i \in DOMAIN stack' : stack'[i] \in guards' /\ stack'[i] < nextId'
    BY <2>1, <2>2 DEF StackHoldsLiveGuards
  <2> QED BY <2>2, <2>3, <2>4 DEF StackHoldsLiveGuards
<1>3. CASE UNCHANGED <<stack, guards, nextId>>
  BY <1>3 DEF StackHoldsLiveGuards
<1>4. ASSUME ~PushHandler, ~(\E id \in Handlers : DropGuard(id))
      PROVE  UNCHANGED <<stack, guards, nextId>>
  BY <1>4
  DEF Next, SignalTask, MainTask, CloseScope, Ended, vars, scopeVars,
      Deliver, CooldownPasses, RouteInterrupt, Topmost, TopmostHandler, NotifyTopmost,
      RouteTerminate, RouteQuit, DropReceiver, Receive, Handled,
      Escalate, Decline, FutureDropped, Teardown, MainReturns
<1> QED BY <1>1, <1>2, <1>3, <1>4

-----------------------------------------------------------------------------
(* The escalation ladder.                                                  *)

\* The two facts about the ladder are inductive together.
Ladder == ExitOnlyAfterShutdown /\ SecondPressShutsDown

LEMMA LadderStep == TypeOK /\ Ladder /\ [Next]_vars => Ladder'
<1> SUFFICES ASSUME TypeOK, Ladder, [Next]_vars PROVE Ladder'
  OBVIOUS
<1> USE DEF Ladder, ExitOnlyAfterShutdown, SecondPressShutsDown
<1>1. CASE RouteInterrupt
  <2>1. presses' = Bumped /\ Climb(Bumped) /\ exitCode = 0 /\ presses \in Nat
    BY <1>1 DEF RouteInterrupt, Alive, TypeOK
  <2>2. Bumped = presses + 1 \/ Bumped = 1
    BY DEF Bumped
  <2>3. CASE shutdown
    BY <2>1, <2>3 DEF Climb
  <2>4. CASE ~shutdown
    <3>1. ~(presses >= 2)
      BY <2>4
    <3>2. Bumped \in {1, 2}
      BY <2>1, <2>2, <3>1
    <3>3. CASE Bumped = 2
      BY <2>1, <2>4, <3>3 DEF Climb, SIGINT_EXIT_CODE
    <3>4. CASE Bumped = 1
      BY <2>1, <2>4, <3>4 DEF Climb, SIGINT_EXIT_CODE
    <3> QED BY <3>2, <3>3, <3>4
  <2> QED BY <2>3, <2>4
<1>2. CASE RouteQuit
  BY <1>2 DEF RouteQuit, ladderVars, SIGINT_EXIT_CODE, SIGQUIT_EXIT_CODE
<1>3. ASSUME ~RouteInterrupt, ~RouteQuit
      PROVE  UNCHANGED <<presses, exitCode>> /\ (shutdown => shutdown')
  BY <1>3
  DEF Next, SignalTask, MainTask, CloseScope, Ended, vars, ladderVars, Notify,
      Deliver, CooldownPasses, Topmost, TopmostHandler, NotifyTopmost, RouteTerminate,
      PushHandler, DropGuard, DropReceiver, Receive, Handled, Escalate,
      Decline, FutureDropped, Teardown, MainReturns
<1> QED BY <1>1, <1>2, <1>3

-----------------------------------------------------------------------------
(* The target of a press.                                                  *)

\* What the signal task carries from the lookup to the send.
SeenBounds == router.at = "send" => router.target < router.seen /\ router.seen <= nextId

Target == SeenBounds /\ PressGoesToTopmost

LEMMA TargetStep ==
  TypeOK /\ StackHoldsLiveGuards /\ Target /\ [Next]_vars => Target'
<1> SUFFICES ASSUME TypeOK, StackHoldsLiveGuards, Target, [Next]_vars PROVE Target'
  OBVIOUS
<1>1. stack \in Seq(Handlers) /\ DOMAIN stack = 1 .. Len(stack) /\ Len(stack) \in Nat
  BY LenProperties DEF TypeOK
<1>2. \A i \in DOMAIN stack : stack[i] \in Nat /\ stack[i] < nextId
  <2> SUFFICES ASSUME NEW i \in DOMAIN stack PROVE stack[i] \in Nat /\ stack[i] < nextId
    OBVIOUS
  <2>1. stack[i] \in Handlers
    BY <1>1, ElementOfSeq
  <2> QED BY <2>1 DEF StackHoldsLiveGuards, Handlers
<1>3. nextId \in Nat
  BY DEF TypeOK
<1>4. router \in RouterStates
  BY DEF TypeOK
<1>5. CASE router'.at # "send"
  BY <1>5 DEF Target, SeenBounds, PressGoesToTopmost
<1>6. CASE Topmost /\ router'.at = "send"
  <2>1. stack # <<>> /\ router' = [at |-> "send", target |-> Last(stack), seen |-> nextId]
        /\ nextId' = nextId /\ stack' = stack
    BY <1>6 DEF Topmost, TopmostHandler, Idle, scopeVars
  <2>2. Len(stack) \in DOMAIN stack /\ Last(stack) = stack[Len(stack)]
    BY <1>1, <2>1 DEF Last
  <2>3. ASSUME NEW i \in DOMAIN stack PROVE stack[i] <= stack[Len(stack)]
    <3>1. i = Len(stack) \/ i < Len(stack)
      BY <1>1
    <3>2. CASE i < Len(stack)
      <4>1. stack[i] < stack[Len(stack)]
        BY <2>2, <3>2 DEF StackHoldsLiveGuards
      <4> QED BY <1>2, <2>2, <4>1
    <3> QED BY <1>2, <3>1, <3>2
  <2>4. SeenBounds'
    BY <1>2, <1>3, <2>1, <2>2 DEF SeenBounds
  <2>5. PressGoesToTopmost'
    BY <1>2, <2>1, <2>2, <2>3 DEF PressGoesToTopmost
  <2> QED BY <2>4, <2>5 DEF Target
<1>7. CASE router' = router /\ PushHandler
  <2>1. /\ nextId' = nextId + 1 /\ stack' = Append(stack, nextId)
        /\ nextId \in Handlers
    BY <1>7 DEF PushHandler, TypeOK, Handlers
  <2>2. ASSUME NEW i \in DOMAIN stack'
        PROVE  (i \in DOMAIN stack /\ stack'[i] = stack[i]) \/ stack'[i] = nextId
    BY <1>1, <2>1, <2>2, AppendProperties
  <2>3. CASE router.at # "send"
    BY <1>7, <2>3 DEF Target, SeenBounds, PressGoesToTopmost
  <2>4. CASE router.at = "send"
    <3>1. router.target < router.seen /\ router.seen <= nextId /\ router.seen \in Nat
          /\ router.target \in Nat
      BY <1>4, <2>4 DEF Target, SeenBounds, RouterStates, Handlers
    <3>2. SeenBounds'
      BY <1>3, <1>7, <2>1, <3>1 DEF SeenBounds
    <3>3. PressGoesToTopmost'
      BY <1>3, <1>7, <2>2, <2>4, <3>1 DEF Target, PressGoesToTopmost
    <3> QED BY <3>2, <3>3 DEF Target
  <2> QED BY <2>3, <2>4
<1>8. ASSUME router' = router, NEW id \in Handlers, DropGuard(id) PROVE Target'
  <2>1. nextId' = nextId
    BY <1>8 DEF DropGuard
  <2>2. \A i \in DOMAIN stack' : \E j \in DOMAIN stack : stack'[i] = stack[j]
    BY <1>8, DropGuardStack
  <2> QED BY <1>8, <2>1, <2>2 DEF Target, SeenBounds, PressGoesToTopmost
<1>9. CASE router' = router /\ UNCHANGED <<stack, nextId>>
  BY <1>9 DEF Target, SeenBounds, PressGoesToTopmost
<1>10. \/ router'.at # "send"
       \/ Topmost
       \/ router' = router /\ PushHandler
       \/ router' = router /\ \E id \in Handlers : DropGuard(id)
       \/ router' = router /\ UNCHANGED <<stack, nextId>>
  BY DEF Next, SignalTask, MainTask, CloseScope, Ended, vars, scopeVars, ladderVars, osVars,
      Deliver, CooldownPasses, RouteInterrupt, Climb, LookingUp, Idle, NotifyTopmost,
      RouteTerminate, RouteQuit, PushHandler, DropGuard, DropReceiver, Receive, Handled,
      Escalate, Decline, FutureDropped, Teardown, MainReturns
<1> QED BY <1>5, <1>6, <1>7, <1>8, <1>9, <1>10

-----------------------------------------------------------------------------
(* The theorems.                                                           *)

RouterInv == TypeOK /\ StackHoldsLiveGuards /\ Ladder /\ Target

LEMMA RouterInvariant == Spec => []RouterInv
<1>1. Init => StackHoldsLiveGuards /\ Ladder /\ Target
  BY DEF Init, StackHoldsLiveGuards, Ladder, ExitOnlyAfterShutdown, SecondPressShutsDown,
         Target, SeenBounds, PressGoesToTopmost, Idle, SIGINT_EXIT_CODE
<1>2. TypeOK /\ StackHoldsLiveGuards /\ Ladder /\ Target /\ [Next]_vars
        => StackHoldsLiveGuards' /\ Ladder' /\ Target'
  BY StackStep, LadderStep, TargetStep
<1> QED BY <1>1, <1>2, TypeCorrect, PTL DEF Spec, RouterInv

\* In whatever order scopes are left, the stack is the live guards in the
\* order they were registered (InterruptGuard::drop, RouterInner::remove).
THEOREM StackIsLiveGuards == Spec => []StackHoldsLiveGuards
BY RouterInvariant, PTL DEF RouterInv

\* The signal task calls exit(130) only once the token is cancelled, so every
\* forced exit was preceded by a request to stop gracefully (route_interrupt).
THEOREM ForcedExitIsLastResort == Spec => []ExitOnlyAfterShutdown
BY RouterInvariant, PTL DEF RouterInv, Ladder

\* A second press in the window cancels the token whatever handlers do.
THEOREM SecondPressAlwaysShutsDown == Spec => []SecondPressShutsDown
BY RouterInvariant, PTL DEF RouterInv, Ladder

\* A press passes over no scope that was open when it was routed, although
\* the stack lock is released before the notification is sent (topmost).
THEOREM PressReachesTopmost == Spec => []PressGoesToTopmost
BY RouterInvariant, PTL DEF RouterInv, Target

\* The loop of the innermost scope hands what it declines to a scope below its
\* own, or shuts down: the stack is in the order scopes were registered in,
\* whatever guards were dropped before (notify_next_or_shutdown).
THEOREM DecliningGoesDown == Spec => DeclineGoesDown
<1> DEFINE Down == Decline => \/ shutdown'
                              \/ \E id \in pending' : id < menu /\ pending' = pending \cup {id}
<1>1. TypeOK /\ StackHoldsLiveGuards /\ [Next]_vars => [Down]_vars
  <2> SUFFICES ASSUME TypeOK, StackHoldsLiveGuards, Decline, ~shutdown'
               PROVE  \E id \in pending' : id < menu /\ pending' = pending \cup {id}
    OBVIOUS
  <2>1. Len(stack) > 1 /\ Notify(NextBelow) /\ Last(stack) = menu
    BY DEF Decline
  <2>2. stack \in Seq(Handlers) /\ DOMAIN stack = 1 .. Len(stack) /\ Len(stack) \in Nat
    BY LenProperties DEF TypeOK
  <2>3. Last(stack) = stack[Len(stack)]
    BY DEF Last
  <2>4. stack[Len(stack) - 1] < stack[Len(stack)]
    BY <2>1, <2>2 DEF StackHoldsLiveGuards
  <2>5. NextBelow < menu
    BY <2>1, <2>3, <2>4 DEF NextBelow
  <2>6. pending' = pending \cup {NextBelow}
    BY <2>1 DEF Notify
  <2> QED
    BY <2>5, <2>6
<1> QED
  BY <1>1, RouterInvariant, PTL DEF Spec, RouterInv, DeclineGoesDown
=============================================================================
