-------------------------- MODULE ConversationStream --------------------------
(***************************************************************************)
(* The life of one conversation's event stream: what the commands of jp do *)
(* to it (crates/jp_cli/src/cmd/query.rs, query/turn_loop.rs, query/turn/  *)
(* coordinator.rs, conversation/compact.rs, conversation/fork.rs,          *)
(* query/tool/inquiry.rs), and what a provider is sent of it.              *)
(*                                                                         *)
(* The commands run one at a time, under the conversation's lock; what is  *)
(* left when one of them dies is what another one finds.  Ids of calls are *)
(* unique.                                                                 *)
(***************************************************************************)
EXTENDS EventStream

CONSTANTS
  Values,      \* what the configuration may be
  Parts,       \* kinds of content a provider sends, besides calls
  Policies,    \* what compaction rules do, each a set of policies
  MaxOverlays, \* bound: overlays in the stream
  MaxClock,    \* bound: events ever made
  MaxLength    \* bound: length of a fork

\* What an overlay can do to its turns.
AllPolicies == {"summary", "reasoning", "strip", "omit"}

ASSUME ConstantsAssumption ==
  /\ Parts \subseteq {"say", "think"}
  /\ Policies \subseteq SUBSET AllPolicies
  /\ {MaxOverlays, MaxClock, MaxLength} \subseteq Nat /\ MaxClock # 0

VARIABLES
  base,    \* the base configuration
  stream,  \* the events
  phase,   \* what the turn is at, if one runs
  clock,   \* the stamp of the next event
  moved    \* history: an edit other than retain has moved a turn an overlay covers

vars == <<base, stream, phase, clock, moved>>

\* What a stream is made of.
Event ==
  [kind : {"turn", "ask", "say", "think"}, n : Nat]
    \cup [kind : {"call", "result", "question", "answer"}, id : Nat, n : Nat]
    \cup [kind : {"config"}, value : Values, n : Nat]
    \cup [kind : {"overlay"}, from : Nat, to : Nat, policy : SUBSET AllPolicies, of : SUBSET Nat, n : Nat]

\* Stamps and ids are from the past, and no overlay's range is inverted.
TypeOK ==
  /\ base \in Values /\ stream \in Seq(Event)
  /\ phase \in {"idle", "request", "stream", "tools"} /\ moved \in BOOLEAN
  /\ clock \in 1..MaxClock
  /\ \A i \in DOMAIN stream : stream[i].n < clock
  /\ \A i \in Overlays(stream) : stream[i].from <= stream[i].to
  /\ \A i \in Where(stream, {"call", "result", "question", "answer"}) : stream[i].id < clock

\* History: a TurnStart has been removed or inserted no later than an overlay's end.
Displaced(s, t) ==
  LET starts(r) == Pick(r, Where(r, {"turn"}))
      upto(r, k) == SubSeq(r, 1, Min({k, Len(r)}))
  IN  \E i \in Overlays(s) : \/ upto(starts(s), s[i].to + 1) # upto(starts(t), s[i].to + 1)
                             \/ Len(starts(t)) > Len(starts(s))

Init ==
  /\ base \in Values
  /\ stream = <<>> /\ phase = "idle" /\ clock = 1 /\ moved = FALSE

-----------------------------------------------------------------------------
(* jp query: the command sanitizes, applies a deferred replay and starts the *)
(* turn.  Each request of the turn is made from a sanitized stream; then the *)
(* provider sends content and calls, and a batch of tools answers them.      *)

Idle == phase = "idle"

Query(trim) ==
  LET sanitized == Sanitized(stream)
      trimmed == Trimmed(sanitized, trim)
  IN  /\ Idle /\ clock < MaxClock
      /\ trim = "pop_request" => EndsInRequest(stream)
      /\ stream' = StartTurn(trimmed, clock)
      /\ clock' = clock + 1
      /\ phase' = "request"
      /\ moved' = (moved \/ Displaced(stream, sanitized) \/ Displaced(sanitized, trimmed))
      /\ UNCHANGED base

\* A request: the first, one after a batch or a reply, or a retry.
Unanswered == {id \in Ids(CurrentTurn(stream), "call") : Answerable(stream, "call", "result", id)}
Cycle ==
  /\ ~Idle /\ (phase = "tools" => Unanswered = {})
  /\ stream' = Sanitized(stream)
  /\ phase' = "stream"
  /\ moved' = (moved \/ Displaced(stream, stream'))
  /\ UNCHANGED <<base, clock>>

Push(e, then) ==
  /\ clock < MaxClock
  /\ stream' = Append(stream, e)
  /\ clock' = clock + 1
  /\ phase' = then
  /\ UNCHANGED <<base, moved>>

Streaming == phase = "stream"
Content == Streaming /\ \E part \in Parts : Push(Told(part, clock), "stream")
CallTool == Streaming /\ Push(Paired("call", clock, clock), "stream")
Reply == Streaming /\ Push(Ask(clock), "request")

\* The provider refuses: what it said last is taken back.
Refused ==
  /\ Streaming
  /\ stream' = ResponsesPopped(stream)
  /\ UNCHANGED <<base, phase, clock, moved>>

\* What a batch adds: questions that go to the assistant with their answers, as
\* they come, and the results, all at once; build rejects an answer unless a
\* request waits for it.  A call asks one question at most.
Running == phase \in {"stream", "tools"}
Question == Running /\ \E id \in Unanswered \ Ids(stream, "question") :
              Push(Paired("question", id, clock), "tools")
Answer == Running /\ \E id \in Ids(CurrentTurn(stream), "question") :
            /\ id \in Unanswered /\ Answerable(stream, "question", "answer", id)
            /\ Push(Paired("answer", id, clock), "tools")
ToolResults ==
  /\ Running /\ Unanswered # {} /\ clock < MaxClock
  /\ LET current == CurrentTurn(stream)
         calls == Pick(current, {i \in Where(current, {"call"}) : current[i].id \in Unanswered})
     IN  stream' = stream \o [k \in DOMAIN calls |-> Paired("result", calls[k].id, clock)]
  /\ clock' = clock + 1
  /\ phase' = "tools"
  /\ UNCHANGED <<base, moved>>

\* The turn ends, completely or not.
End ==
  /\ ~Idle
  /\ phase' = "idle"
  /\ UNCHANGED <<base, stream, clock, moved>>

-----------------------------------------------------------------------------
(* Other commands *)

Configure(value) ==
  /\ Idle /\ clock < MaxClock
  /\ stream' = WithDelta(base, stream, value, clock)
  /\ clock' = IF stream' = stream THEN clock ELSE clock + 1
  /\ UNCHANGED <<base, phase, moved>>

\* jp conversation compact, and --compact of a query or a fork.
\* Of two rules in one command only two summaries affect each other.
RuleLists ==
  LET rules == [range : Ranges(stream), policy : Policies]
      summaries == {rule \in rules : "summary" \in rule.policy}
  IN  {<<rule>> : rule \in rules} \cup {<<r1, r2>> : r1, r2 \in summaries}
Compact ==
  /\ Idle /\ clock < MaxClock
  /\ \E rules \in RuleLists :
       /\ Cardinality(Overlays(stream)) + Len(rules) <= MaxOverlays
       /\ stream' = Compacted(stream, rules, clock)
  /\ clock' = clock + 1
  /\ UNCHANGED <<base, phase, moved>>

\* --reset: all overlays, or one of them.
Reset(removed) ==
  /\ Idle
  /\ stream' = Pick(stream, DOMAIN stream \ removed)
  /\ moved' = (moved /\ removed # Overlays(stream))
  /\ UNCHANGED <<base, phase, clock>>

\* jp conversation fork: the filters, on a copy that is then read event by event.
Window(from, until) == [from |-> from, until |-> until]
Always == Window(0, clock)
Windows ==
  LET times == {stream[i].n : i \in Conversation(stream)}
  IN  {Always} \cup {Window(t, clock) : t \in times} \cup {Window(0, t) : t \in times}
Timely(s, w) == Retained(s, {i \in DOMAIN s : w.from <= s[i].n /\ s[i].n < w.until})
TurnCounts ==
  LET count == 0..TurnCount(stream)
  IN  {counts \in count \X count : counts[1] + counts[2] <= TurnCount(stream)}

\* What one of the filters leaves of the stream.  A fork that is given a time and
\* turns filters by both before it is repaired; here it takes one of them.
Filtered ==
  {Timely(stream, w) : w \in Windows}
    \cup {FirstAndLastTurns(stream, counts[1], counts[2]) : counts \in TurnCounts}

\* Each is repaired first.
Copies == {Sanitized(filtered) : filtered \in Filtered}
Fork ==
  /\ Idle
  /\ \E copy \in Copies : stream' = Extended(base, copy)
  /\ Len(stream') <= MaxLength
  /\ moved' = FALSE
  /\ UNCHANGED <<base, phase, clock>>

\* fork --no-turns
ForkConfigOnly ==
  /\ Idle
  /\ base' = ConfigAt(base, stream, Len(stream))
  /\ stream' = <<>>
  /\ moved' = FALSE
  /\ UNCHANGED <<phase, clock>>

Next ==
  \/ \E trim \in {"none", "replay_turn", "pop_request"} : Query(trim)
  \/ Content \/ CallTool \/ Reply \/ Question \/ Answer \/ ToolResults
  \/ Refused \/ Cycle \/ End
  \/ \E value \in Values : Configure(value)
  \/ \E removed \in {Overlays(stream)} \cup {{i} : i \in Overlays(stream)} : Reset(removed)
  \/ Compact \/ Fork \/ ForkConfigOnly

Symmetry == Permutations(Values)

Spec == Init /\ [][Next]_vars

-----------------------------------------------------------------------------
(* Properties *)

\* The streams requests are made from now: the conversation's next one; those of
\* the inquiries of its calls, whatever they leave out; and those of summaries,
\* which nothing repairs, where the stream needs no repair.
Lengths == 0..Cardinality(Conversation(stream)) + 1
Requests ==
  CASE phase = "request" -> {Sanitized(stream)}
    [] Running -> {InquiryStream(stream, id, k, clock) : id \in Unanswered, k \in Lengths}
    [] Idle /\ Sanitized(stream) = stream -> {SummaryStream(stream, r, clock) : r \in Ranges(stream)}
    [] OTHER -> {}

\* What a provider accepts: the user speaks first, and every call is followed
\* by its one result before the user speaks again.
Accepted(v) ==
  LET asks == Where(v, {"ask"})
      pairs(i, j) == i < j /\ v[i].id = v[j].id /\ ~\E a \in asks : a \in i..j
  IN  /\ v # <<>> => v[1].kind = "ask"
      /\ \A i \in Where(v, {"call"}) : Cardinality({j \in Where(v, {"result"}) : pairs(i, j)}) = 1
      /\ \A j \in Where(v, {"result"}) : Cardinality({i \in Where(v, {"call"}) : pairs(i, j)}) = 1

\* Every request is one a provider accepts, after whatever a turn that died, a
\* replay, a filter, a compaction or the truncation of an inquiry has left of
\* the stream: what sanitize is there to restore, in every turn that can be
\* summarized alone.
RequestsAccepted == \A s \in Requests : Accepted(Sent(s))

\* What the view replaces by a summary is what the summary was made from.
Faithful(s) ==
  \A i \in Conversation(s) \ Where(s, {"turn"}) :
    LET o == SummaryOf(s, TurnOf(s, i)) IN o # 0 => s[i].n \in s[o].of

\* No request hides an event behind a summary that does not tell of it, as the
\* comment on retain promises: what moves a turn or takes something out of it
\* drops the overlays that reach that turn.
HiddenIsSummarized == \A s \in Requests : Faithful(s)

\* The same as far as turns were only ever removed by retain, and of the
\* filters of a fork, by time or by turns: retain drops every overlay it has to drop.
SummariesFit ==
  ~moved => /\ ~Displaced(stream, Sanitized(stream)) => HiddenIsSummarized
            /\ Idle => \A filtered \in Filtered : Faithful(filtered)

\* A later summary does not cut an earlier one: extend_summary_range grows it
\* over all it touches, those the same command has just made among them, so
\* that no turn is left to half a summary.
SummariesNest ==
  LET summaries == {i \in Overlays(stream) : "summary" \in stream[i].policy}
      disjoint(i, j) == stream[i].to < stream[j].from \/ stream[j].to < stream[i].from
  IN  \A i, j \in summaries :
        i < j => \/ disjoint(i, j)
                 \/ stream[j].from <= stream[i].from /\ stream[i].to <= stream[j].to

\* The turns of the view stand for the turns of the stream, in order, each for
\* its own and all of them once: the numbers the turns of a compacted
\* conversation are shown with.
OriginsPartition ==
  LET o == Origins(Projected(stream))
  IN  /\ o = <<>> <=> TurnCount(stream) = 0
      /\ o # <<>> => o[1].from = 0 /\ o[Len(o)].to = TurnCount(stream) - 1
      /\ \A k \in 1..Len(o) - 1 : o[k + 1].from = o[k].to + 1

\* A fork, read event by event into a new stream, has each event under the
\* configuration it was made under, wherever the deltas stood.
Configured(s) ==
  Pick([i \in DOMAIN s |-> [event |-> s[i], config |-> ConfigAt(base, s, i)]], Conversation(s))
ForkKeepsConfig ==
  Idle => \A copy \in Copies : Configured(Extended(base, copy)) = Configured(copy)
================================================================================
