------------------------------ MODULE EventStream ------------------------------
(***************************************************************************)
(* The edits of a conversation's event stream, as operators on sequences:  *)
(* crates/jp_conversation/src/stream.rs with turn_mut.rs, turn_iter.rs and *)
(* projection.rs, and crates/jp_conversation/src/compaction.rs.            *)
(*                                                                         *)
(* An event is a record.  Its stamp n is the time it was made at and the   *)
(* only trace of its content; calls, results and inquiries have the id of  *)
(* their call, a configuration delta the value it sets, an overlay         *)
(* (Compaction) its turns, the set of its policies and, as history, the    *)
(* stamps of what its summary was made from.  Turns are numbered from 0,   *)
(* as in the source; positions in a sequence from 1.                       *)
(*                                                                         *)
(* Left out: the text of events, metadata, and events of a newer version   *)
(* (Unknown), which every edit treats like a configuration delta.          *)
(***************************************************************************)
EXTENDS Naturals, Sequences, FiniteSets, SequencesExt, FiniteSetsExt, Selection

Turn(n) == [kind |-> "turn", n |-> n]
Ask(n) == [kind |-> "ask", n |-> n]
Told(kind, n) == [kind |-> kind, n |-> n]
Paired(kind, id, n) == [kind |-> kind, id |-> id, n |-> n]
Delta(value, n) == [kind |-> "config", value |-> value, n |-> n]
Overlay(range, policy, of, n) ==
  [kind |-> "overlay", from |-> range.from, to |-> range.to, policy |-> policy, of |-> of, n |-> n]

-----------------------------------------------------------------------------
(* Positions and turns *)

\* What belongs to the conversation as a whole and survives pruning.
IsGlobal(e) == e.kind \in {"config", "overlay"}

Where(s, kinds) == {i \in DOMAIN s : s[i].kind \in kinds}
Overlays(s) == Where(s, {"overlay"})
Conversation(s) == {i \in DOMAIN s : ~IsGlobal(s[i])}
FirstOf(S) == IF S = {} THEN 0 ELSE Min(S)
LastOf(S) == IF S = {} THEN 0 ELSE Max(S)

\* A TurnStart opens a turn only behind a conversation event.
TurnOf(s, i) ==
  LET first == FirstOf(Conversation(s))
  IN  Cardinality({j \in first + 1 .. i : s[j].kind = "turn"})
TurnCount(s) == IF Conversation(s) = {} THEN 0 ELSE TurnOf(s, Len(s)) + 1
TurnEvents(s, t) == {i \in Conversation(s) : TurnOf(s, i) = t}

\* The configuration at position i: the base with the deltas up to there.
ConfigAt(base, s, i) ==
  LET set == {j \in 1 .. i : s[j].kind = "config"}
  IN  IF set = {} THEN base ELSE s[Max(set)].value

-----------------------------------------------------------------------------
(* Edits *)

WithDelta(base, s, value, n) ==
  IF ConfigAt(base, s, Len(s)) = value THEN s ELSE Append(s, Delta(value, n))

StartTurn(s, n) == s \o <<Turn(n), Ask(n)>>

\* The events of the current turn, and the validation of TurnMut::build.
CurrentTurn(s) == SubSeq(s, LastOf(Where(s, {"turn"})) + 1, Len(s))
Count(s, kind, id) == Cardinality({i \in Where(s, {kind}) : s[i].id = id})
Answerable(s, request, response, id) ==
  Count(CurrentTurn(s), response, id) < Count(CurrentTurn(s), request, id)

\* pop_while(is_chat_response): what is popped lies behind every other event.
ResponsesPopped(s) ==
  LET stop == LastOf(Conversation(s) \ Where(s, {"say", "think"}))
  IN  Pick(s, {i \in DOMAIN s : IsGlobal(s[i]) \/ i <= stop})

ChatRequestTrimmed(s) ==
  Pick(s, {i \in DOMAIN s : IsGlobal(s[i]) \/ i < LastOf(Where(s, {"ask"}))})
EndsInRequest(s) == LastOf(Conversation(s)) \in Where(s, {"ask"})
RequestPopped(s) == IF EndsInRequest(s) THEN Pick(s, DOMAIN s \ {LastOf(Conversation(s))}) ELSE s

TrailingTurnTrimmed(s) ==
  Pick(s, DOMAIN s \ ({LastOf(Conversation(s))} \cap Where(s, {"turn"})))

\* The deferred removal of a replay.
Trimmed(s, trim) ==
  CASE trim = "replay_turn" -> TrailingTurnTrimmed(ChatRequestTrimmed(s))
    [] trim = "pop_request" -> TrailingTurnTrimmed(RequestPopped(s))
    [] OTHER                -> s

\* As it would be without the overlays being looked at.
RetainedBlindly(s, kept) == Pick(s, {i \in DOMAIN s : IsGlobal(s[i]) \/ i \in kept})

\* retain: an overlay that reaches the first turn something is removed from goes.
Retained(s, kept) ==
  LET removed == Conversation(s) \ kept
      first == TurnOf(s, Min(removed))
      gone == removed \cup {i \in Overlays(s) : s[i].to >= first}
  IN  IF removed = {} THEN s ELSE Pick(s, DOMAIN s \ gone)

\* retain_first_turns, retain_last_turns and retain_first_and_last_turns count
\* the TurnStarts, of which a stream that has events has one here.
StartsSeen(s, i) == Cardinality({j \in 1 .. i : s[j].kind = "turn"})
FirstAndLastTurns(s, first, last) ==
  LET starts == Cardinality(Where(s, {"turn"}))
      keeps(seen) == seen \in 1..first \/ seen + last > starts
  IN  IF first + last >= starts THEN s
      ELSE Retained(s, {i \in DOMAIN s : keeps(StartsSeen(s, i))})

\* As it would be with the tail read once, before the first event.
ExtendedWithStaleTail(base, s) ==
  LET delta(i) == IF ConfigAt(base, s, i) = base THEN <<>> ELSE <<Delta(ConfigAt(base, s, i), s[i].n)>>
  IN  FlattenSeq([i \in DOMAIN s |-> IF i \in Conversation(s) THEN delta(i) \o <<s[i]>> ELSE <<>>])

\* Extend: configurations are compared, and written as deltas where they
\* differ.  Overlays and deltas behind the last event are not iterated.
Extended(base, s) ==
  LET current(i) == ConfigAt(base, s, i)
      delta(done, i) == IF done.tail = current(i) THEN <<>> ELSE <<Delta(current(i), s[i].n)>>
      step(done, i) ==
        IF i \in Conversation(s)
          THEN [events |-> done.events \o delta(done, i) \o <<s[i]>>, tail |-> current(i)]
          ELSE done
      upto[i \in 0..Len(s)] ==
        IF i = 0 THEN [events |-> <<>>, tail |-> base] ELSE step(upto[i - 1], i)
  IN  upto[Len(s)].events

-----------------------------------------------------------------------------
(* sanitize *)

Ids(s, kind) == {s[i].id : i \in Where(s, {kind})}

LeadingDropped(s) ==
  LET ask == FirstOf(Where(s, {"ask"}))
  IN  Pick(s, {i \in DOMAIN s : i >= ask \/ IsGlobal(s[i]) \/ s[i].kind = "turn"})

OrphansRemoved(s, kind, partner) ==
  Pick(s, {i \in DOMAIN s : s[i].kind = kind => s[i].id \in Ids(s, partner)})

CallsAnswered(s) ==
  LET open(e) == e.kind = "call" /\ e.id \notin Ids(s, "result")
  IN  FlattenSeq([i \in DOMAIN s |->
        IF open(s[i]) THEN <<s[i], Paired("result", s[i].id, s[i].n)>> ELSE <<s[i]>>])

\* Of the TurnStarts before the first request the last one stays; without one
\* before it, or without a request, one is inserted.
TurnStartsNormalized(s) ==
  LET ask == FirstOf(Where(s, {"ask"}))
      leading == {i \in Where(s, {"turn"}) : i < ask}
      collapsed == Pick(s, DOMAIN s \ (leading \ {LastOf(leading)}))
      place == IF ask = 0 THEN 1 ELSE ask
      stamp == IF IsGlobal(s[place]) THEN 0 ELSE s[place].n
  IN  CASE Conversation(s) = Where(s, {"turn"}) -> s
        [] leading # {}                         -> collapsed
        [] OTHER                                -> InsertAt(s, place, Turn(stamp))

Sanitized(s) ==
  LET paired == OrphansRemoved(LeadingDropped(s), "result", "call")
      told == OrphansRemoved(CallsAnswered(paired), "answer", "question")
  IN  TurnStartsNormalized(TrailingTurnTrimmed(OrphansRemoved(told, "question", "answer")))

-----------------------------------------------------------------------------
(* Compaction *)

\* As they would be without the check that a range is not inverted.
UncheckedRanges(s) == [from : 0..TurnCount(s), to : 0..TurnCount(s)]

\* What resolve_range can return, and the growth of a summary's range over
\* the summaries it touches, until it touches no other.
Ranges(s) ==
  LET turns == TurnCount(s)
  IN  {r \in UncheckedRanges(s) : r.from <= r.to /\ r.to < turns}

\* As it would be if a range grew only over the summaries that reach out of it
\* to the left.
TouchedFromTheLeft(s, r) ==
  {i \in Overlays(s) : "summary" \in s[i].policy /\ r.from \in s[i].from..s[i].to}

Touched(s, r) ==
  {i \in Overlays(s) : "summary" \in s[i].policy /\ r.from <= s[i].to /\ s[i].from <= r.to}
Grown(s, r) ==
  [from |-> Min({r.from} \cup {s[i].from : i \in Touched(s, r)}),
   to   |-> Max({r.to} \cup {s[i].to : i \in Touched(s, r)})]
SummaryRange(s, range) ==
  LET most == Cardinality(Overlays(s))
      grown[k \in 0..most] == IF k = 0 THEN range ELSE Grown(s, grown[k - 1])
  IN  grown[most]

\* What is in a range of turns: the summary is made from it.
Stamps(s, from, to) ==
  {s[i].n : i \in {j \in Conversation(s) \ Where(s, {"turn"}) : TurnOf(s, j) \in from..to}}

\* The request a summary is made by: the events of the range, as they are, and
\* the instruction as a turn of its own.
SummaryStream(s, range, n) ==
  StartTurn(Pick(s, {i \in Conversation(s) : TurnOf(s, i) \in range.from..range.to}), n)

\* build_compaction_events: ranges come from the stream as it was, the growth
\* also sees the overlays the command has made so far.
Compacted(s, rules, n) ==
  LET range(before, rule) ==
        IF "summary" \in rule.policy THEN SummaryRange(before, rule.range) ELSE rule.range
      add(before, rule) ==
        Append(before, Overlay(range(before, rule), rule.policy,
                               Stamps(s, range(before, rule).from, range(before, rule).to), n))
      upto[k \in 0..Len(rules)] == IF k = 0 THEN s ELSE add(upto[k - 1], rules[k])
  IN  upto[Len(rules)]

-----------------------------------------------------------------------------
(* Projection *)

\* The overlay that decides about turn t: the latest, of equals the last.
Governing(s, t, policies) ==
  LET known == {i \in Overlays(s) : t \in s[i].from..s[i].to /\ s[i].policy \cap policies # {}}
      later(i, j) == s[i].n > s[j].n \/ (s[i].n = s[j].n /\ i >= j)
  IN  IF known = {} THEN 0 ELSE CHOOSE i \in known : \A j \in known : later(i, j)
SummaryOf(s, t) == Governing(s, t, {"summary"})
ReasoningOf(s, t) == Governing(s, t, {"reasoning"})
ToolsOf(s, t) == Governing(s, t, {"strip", "omit"})

Kept(t) == [from |-> t, to |-> t]

\* As it would be if every summarized turn were shown as a turn of its own.
OneTurn(s, t) == Kept(t)

\* The turns from t on that have the summary of t.
Run(s, t) ==
  [from |-> t,
   to   |-> CHOOSE u \in t..TurnCount(s) - 1 :
              /\ \A v \in t..u : SummaryOf(s, v) = SummaryOf(s, t)
              /\ SummaryOf(s, u + 1) # SummaryOf(s, t) \/ u = TurnCount(s) - 1]

\* The synthetic turn a summary is shown as.  The stamp names the overlay it is
\* from; the program gives it the time of the first event it replaces.
SummaryTurn(s, t) ==
  LET told == s[SummaryOf(s, t)].n
      show(e) == [event |-> e, origin |-> Run(s, t)]
  IN  <<show(Turn(told)), show(Ask(told)), show(Told("summary", told))>>

\* What the omission of tool calls hides, and as it would be for calls alone.
IsCall(e) == e.kind = "call"
IsToolEvent(e) == e.kind \in {"call", "result"}

\* What the view has for event i, each with the turns it stands for.
Shown(s, i) ==
  LET t == TurnOf(s, i)
      plain == <<[event |-> s[i], origin |-> Kept(t)]>>
      starts == i = Min(TurnEvents(s, t)) /\ (t = 0 \/ SummaryOf(s, t - 1) # SummaryOf(s, t))
      hidden == \/ s[i].kind = "think" /\ ReasoningOf(s, t) # 0
                \/ IsToolEvent(s[i]) /\ ToolsOf(s, t) # 0 /\ "omit" \in s[ToolsOf(s, t)].policy
  IN  IF s[i].kind = "config" THEN plain
      ELSE IF s[i].kind = "overlay" THEN <<>>
      ELSE IF SummaryOf(s, t) # 0 THEN IF starts THEN SummaryTurn(s, t) ELSE <<>>
      ELSE IF hidden THEN <<>>
      ELSE plain

Projected(s) == FlattenSeq([i \in DOMAIN s |-> Shown(s, i)])

\* One origin for each turn of the view, read from the event that opens it.
Origins(view) ==
  LET events == [i \in DOMAIN view |-> view[i].event]
      opening == Where(events, {"turn"}) \cup {FirstOf(Conversation(events))}
      opened == Pick(view, opening)
  IN  [i \in DOMAIN opened |-> opened[i].origin]

Visible == {"ask", "say", "think", "call", "result", "summary"}

\* What is sent: the projection without what providers do not see.
Sent(s) ==
  LET view == Projected(s)
      events == [i \in DOMAIN view |-> view[i].event]
  IN  Pick(events, Where(events, Visible))

\* The request of an inquiry of call id: a copy of the conversation in which the
\* call is answered as paused, without its oldest dropped events if it is too
\* long, and the question as a turn of its own.
Paused(s, id, n) == Append(s, Paired("result", id, n))
Shortened(s, dropped) ==
  LET late == {i \in Conversation(s) : Cardinality({j \in Conversation(s) : j <= i}) > dropped}
      short == Sanitized(Retained(s, late))
  IN  IF Where(short, {"ask"}) = {} THEN <<>> ELSE short
InquiryStream(s, id, dropped, n) ==
  LET whole == Sanitized(Paused(s, id, n))
  IN  StartTurn(IF dropped = 0 THEN whole ELSE Shortened(whole, dropped), n)
================================================================================
