-------------------------- MODULE StreamSummaries_proofs --------------------------
(***************************************************************************)
(* What a request or a fork replaces by a summary is what the summary was  *)
(* made from, for any values, policies and bounds of ConversationStream,   *)
(* as long as the edits have moved no turn that an overlay covers.         *)
(*                                                                         *)
(* An overlay names turns by number.  Each edit is followed for the number *)
(* an event's turn has after it, and for the overlays that are left.       *)
(***************************************************************************)
EXTENDS ConversationStream_proofs

-----------------------------------------------------------------------------
(* The number of a turn, and what an edit leaves of it.                    *)

LEMMA Paired1to1 ==
  ASSUME NEW S, NEW T, IsFiniteSet(S), NEW f \in [S -> T],
         \A x, y \in S : f[x] = f[y] => x = y, \A z \in T : \E x \in S : f[x] = z
  PROVE  IsFiniteSet(T) /\ Cardinality(T) = Cardinality(S)
<1>1. f \in Bijection(S, T)
  BY DEF Bijection, Injection, IsInjective, Surjection
<1>2. ExistsBijection(S, T)
  BY <1>1 DEF ExistsBijection
<1> QED
  BY <1>2, FS_Bijection

Upto(s, i) == {j \in Turns(s) : j <= i}

LEMMA TurnsFinite ==
  ASSUME NEW s \in Stream
  PROVE  /\ IsFiniteSet(Turns(s)) /\ Cardinality(Turns(s)) \in Nat
         /\ \A i : IsFiniteSet(Upto(s, i)) /\ Cardinality(Upto(s, i)) \in Nat
<1>1. IsFiniteSet(1 .. Len(s))
  <2>1. 1 \in Int /\ Len(s) \in Int
    BY DEF Stream
  <2> QED
    BY <2>1, FS_Interval
<1>2. Turns(s) \subseteq 1 .. Len(s)
  BY Placement
<1>3. IsFiniteSet(Turns(s))
  BY <1>1, <1>2, FS_Subset
<1>4. \A i : Upto(s, i) \subseteq Turns(s)
  BY DEF Upto
<1>5. \A i : IsFiniteSet(Upto(s, i))
  BY <1>3, <1>4, FS_Subset
<1> QED
  BY <1>3, <1>5, FS_CardinalityType

LEMMA TurnsUpto ==
  ASSUME NEW s \in Stream, Started(s), NEW i \in Conversation(s)
  PROVE  /\ TurnOf(s, i) \in Nat /\ TurnOf(s, i) + 1 = Cardinality(Upto(s, i))
         /\ (\A j \in Turns(s) : j <= i) => TurnOf(s, i) + 1 = Cardinality(Turns(s))
<1> DEFINE c == First(s)
           A == Opened(s, i)
<1>1. /\ c \in Turns(s) /\ c \in Nat /\ i \in Nat /\ i \in 0 .. Len(s) /\ Len(s) \in Nat
      /\ \A j \in Conversation(s) : c <= j
  BY TurnPlaces, Placement
<1>2. TurnOf(s, i) = Cardinality(A) /\ IsFiniteSet(A) /\ TurnOf(s, i) \in Nat
  BY <1>1, OpenedFinite
<1>3. \A k : k \in A <=> k \in c + 1 .. i /\ s[k].kind = "turn"
  BY DEF Opened
<1>4. \A k : k \in Turns(s) <=> k \in 1 .. Len(s) /\ s[k].kind = "turn"
  BY Placement, Positions DEF Stream
<1>5. \A k \in Turns(s) : k \in Conversation(s)
  BY Placement
<1> HIDE DEF A, c
<1>6. Upto(s, i) = A \cup {c}
  <2>1. ASSUME NEW k \in Upto(s, i) PROVE k \in A \cup {c}
    <3>1. k \in Turns(s) /\ k <= i
      BY DEF Upto
    <3>2. k \in 1 .. Len(s) /\ s[k].kind = "turn" /\ c <= k
      BY <1>1, <1>4, <1>5, <3>1
    <3>3. k = c \/ k \in c + 1 .. i
      BY <1>1, <3>1, <3>2
    <3> QED
      BY <1>3, <3>2, <3>3
  <2>2. ASSUME NEW k \in A PROVE k \in Upto(s, i)
    <3>1. k \in c + 1 .. i /\ s[k].kind = "turn"
      BY <1>3
    <3>2. c \in 1 .. Len(s)
      BY <1>1, <1>4
    <3>3. k \in 1 .. Len(s) /\ k <= i
      BY <1>1, <3>1, <3>2
    <3> QED
      BY <1>4, <3>1, <3>3 DEF Upto
  <2>3. c \in Upto(s, i)
    BY <1>1 DEF Upto
  <2> QED
    BY <2>1, <2>2, <2>3
<1>7. c \notin A
  BY <1>1, <1>3
<1>8. Cardinality(Upto(s, i)) = Cardinality(A) + 1
  BY <1>2, <1>6, <1>7, FS_AddElement
<1>9. ASSUME \A j \in Turns(s) : j <= i PROVE Upto(s, i) = Turns(s)
  BY <1>9 DEF Upto
<1> QED
  BY <1>2, <1>8, <1>9

LEMMA CountKept ==
  ASSUME NEW s \in Stream, NEW t \in Stream, NEW K, NEW m, Embeds(m, s, K, t),
         NEW i \in K, \A j \in Turns(s) : j <= i => j \in K,
         \A p \in Added(m, K, t) \cap Turns(t) : ~(p <= m[i])
  PROVE  Cardinality(Upto(t, m[i])) = Cardinality(Upto(s, i))
<1> DEFINE f == [j \in Upto(s, i) |-> m[j]]
<1>1. \A j \in Upto(s, i) : j \in K /\ j \in Turns(s) /\ j <= i
  BY DEF Upto
<1>2. \A j \in Upto(s, i) : m[j] \in Upto(t, m[i])
  <2>1. ASSUME NEW j \in Upto(s, i) PROVE m[j] \in Turns(t) /\ m[j] <= m[i]
    BY <1>1, EmbeddedKinds, EmbeddedOrder
  <2> QED
    BY <2>1 DEF Upto
<1>3. f \in [Upto(s, i) -> Upto(t, m[i])]
  BY <1>2
<1>4. \A x, y \in Upto(s, i) : f[x] = f[y] => x = y
  BY <1>1, EmbeddedOrder
<1>5. ASSUME NEW z \in Upto(t, m[i]) PROVE \E x \in Upto(s, i) : f[x] = z
  <2>1. z \in Turns(t) /\ z <= m[i] /\ z \in DOMAIN t
    BY Placement DEF Upto
  <2>2. PICK x \in K : m[x] = z
    BY <2>1, EmbeddedKinds
  <2>3. x \in Turns(s) /\ x <= i
    BY <2>1, <2>2, EmbeddedKinds, EmbeddedOrder
  <2> QED
    BY <2>2, <2>3 DEF Upto
<1>6. IsFiniteSet(Upto(s, i))
  BY TurnsFinite
<1> HIDE DEF f
<1> QED
  BY <1>3, <1>4, <1>5, <1>6, Paired1to1

\* An event keeps its turn's number while the TurnStarts up to it stay.
LEMMA TurnKept ==
  ASSUME NEW s \in Stream, NEW t \in Stream, NEW K, NEW m, Embeds(m, s, K, t), Started(s), Started(t),
         NEW i \in K, i \in Conversation(s), \A j \in Turns(s) : j <= i => j \in K,
         \A p \in Added(m, K, t) \cap Turns(t) : ~(p <= m[i])
  PROVE  TurnOf(t, m[i]) = TurnOf(s, i)
<1>1. m[i] \in Conversation(t)
  BY EmbeddedKinds
<1>2. TurnOf(s, i) \in Nat /\ TurnOf(s, i) + 1 = Cardinality(Upto(s, i))
  BY TurnsUpto
<1>3. TurnOf(t, m[i]) \in Nat /\ TurnOf(t, m[i]) + 1 = Cardinality(Upto(t, m[i]))
  BY <1>1, TurnsUpto
<1>4. Cardinality(Upto(t, m[i])) = Cardinality(Upto(s, i))
  BY CountKept
<1> QED
  BY <1>2, <1>3, <1>4

-----------------------------------------------------------------------------
(* What summaries are made from.                                           *)

Covers(s, o, i) == "summary" \in s[o].policy /\ TurnOf(s, i) \in s[o].from .. s[o].to

\* A summary was made from everything in its turns.
Faith(s) == \A o \in Overlays(s), i \in Speech(s) : Covers(s, o, i) => s[i].n \in s[o].of

\* There is a latest overlay.
LEMMA GoverningKnown ==
  ASSUME NEW s \in Stream, NEW t, NEW policies, Governing(s, t, policies) # 0
  PROVE  LET o == Governing(s, t, policies) IN
         o \in Overlays(s) /\ t \in s[o].from .. s[o].to /\ s[o].policy \cap policies # {}
<1> DEFINE known == {i \in Overlays(s) : t \in s[i].from..s[i].to /\ s[i].policy \cap policies # {}}
           later(i, j) == s[i].n > s[j].n \/ (s[i].n = s[j].n /\ i >= j)
           stamps == {s[i].n : i \in known}
           top == Max(stamps)
           equals == {i \in known : s[i].n = top}
<1>1. Governing(s, t, policies) = IF known = {} THEN 0 ELSE CHOOSE i \in known : \A j \in known : later(i, j)
  BY DEF Governing
<1>2. known # {}
  BY <1>1
<1>3. \A i \in known : i \in 1 .. Len(s) /\ i \in Nat /\ s[i].n \in Nat /\ i \in Overlays(s)
  <2>1. ASSUME NEW i \in known PROVE i \in 1 .. Len(s) /\ i \in Nat /\ s[i].n \in Nat /\ i \in Overlays(s)
    <3>1. i \in Overlays(s)
      OBVIOUS
    <3>2. i \in DOMAIN s /\ s[i] \in Event
      BY <3>1, OverlayFacts
    <3>3. i \in 1 .. Len(s)
      BY <3>2, Positions DEF Stream
    <3> QED
      BY <3>1, <3>2, <3>3, EventFacts
  <2> QED
    BY <2>1
<1> HIDE DEF known
<1>4. Len(s) \in Nat
  BY Positions DEF Stream
<1>5. PICK b \in Nat : \A y \in stamps : y <= b
  <2> DEFINE f == [i \in 1 .. Len(s) |-> IF i \in known THEN s[i].n ELSE 0]
  <2>1. \A i \in 1 .. Len(s) : f[i] \in Nat
    BY <1>3
  <2> HIDE DEF f
  <2>2. PICK a \in Nat : \A i \in 1 .. Len(s) : f[i] <= a
    BY <1>4, <2>1, BoundedValues
  <2> USE DEF f
  <2>3. \A i \in known : s[i].n <= a
    BY <1>3, <2>2
  <2> QED
    BY <2>3
<1>6. stamps \subseteq Nat /\ stamps # {}
  BY <1>2, <1>3
<1>7. top \in stamps /\ \A y \in stamps : y <= top
  <2> HIDE DEF stamps
  <2> QED
    BY <1>5, <1>6, GreatestNat
<1>8. top \in Nat /\ equals # {} /\ \A i \in known : s[i].n <= top
  BY <1>6, <1>7
<1> HIDE DEF top, stamps
<1>9. equals \subseteq 1 .. Len(s)
  BY <1>3
<1> DEFINE o == LastOf(equals)
<1>10. o \in equals /\ \A i \in equals : i <= o
  BY <1>4, <1>8, <1>9, LastAmong
<1> HIDE DEF o
<1>11. ASSUME NEW j \in known PROVE later(o, j)
  BY <1>3, <1>8, <1>10
<1>12. o \in known
  BY <1>10
<1> HIDE DEF later
<1>13. Governing(s, t, policies) \in known
  BY <1>1, <1>2, <1>11, <1>12
<1> QED
  BY <1>13 DEF known

LEMMA FaithFaithful ==
  ASSUME NEW s \in Stream, Faith(s)
  PROVE  Faithful(s)
<1> SUFFICES ASSUME NEW i \in Speech(s), SummaryOf(s, TurnOf(s, i)) # 0
             PROVE  s[i].n \in s[SummaryOf(s, TurnOf(s, i))].of
  BY DEF Faithful, Speech, Turns
<1> DEFINE o == SummaryOf(s, TurnOf(s, i))
<1>1. o \in Overlays(s) /\ TurnOf(s, i) \in s[o].from .. s[o].to /\ s[o].policy \cap {"summary"} # {}
  BY GoverningKnown DEF SummaryOf
<1>2. "summary" \in s[o].policy
  BY <1>1
<1> QED
  BY <1>1, <1>2 DEF Faith, Covers

LEMMA UnsummarizedFaith == ASSUME NEW s, Overlays(s) = {} PROVE Faith(s)
BY DEF Faith

LEMMA OverlayPlaces ==
  ASSUME NEW s \in Stream
  PROVE  \A i : i \in Overlays(s) <=> i \in DOMAIN s /\ s[i].kind = "overlay"
BY DEF Overlays, Where

\* The overlays are those there were.
Owned(s, t) == \A o \in Overlays(t) : \E q \in Overlays(s) : t[o] = s[q]

LEMMA OwnedKept ==
  ASSUME NEW s \in Stream, NEW t \in Stream, NEW K, NEW m, Embeds(m, s, K, t),
         Added(m, K, t) \cap Overlays(t) = {}
  PROVE  Owned(s, t)
<1> SUFFICES ASSUME NEW o \in Overlays(t) PROVE \E q \in Overlays(s) : t[o] = s[q]
  BY DEF Owned
<1>1. o \in DOMAIN t /\ o \notin Added(m, K, t)
  BY OverlayFacts
<1>2. PICK q \in K : m[q] = o
  BY <1>1, EmbeddedKinds
<1> QED
  BY <1>2, EmbeddedKinds DEF Overlays

LEMMA OwnedThrough ==
  ASSUME NEW s, NEW r, NEW t, Owned(s, r), Owned(r, t)
  PROVE  Owned(s, t) /\ (Overlays(s) = {} => Overlays(t) = {})
BY DEF Owned

LEMMA OwnedPick == ASSUME NEW s \in Stream, NEW K, K \subseteq DOMAIN s PROVE Owned(s, Pick(s, K))
BY PickOf, OwnedKept

\* The TurnStarts up to what is kept of the conversation.
Rooted(K, s) == \A i \in K \cap Conversation(s), j \in Turns(s) : j <= i => j \in K

\* What an edit leaves in its turn, a summary still tells of.
LEMMA FaithKept ==
  ASSUME NEW s \in Stream, NEW t \in Stream, NEW K, NEW m, Embeds(m, s, K, t), Started(s), Started(t),
         Owned(s, t), Rooted(K, s), Faith(s),
         \A p \in Added(m, K, t) \cap Turns(t), i \in K \cap Conversation(s) : ~(p <= m[i]),
         \A p \in Added(m, K, t) \cap Speech(t), o \in Overlays(t) : Covers(t, o, p) => t[p].n \in t[o].of
  PROVE  Faith(t)
<1> SUFFICES ASSUME NEW o \in Overlays(t), NEW p \in Speech(t), Covers(t, o, p) PROVE t[p].n \in t[o].of
  BY DEF Faith
<1>1. CASE p \in Added(m, K, t)
  BY <1>1
<1>2. CASE p \notin Added(m, K, t)
  <2>1. p \in DOMAIN t /\ o \in DOMAIN t
    BY SpeechPlaces, OverlayFacts
  <2>2. PICK i \in K : m[i] = p
    BY <1>2, <2>1, EmbeddedKinds
  <2>3. PICK q \in Overlays(s) : t[o] = s[q]
    BY DEF Owned
  <2>4. i \in Speech(s)
    BY <2>2, EmbeddedSpeech
  <2>5. i \in Conversation(s)
    BY <2>4, SpeechPlaces
  <2>7. t[p] = s[i] /\ t[o] = s[q]
    BY <2>2, <2>3, EmbeddedKinds
  <2>8. TurnOf(t, m[i]) = TurnOf(s, i)
    <3>1. \A j \in Turns(s) : j <= i => j \in K
      BY <2>5 DEF Rooted
    <3>2. \A x \in Added(m, K, t) \cap Turns(t) : ~(x <= m[i])
      BY <2>5
    <3> QED
      BY <2>5, <3>1, <3>2, TurnKept
  <2>9. Covers(s, q, i)
    BY <2>2, <2>7, <2>8 DEF Covers
  <2> QED
    BY <2>3, <2>4, <2>7, <2>9 DEF Faith
<1> QED
  BY <1>1, <1>2

\* So does what is behind every summarized turn.
LEMMA FaithAppended ==
  ASSUME NEW s \in Stream, NEW u \in Stream, Started(s), Started(s \o u), Faith(s),
         \A q \in DOMAIN u : u[q].kind \notin {"overlay", "turn"},
         \A o \in Overlays(s) : s[o].to + 1 < Cardinality(Turns(s))
  PROVE  Faith(s \o u) /\ Cardinality(Turns(s \o u)) = Cardinality(Turns(s))
<1> DEFINE t == s \o u
           m == [i \in DOMAIN s |-> i]
<1>1. /\ t \in Stream /\ Embeds(m, s, DOMAIN s, t)
      /\ \A p \in Added(m, DOMAIN s, t) : p - Len(s) \in DOMAIN u /\ p \in Len(s) + 1 .. Len(s) + Len(u)
                                          /\ t[p] = u[p - Len(s)]
  BY ConcatEmbeds
<1>2. \A i \in DOMAIN s : m[i] = i /\ i <= Len(s) /\ i \in Nat /\ i \in DOMAIN t /\ t[i] = s[i]
  BY AppendedAt, Positions DEF Stream
<1>3. Len(s) \in Nat /\ Len(u) \in Nat
  BY Positions DEF Stream
<1> HIDE DEF t, m
<1>4. Added(m, DOMAIN s, t) \cap (Turns(t) \cup Overlays(t)) = {}
  BY <1>1, Placement, OverlayPlaces
<1>5. Turns(t) = Turns(s)
  <2>1. \A i \in Turns(t) : i \in DOMAIN s /\ i \in Turns(s)
    <3> SUFFICES ASSUME NEW i \in Turns(t) PROVE i \in DOMAIN s /\ i \in Turns(s)
      OBVIOUS
    <3>1. i \in DOMAIN t /\ i \notin Added(m, DOMAIN s, t)
      BY <1>1, <1>4, Placement
    <3>2. PICK j \in DOMAIN s : m[j] = i
      BY <1>1, <3>1, EmbeddedKinds
    <3> QED
      BY <1>1, <1>2, <3>2, EmbeddedKinds
  <2>2. \A i \in Turns(s) : i \in Turns(t)
    BY <1>1, <1>2, EmbeddedKinds, Placement
  <2> QED
    BY <2>1, <2>2
<1>6. ASSUME NEW p \in Added(m, DOMAIN s, t) \cap Speech(t), NEW o \in Overlays(t), Covers(t, o, p)
      PROVE  FALSE
  <2>1. p \in Conversation(t) /\ p \in Nat /\ p > Len(s)
    BY <1>1, <1>3, <1>6, SpeechPlaces
  <2>2. \A j \in Turns(t) : j <= p
    <3>1. \A j \in Turns(t) : j \in Nat /\ j <= Len(s)
      BY <1>2, <1>5, Placement
    <3> QED
      BY <1>3, <2>1, <3>1
  <2>3. TurnOf(t, p) \in Nat /\ TurnOf(t, p) + 1 = Cardinality(Turns(s))
    <3>1. Started(t)
      BY DEF t
    <3> QED
      BY <1>1, <1>5, <2>1, <2>2, <3>1, TurnsUpto
  <2>4. o \in DOMAIN t /\ o \notin Added(m, DOMAIN s, t)
    BY <1>1, <1>4, OverlayFacts
  <2>5. PICK q \in DOMAIN s : m[q] = o
    BY <1>1, <2>4, EmbeddedKinds
  <2>6. q \in Overlays(s) /\ t[o] = s[q]
    BY <1>1, <2>5, EmbeddedKinds DEF Overlays
  <2>7. s[q].from \in Nat /\ s[q].to \in Nat /\ s[q].to + 1 < Cardinality(Turns(s))
    BY <2>6, OverlayFacts
  <2>8. Cardinality(Turns(s)) \in Nat
    BY TurnsFinite
  <2>9. TurnOf(t, p) \in s[q].from .. s[q].to
    BY <1>6, <2>6 DEF Covers
  <2> QED
    BY <2>3, <2>7, <2>8, <2>9
<1>7. Rooted(DOMAIN s, s)
  BY Placement DEF Rooted
<1>8. Faith(t)
  <2>1. Started(t)
    BY DEF t
  <2> QED
    BY <1>1, <1>4, <1>6, <1>7, <2>1, OwnedKept, FaithKept
<1> QED
  BY <1>5, <1>8 DEF t

\* No overlay reaches the last n turns.
Behind(s, n) == \A o \in Overlays(s) : s[o].to + n < Cardinality(Turns(s))

LEMMA FaithStartTurn ==
  ASSUME NEW s \in Stream, NEW n \in Nat, Started(s), Started(StartTurn(s, n)), Faith(s), Behind(s, 0)
  PROVE  Faith(StartTurn(s, n)) /\ Behind(StartTurn(s, n), 1)
<1> DEFINE u == <<Turn(n), Ask(n)>>
           t == s \o u
           m == [i \in DOMAIN s |-> i]
           c == Cardinality(Turns(s))
<1>1. StartTurn(s, n) = t
  BY DEF StartTurn
<1>2. /\ u \in Stream /\ u[1] = Turn(n) /\ u[2] = Ask(n) /\ Len(u) = 2 /\ DOMAIN u = {1, 2}
      /\ u[1].kind = "turn" /\ u[2].kind = "ask"
  BY NewEvents DEF Stream, Turn, Ask
<1>3. Started(t)
  BY <1>1
<1> HIDE DEF u
<1>4. /\ t \in Stream /\ Embeds(m, s, DOMAIN s, t)
      /\ \A p \in Added(m, DOMAIN s, t) : p - Len(s) \in DOMAIN u /\ p \in Len(s) + 1 .. Len(s) + Len(u)
                                          /\ t[p] = u[p - Len(s)]
  BY <1>2, ConcatEmbeds
<1>5. \A i \in DOMAIN s : m[i] = i /\ i <= Len(s) /\ i \in Nat /\ i \in DOMAIN t /\ t[i] = s[i]
  BY <1>2, AppendedAt, Positions DEF Stream
<1>6. Len(s) \in Nat /\ Len(s) + 1 \in DOMAIN t /\ Len(s) + 2 \in DOMAIN t
      /\ t[Len(s) + 1].kind = "turn" /\ t[Len(s) + 2].kind = "ask"
  BY <1>2, AppendedAt, Positions DEF Stream
<1> HIDE DEF t, m
<1>7. \A p \in Added(m, DOMAIN s, t) : p = Len(s) + 1 \/ p = Len(s) + 2
  BY <1>2, <1>4, <1>6
<1>8. Turns(t) = Turns(s) \cup {Len(s) + 1} /\ Len(s) + 1 \notin Turns(s)
  <2>1. ASSUME NEW i \in Turns(t) PROVE i \in Turns(s) \cup {Len(s) + 1}
    <3>1. i \in DOMAIN t /\ t[i].kind = "turn"
      BY <1>4, Placement
    <3>2. CASE i \in Added(m, DOMAIN s, t)
      <4>1. i # Len(s) + 2
        BY <1>6, <3>1
      <4> QED
        BY <1>7, <3>2, <4>1
    <3>3. CASE i \notin Added(m, DOMAIN s, t)
      <4>1. PICK j \in DOMAIN s : m[j] = i
        BY <1>4, <3>1, <3>3, EmbeddedKinds
      <4> QED
        BY <1>4, <1>5, <4>1, EmbeddedKinds
    <3> QED
      BY <3>2, <3>3
  <2>2. \A i \in Turns(s) : i \in Turns(t)
    BY <1>4, <1>5, EmbeddedKinds, Placement
  <2>3. Len(s) + 1 \in Turns(t)
    BY <1>4, <1>6, Placement
  <2>4. Len(s) + 1 \notin Turns(s)
    <3>1. \A i \in Turns(s) : i <= Len(s)
      BY <1>5, Placement
    <3> QED
      BY <1>6, <3>1
  <2> QED
    BY <2>1, <2>2, <2>3, <2>4
<1>9. c \in Nat /\ Cardinality(Turns(t)) = c + 1
  BY <1>8, TurnsFinite, FS_AddElement
<1>10. ASSUME NEW o \in Overlays(t) PROVE \E q \in Overlays(s) : t[o] = s[q]
  <2>1. o \in DOMAIN t /\ t[o].kind = "overlay"
    BY <1>4, OverlayPlaces
  <2>2. o \notin Added(m, DOMAIN s, t)
    BY <1>6, <1>7, <2>1
  <2>3. PICK q \in DOMAIN s : m[q] = o
    BY <1>4, <2>1, <2>2, EmbeddedKinds
  <2> QED
    BY <1>4, <2>3, EmbeddedKinds DEF Overlays
<1>11. \A o \in Overlays(t) : t[o].from \in Nat /\ t[o].to \in Nat /\ t[o].to < c
  <2>1. \A o \in Overlays(t) : t[o].from \in Nat /\ t[o].to \in Nat
    BY <1>4, OverlayFacts
  <2> HIDE DEF c
  <2>2. \A q \in Overlays(s) : s[q].to \in Nat /\ s[q].to + 0 < c
    BY OverlayFacts DEF Behind, c
  <2> QED
    BY <1>10, <2>1, <2>2
<1> HIDE DEF c
<1>12. ASSUME NEW p \in Added(m, DOMAIN s, t) \cap Speech(t), NEW o \in Overlays(t), Covers(t, o, p)
       PROVE  FALSE
  <2>1. p \in Conversation(t) /\ p \notin Turns(t)
    BY <1>4, SpeechPlaces
  <2>2. p = Len(s) + 2
    BY <1>7, <1>8, <2>1
  <2>3. \A j \in Turns(t) : j <= p
    <3>1. \A j \in Turns(s) : j \in Nat /\ j <= Len(s)
      BY <1>5, Placement
    <3> QED
      BY <1>6, <1>8, <2>2, <3>1
  <2>4. TurnOf(t, p) \in Nat /\ TurnOf(t, p) + 1 = c + 1
    BY <1>3, <1>4, <1>9, <2>1, <2>3, TurnsUpto DEF t
  <2>5. TurnOf(t, p) \in t[o].from .. t[o].to
    BY <1>12 DEF Covers
  <2> QED
    BY <1>9, <1>11, <2>4, <2>5
<1>13. Added(m, DOMAIN s, t) \cap Overlays(t) = {}
  <2>1. \A p \in Overlays(t) : p \in DOMAIN t /\ t[p].kind = "overlay"
    BY <1>4, OverlayPlaces
  <2> QED
    BY <1>6, <1>7, <2>1
<1>14. \A p \in Added(m, DOMAIN s, t) \cap Turns(t), i \in DOMAIN s \cap Conversation(s) : ~(p <= m[i])
  BY <1>5, <1>6, <1>7
<1>15. Rooted(DOMAIN s, s)
  BY Placement DEF Rooted
<1>16. Started(t)
  BY <1>3 DEF t
<1>17. Faith(t)
  BY <1>4, <1>12, <1>13, <1>14, <1>15, <1>16, OwnedKept, FaithKept
<1>18. Behind(t, 1)
  BY <1>9, <1>11 DEF Behind
<1> QED
  BY <1>1, <1>17, <1>18 DEF t

-----------------------------------------------------------------------------
(* Edits that leave every TurnStart and every request.                     *)

Fenced(f, s, t) ==
  /\ f \in [Fences(s) -> Fences(t)]
  /\ \A i, j \in Fences(s) : i < j => f[i] < f[j]
  /\ \A i \in Fences(s) : t[f[i]] = s[i]
  /\ \A q \in Fences(t) : \E i \in Fences(s) : f[i] = q
Carries(s, t) == \E f : Fenced(f, s, t)

LEMMA FencedFacts ==
  ASSUME NEW s \in Stream, NEW t \in Stream, NEW f, Fenced(f, s, t)
  PROVE  /\ \A i \in Fences(s) : f[i] \in Fences(t) /\ t[f[i]] = s[i]
         /\ \A i \in Fences(s) : (i \in Turns(s) <=> f[i] \in Turns(t)) /\ (i \in Asks(s) <=> f[i] \in Asks(t))
         /\ \A i, j \in Fences(s) : (i < j <=> f[i] < f[j]) /\ (i <= j <=> f[i] <= f[j]) /\ (i = j <=> f[i] = f[j])
         /\ \A q \in Fences(t) : \E i \in Fences(s) : f[i] = q
<1>1. \A i \in Fences(s) : f[i] \in Fences(t) /\ t[f[i]] = s[i]
  BY DEF Fenced
<1>2. \A i \in Fences(s) : i \in Nat /\ i \in DOMAIN s
  BY CallPlacement, Placement
<1>3. \A i \in Fences(t) : i \in Nat /\ i \in DOMAIN t
  BY CallPlacement, Placement
<1>4. ASSUME NEW i \in Fences(s), NEW j \in Fences(s)
      PROVE  (i < j <=> f[i] < f[j]) /\ (i <= j <=> f[i] <= f[j]) /\ (i = j <=> f[i] = f[j])
  <2>1. (i < j => f[i] < f[j]) /\ (j < i => f[j] < f[i])
    BY DEF Fenced
  <2>2. i \in Nat /\ j \in Nat /\ f[i] \in Nat /\ f[j] \in Nat
    BY <1>1, <1>2, <1>3
  <2> QED
    BY <2>1, <2>2
<1>5. ASSUME NEW i \in Fences(s)
      PROVE  (i \in Turns(s) <=> f[i] \in Turns(t)) /\ (i \in Asks(s) <=> f[i] \in Asks(t))
  <2>1. f[i] \in DOMAIN t /\ i \in DOMAIN s /\ t[f[i]] = s[i]
    BY <1>1, <1>2, <1>3
  <2> QED
    BY <2>1, Placement
<1> QED
  BY <1>1, <1>4, <1>5 DEF Fenced

LEMMA CarriesKept ==
  ASSUME NEW s \in Stream, NEW t \in Stream, NEW K, NEW m, Embeds(m, s, K, t),
         Fences(s) \subseteq K, Added(m, K, t) \cap Fences(t) = {}
  PROVE  Carries(s, t)
<1> DEFINE f == [i \in Fences(s) |-> m[i]]
<1>1. \A i \in Fences(s) : m[i] \in Fences(t) /\ t[m[i]] = s[i] /\ i \in K
  <2>1. ASSUME NEW i \in Fences(s) PROVE m[i] \in Fences(t) /\ t[m[i]] = s[i]
    <3>1. i \in K
      OBVIOUS
    <3> QED
      BY <3>1, EmbeddedKinds DEF Fences
  <2> QED
    BY <2>1
<1>2. \A i, j \in Fences(s) : i < j => m[i] < m[j]
  BY <1>1 DEF Embeds
<1>3. ASSUME NEW q \in Fences(t) PROVE \E i \in Fences(s) : m[i] = q
  <2>1. q \in DOMAIN t /\ q \notin Added(m, K, t)
    BY CallPlacement
  <2>2. PICK i \in K : m[i] = q
    BY <2>1, EmbeddedKinds
  <2>3. i \in Fences(s)
    BY <2>2, EmbeddedKinds DEF Fences
  <2> QED
    BY <2>2, <2>3
<1>4. Fenced(f, s, t)
  BY <1>1, <1>2, <1>3 DEF Fenced
<1> QED
  BY <1>4 DEF Carries

LEMMA CarriesThrough ==
  ASSUME NEW s \in Stream, NEW r \in Stream, NEW t \in Stream, Carries(s, r), Carries(r, t)
  PROVE  Carries(s, t)
<1>1. PICK f : Fenced(f, s, r)
  BY DEF Carries
<1>2. PICK g : Fenced(g, r, t)
  BY DEF Carries
<1> DEFINE h == [i \in Fences(s) |-> g[f[i]]]
<1>7. \A i \in Fences(s) : f[i] \in Fences(r) /\ r[f[i]] = s[i]
  BY <1>1 DEF Fenced
<1>8. \A i \in Fences(r) : g[i] \in Fences(t) /\ t[g[i]] = r[i]
  BY <1>2 DEF Fenced
<1>3. \A i \in Fences(s) : f[i] \in Fences(r) /\ g[f[i]] \in Fences(t) /\ t[g[f[i]]] = s[i]
  BY <1>7, <1>8
<1>4. \A i, j \in Fences(s) : i < j => g[f[i]] < g[f[j]]
  BY <1>1, <1>2, <1>3 DEF Fenced
<1>5. \A q \in Fences(t) : \E i \in Fences(s) : g[f[i]] = q
  BY <1>1, <1>2 DEF Fenced
<1>6. Fenced(h, s, t)
  BY <1>3, <1>4, <1>5 DEF Fenced
<1> QED
  BY <1>6 DEF Carries

LEMMA TurnsAmongFences ==
  ASSUME NEW s \in Stream
  PROVE  /\ Turns(s) \subseteq Fences(s) /\ Asks(s) \subseteq Fences(s)
         /\ \A i \in Fences(s) : i \in Nat /\ i \in 1 .. Len(s) /\ (i \in Turns(s) \/ i \in Asks(s))
BY CallPlacement, Placement

LEMMA CarriesTurns ==
  ASSUME NEW s \in Stream, NEW t \in Stream, Carries(s, t)
  PROVE  /\ Cardinality(Turns(t)) = Cardinality(Turns(s))
         /\ Asks(s) = {} <=> Asks(t) = {}
<1>1. PICK f : Fenced(f, s, t)
  BY DEF Carries
<1> DEFINE g == [i \in Turns(s) |-> f[i]]
<1>2. Turns(s) \subseteq Fences(s) /\ Turns(t) \subseteq Fences(t) /\ Asks(s) \subseteq Fences(s) /\ Asks(t) \subseteq Fences(t)
  BY TurnsAmongFences
<1>3. g \in [Turns(s) -> Turns(t)]
  BY <1>1, <1>2, FencedFacts
<1>4. \A x, y \in Turns(s) : g[x] = g[y] => x = y
  BY <1>1, <1>2, FencedFacts
<1>5. \A z \in Turns(t) : \E x \in Turns(s) : g[x] = z
  BY <1>1, <1>2, FencedFacts
<1>6. IsFiniteSet(Turns(s))
  BY TurnsFinite
<1>7. Asks(s) = {} <=> Asks(t) = {}
  BY <1>1, <1>2, FencedFacts
<1> HIDE DEF g
<1> QED
  BY <1>3, <1>4, <1>5, <1>6, <1>7, Paired1to1

\* A TurnStart that no request is before.
Leads(s, i) == i \in Turns(s) /\ \A a \in Asks(s) : i < a
Single(s) == \A i, j \in Turns(s) : Leads(s, i) /\ Leads(s, j) => i = j

\* The last of them, which stays, is newer than the others.
LastLead(s, j) == Leads(s, j) /\ \A k \in Turns(s) : Leads(s, k) => k <= j
Fresh(s) == Asks(s) # {} => \A i, j \in Turns(s) : i < j /\ LastLead(s, j) => s[i].n < s[j].n

LEMMA CarriesLeads ==
  ASSUME NEW s \in Stream, NEW t \in Stream, NEW f, Fenced(f, s, t), NEW i \in Turns(s)
  PROVE  f[i] \in Turns(t) /\ (Leads(s, i) <=> Leads(t, f[i]))
<1>1. Turns(s) \subseteq Fences(s) /\ Turns(t) \subseteq Fences(t) /\ Asks(s) \subseteq Fences(s) /\ Asks(t) \subseteq Fences(t)
  BY TurnsAmongFences
<1>2. f[i] \in Turns(t)
  BY <1>1, FencedFacts
<1>3. ASSUME Leads(s, i), NEW a \in Asks(t) PROVE f[i] < a
  <2>1. PICK b \in Fences(s) : f[b] = a
    BY <1>1, FencedFacts
  <2>2. b \in Asks(s)
    BY <2>1, FencedFacts
  <2>3. i < b
    BY <1>3, <2>2 DEF Leads
  <2> QED
    BY <1>1, <2>1, <2>3, FencedFacts
<1>4. ASSUME Leads(t, f[i]), NEW a \in Asks(s) PROVE i < a
  <2>1. f[a] \in Asks(t)
    BY <1>1, FencedFacts
  <2>2. f[i] < f[a]
    BY <1>4, <2>1 DEF Leads
  <2> QED
    BY <1>1, <2>2, FencedFacts
<1> QED
  BY <1>2, <1>3, <1>4 DEF Leads

LEMMA CarriesFresh ==
  ASSUME NEW s \in Stream, NEW t \in Stream, Carries(s, t)
  PROVE  (Fresh(s) => Fresh(t)) /\ (Single(s) => Single(t))
<1>1. PICK f : Fenced(f, s, t)
  BY DEF Carries
<1>2. Turns(s) \subseteq Fences(s) /\ Turns(t) \subseteq Fences(t) /\ Asks(s) \subseteq Fences(s) /\ Asks(t) \subseteq Fences(t)
  BY TurnsAmongFences
<1>3. \A i \in Turns(t) : \E x \in Turns(s) : f[x] = i
  BY <1>1, <1>2, FencedFacts
<1>4. ASSUME Fresh(s), Asks(t) # {}, NEW i \in Turns(t), NEW j \in Turns(t), i < j, LastLead(t, j)
      PROVE  t[i].n < t[j].n
  <2>1. PICK x \in Turns(s) : f[x] = i
    BY <1>3
  <2>2. PICK y \in Turns(s) : f[y] = j
    BY <1>3
  <2>3. x < y
    BY <1>1, <1>2, <1>4, <2>1, <2>2, FencedFacts
  <2>4. Leads(s, y)
    BY <1>1, <1>4, <2>2, CarriesLeads DEF LastLead
  <2>5. ASSUME NEW k \in Turns(s), Leads(s, k) PROVE k <= y
    <3>1. f[k] \in Turns(t) /\ Leads(t, f[k])
      BY <1>1, <2>5, CarriesLeads
    <3>2. f[k] <= f[y]
      BY <1>4, <2>2, <3>1 DEF LastLead
    <3> QED
      BY <1>1, <1>2, <3>2, FencedFacts
  <2>6. Asks(s) # {}
    BY <1>4, CarriesTurns
  <2>7. s[x].n < s[y].n
    BY <1>4, <2>3, <2>4, <2>5, <2>6 DEF Fresh, LastLead
  <2> QED
    BY <1>1, <1>2, <2>1, <2>2, <2>7, FencedFacts
<1>5. ASSUME Single(s), NEW i \in Turns(t), NEW j \in Turns(t), Leads(t, i), Leads(t, j)
      PROVE  i = j
  <2>1. PICK x \in Turns(s) : f[x] = i
    BY <1>3
  <2>2. PICK y \in Turns(s) : f[y] = j
    BY <1>3
  <2>3. Leads(s, x) /\ Leads(s, y)
    BY <1>1, <1>5, <2>1, <2>2, CarriesLeads
  <2> QED
    BY <1>5, <2>1, <2>2, <2>3 DEF Single
<1> QED
  BY <1>4, <1>5 DEF Fresh, Single

\* The first TurnStart stays the first.
LEMMA CarriesFirst ==
  ASSUME NEW s \in Stream, NEW t \in Stream, Carries(s, t), Turns(s) # {}
  PROVE  Turns(t) # {} /\ t[FirstOf(Turns(t))] = s[FirstOf(Turns(s))]
<1> DEFINE x == FirstOf(Turns(s))
           y == FirstOf(Turns(t))
<1>1. PICK f : Fenced(f, s, t)
  BY DEF Carries
<1>2. Turns(s) \subseteq Fences(s) /\ Turns(t) \subseteq Fences(t)
  BY TurnsAmongFences
<1>3. x \in Turns(s) /\ \A i \in Turns(s) : x <= i
  BY Placement, FirstAmong
<1>4. f[x] \in Turns(t)
  BY <1>1, <1>2, <1>3, FencedFacts
<1>5. y \in Turns(t) /\ \A i \in Turns(t) : y <= i
  BY <1>4, Placement, FirstAmong
<1> HIDE DEF x, y
<1>6. PICK z \in Turns(s) : f[z] = y
  BY <1>1, <1>2, <1>5, FencedFacts
<1>7. f[x] <= y
  BY <1>1, <1>2, <1>3, <1>6, FencedFacts
<1>8. f[x] = y
  BY <1>4, <1>5, <1>7, Placement
<1>9. t[y] = s[x]
  BY <1>1, <1>2, <1>3, <1>8, FencedFacts
<1> QED
  BY <1>4, <1>9 DEF x, y

-----------------------------------------------------------------------------
(* Edits that move no turn.                                                *)

LEMMA StartsPicked ==
  ASSUME NEW s \in Stream
  PROVE  LET p == Pick(s, Turns(s)) IN
         /\ p \in Seq(Event) /\ Len(p) = Cardinality(Turns(s))
         /\ Turns(s) # {} => p[1] = s[FirstOf(Turns(s))] /\ Len(p) >= 1
<1> DEFINE p == Pick(s, Turns(s))
           first == FirstOf(Turns(s))
<1>1. p \in Seq(Event) /\ IsPlaced(p, s, Turns(s))
  BY PickPlaces DEF Stream
<1>2. PICK place : PlacedAt(place, p, s, Turns(s))
  BY <1>1 DEF IsPlaced
<1>3. /\ Len(p) \in Nat /\ DOMAIN p = 1 .. Len(p)
      /\ \A k \in DOMAIN p : place[k] \in DOMAIN s /\ place[k] \in Turns(s) /\ p[k] = s[place[k]]
      /\ \A k, l \in DOMAIN p : k < l => place[k] < place[l]
      /\ \A i \in DOMAIN s : i \in Turns(s) => \E k \in DOMAIN p : place[k] = i
  BY <1>2, PickedAt DEF Stream
<1> HIDE DEF p
<1>4. \A i \in Turns(s) : i \in DOMAIN s /\ i \in Nat
  BY Placement
<1> DEFINE f == [k \in 1 .. Len(p) |-> place[k]]
<1>5. f \in [1 .. Len(p) -> Turns(s)]
  BY <1>3
<1>6. \A x, y \in 1 .. Len(p) : f[x] = f[y] => x = y
  <2> SUFFICES ASSUME NEW x \in 1 .. Len(p), NEW y \in 1 .. Len(p), x # y PROVE place[x] # place[y]
    OBVIOUS
  <2>1. place[x] \in Nat /\ place[y] \in Nat
    BY <1>3, <1>4
  <2>2. x < y \/ y < x
    BY <1>3
  <2> QED
    BY <1>3, <2>1, <2>2
<1>7. \A z \in Turns(s) : \E x \in 1 .. Len(p) : f[x] = z
  BY <1>3, <1>4
<1>8. IsFiniteSet(1 .. Len(p)) /\ Cardinality(1 .. Len(p)) = Len(p)
  <2>1. 1 \in Int /\ Len(p) \in Int
    BY <1>3
  <2>2. Cardinality(1 .. Len(p)) = IF 1 > Len(p) THEN 0 ELSE Len(p) - 1 + 1
    BY <2>1, FS_Interval
  <2> QED
    BY <1>3, <2>1, <2>2, FS_Interval
<1> HIDE DEF f
<1>9. Cardinality(Turns(s)) = Len(p)
  BY <1>5, <1>6, <1>7, <1>8, Paired1to1
<1>10. ASSUME Turns(s) # {} PROVE p[1] = s[first] /\ Len(p) >= 1
  <2>1. first \in Turns(s) /\ \A i \in Turns(s) : first <= i
    BY <1>10, Placement, FirstAmong
  <2> HIDE DEF first
  <2>2. PICK k \in DOMAIN p : place[k] = first
    BY <1>3, <1>4, <2>1
  <2>3. 1 \in DOMAIN p /\ k >= 1
    BY <1>3
  <2>4. place[1] \in Turns(s) /\ first <= place[1] /\ place[1] \in Nat /\ first \in Nat
    BY <1>3, <1>4, <2>1, <2>3
  <2>5. k = 1 \/ place[1] < place[k]
    BY <1>3, <2>3
  <2>6. place[1] = first
    BY <2>2, <2>4, <2>5
  <2> QED
    BY <1>3, <2>3, <2>6 DEF first
<1> QED
  BY <1>1, <1>9, <1>10 DEF p, first

LEMMA LeastOfTwo ==
  ASSUME NEW a \in Nat, NEW b \in Nat
  PROVE  Min({a, b}) = IF a <= b THEN a ELSE b
<1> DEFINE S == {a, b}
<1>1. S \subseteq Nat /\ S # {} /\ a \in S /\ b \in S
  OBVIOUS
<1>2. \A x \in S : x = a \/ x = b
  OBVIOUS
<1> HIDE DEF S
<1>3. Min(S) \in S /\ \A y \in S : Min(S) <= y
  BY <1>1, LeastNat
<1> DEFINE least == Min(S)
<1> HIDE DEF least
<1>4. (least = a \/ least = b) /\ least <= a /\ least <= b
  BY <1>1, <1>2, <1>3 DEF least
<1>5. least = IF a <= b THEN a ELSE b
  BY <1>4
<1> QED
  BY <1>5 DEF least, S

\* What an edit that moves no summarized turn leaves: no more turns than there
\* were, those an overlay reaches, and the first one.
LEMMA Undisplaced ==
  ASSUME NEW s \in Stream, NEW t \in Stream, ~Displaced(s, t), NEW o \in Overlays(s)
  PROVE  /\ Cardinality(Turns(t)) <= Cardinality(Turns(s))
         /\ s[o].to < Cardinality(Turns(s)) => s[o].to < Cardinality(Turns(t))
         /\ Turns(s) # {} /\ Turns(t) # {} => s[FirstOf(Turns(s))] = t[FirstOf(Turns(t))]
<1> DEFINE p == Pick(s, Turns(s))
           q == Pick(t, Turns(t))
           k == s[o].to + 1
           x == Min({k, Len(p)})
           y == Min({k, Len(q)})
<1>1. SubSeq(p, 1, x) = SubSeq(q, 1, y) /\ ~(Len(q) > Len(p))
  BY DEF Displaced, Turns
<1>2. /\ p \in Seq(Event) /\ Len(p) = Cardinality(Turns(s))
      /\ Turns(s) # {} => p[1] = s[FirstOf(Turns(s))] /\ Len(p) >= 1
  BY StartsPicked
<1>3. /\ q \in Seq(Event) /\ Len(q) = Cardinality(Turns(t))
      /\ Turns(t) # {} => q[1] = t[FirstOf(Turns(t))] /\ Len(q) >= 1
  BY StartsPicked
<1>4. s[o].to \in Nat
  BY OverlayFacts
<1> HIDE DEF p, q
<1>5. k \in Nat /\ k >= 1 /\ Len(p) \in Nat /\ Len(q) \in Nat
  BY <1>2, <1>3, <1>4
<1> HIDE DEF k
<1>6. x = IF k <= Len(p) THEN k ELSE Len(p)
  BY <1>5, LeastOfTwo
<1>7. y = IF k <= Len(q) THEN k ELSE Len(q)
  BY <1>5, LeastOfTwo
<1> HIDE DEF x, y
<1>8. x \in 0 .. Len(p) /\ y \in 0 .. Len(q)
  BY <1>5, <1>6, <1>7
<1>9. Len(SubSeq(p, 1, x)) = x /\ Len(SubSeq(q, 1, y)) = y
  BY <1>2, <1>3, <1>8
<1>10. x = y
  BY <1>1, <1>9
<1>11. k <= Len(p) => k <= Len(q)
  BY <1>5, <1>6, <1>7, <1>10
<1>12. ASSUME Len(p) >= 1, Len(q) >= 1 PROVE p[1] = q[1]
  <2>1. 1 \in 1 .. x /\ 1 \in 1 .. y
    BY <1>5, <1>6, <1>7, <1>12
  <2>2. SubSeq(p, 1, x)[1] = p[1] /\ SubSeq(q, 1, y)[1] = q[1]
    BY <1>2, <1>3, <1>8, <2>1
  <2> QED
    BY <1>1, <2>2
<1>13. Cardinality(Turns(t)) <= Cardinality(Turns(s))
  BY <1>1, <1>2, <1>3, <1>5
<1>14. s[o].to < Cardinality(Turns(s)) => s[o].to < Cardinality(Turns(t))
  BY <1>2, <1>3, <1>4, <1>5, <1>11 DEF k
<1> QED
  BY <1>2, <1>3, <1>12, <1>13, <1>14

-----------------------------------------------------------------------------
(* Events are in the order they were made in.                              *)

Aged(s) == \A i, j \in Conversation(s) : i <= j => s[i].n <= s[j].n

LEMMA Stamped == ASSUME NEW s \in Stream PROVE \A i \in Conversation(s) : s[i].n \in Nat /\ i \in Nat /\ i \in DOMAIN s
BY Placement, EventFacts

LEMMA AgedKept ==
  ASSUME NEW s \in Stream, NEW t \in Stream, NEW K, NEW m, Embeds(m, s, K, t), Aged(s),
         \A p \in Added(m, K, t) \cap Conversation(t), i \in K \cap Conversation(s) :
           (m[i] <= p => s[i].n <= t[p].n) /\ (p <= m[i] => t[p].n <= s[i].n),
         \A p, q \in Added(m, K, t) \cap Conversation(t) : p <= q => t[p].n <= t[q].n
  PROVE  Aged(t)
<1> SUFFICES ASSUME NEW p \in Conversation(t), NEW q \in Conversation(t), p <= q PROVE t[p].n <= t[q].n
  BY DEF Aged
<1>1. p \in DOMAIN t /\ q \in DOMAIN t
  BY Stamped
<1>2. ASSUME NEW x \in Conversation(t), x \notin Added(m, K, t)
      PROVE  \E i \in K \cap Conversation(s) : m[i] = x /\ t[x] = s[i]
  <2>1. x \in DOMAIN t
    BY Stamped
  <2>2. PICK i \in K : m[i] = x
    BY <1>2, <2>1, EmbeddedKinds
  <2> QED
    BY <2>2, EmbeddedKinds
<1>3. CASE p \in Added(m, K, t) /\ q \in Added(m, K, t)
  BY <1>3
<1>4. CASE p \in Added(m, K, t) /\ q \notin Added(m, K, t)
  <2>1. PICK j \in K \cap Conversation(s) : m[j] = q /\ t[q] = s[j]
    BY <1>2, <1>4
  <2> QED
    BY <1>4, <2>1
<1>5. CASE p \notin Added(m, K, t) /\ q \in Added(m, K, t)
  <2>1. PICK i \in K \cap Conversation(s) : m[i] = p /\ t[p] = s[i]
    BY <1>2, <1>5
  <2> QED
    BY <1>5, <2>1
<1>6. CASE p \notin Added(m, K, t) /\ q \notin Added(m, K, t)
  <2>1. PICK i \in K \cap Conversation(s) : m[i] = p /\ t[p] = s[i]
    BY <1>2, <1>6
  <2>2. PICK j \in K \cap Conversation(s) : m[j] = q /\ t[q] = s[j]
    BY <1>2, <1>6
  <2>3. i <= j
    BY <2>1, <2>2, EmbeddedOrder
  <2> QED
    BY <2>1, <2>2, <2>3 DEF Aged
<1> QED
  BY <1>3, <1>4, <1>5, <1>6

LEMMA AgedSelected ==
  ASSUME NEW s \in Stream, NEW t \in Stream, NEW K, NEW m, Embeds(m, s, K, t), Aged(s),
         Added(m, K, t) \cap Conversation(t) = {}
  PROVE  Aged(t)
BY AgedKept

\* What is appended is as new as the newest.
LEMMA AgedAppended ==
  ASSUME NEW s \in Stream, NEW u \in Stream, NEW n \in Nat, Aged(s),
         \A i \in Conversation(s) : s[i].n <= n, \A q \in DOMAIN u : u[q].n = n
  PROVE  Aged(s \o u)
<1> DEFINE t == s \o u
           m == [i \in DOMAIN s |-> i]
<1>1. /\ t \in Stream /\ Embeds(m, s, DOMAIN s, t)
      /\ \A p \in Added(m, DOMAIN s, t) : p - Len(s) \in DOMAIN u /\ p \in Len(s) + 1 .. Len(s) + Len(u)
                                          /\ t[p] = u[p - Len(s)]
  BY ConcatEmbeds
<1>2. \A i \in DOMAIN s : m[i] = i /\ i <= Len(s) /\ i \in Nat
  BY Positions DEF Stream
<1>3. Len(s) \in Nat /\ Len(u) \in Nat
  BY Positions DEF Stream
<1> HIDE DEF t, m
<1>4. \A p \in Added(m, DOMAIN s, t) : t[p].n = n /\ p > Len(s) /\ p \in Nat
  BY <1>1, <1>3
<1>5. ASSUME NEW p \in Added(m, DOMAIN s, t) \cap Conversation(t), NEW i \in DOMAIN s \cap Conversation(s)
      PROVE  (m[i] <= p => s[i].n <= t[p].n) /\ (p <= m[i] => t[p].n <= s[i].n)
  <2>1. ~(p <= m[i])
    BY <1>2, <1>3, <1>4
  <2> QED
    BY <1>4, <2>1
<1>6. Aged(t)
  BY <1>1, <1>4, <1>5, AgedKept
<1> QED
  BY <1>6 DEF t

-----------------------------------------------------------------------------
(* Edits that take the end off.                                            *)

LEMMA FaithShorter ==
  ASSUME NEW s \in Stream, NEW t \in Stream, Shorter(s, t) \/ Spared(s, t), Owned(s, t), Started(s), Faith(s)
  PROVE  Faith(t)
<1>1. Started(t)
  BY StartedShorter
<1>2. PICK K, m : Embeds(m, s, K, t) /\ Quiet(m, K, t) /\ Leading(K, s)
  BY DEF Shorter, Spared
<1>3. Added(m, K, t) \cap Conversation(t) = {}
  BY <1>2 DEF Quiet, Conversation
<1>4. Turns(t) \subseteq Conversation(t) /\ Speech(t) \subseteq Conversation(t)
  BY Placement DEF Speech
<1>5. Rooted(K, s)
  BY <1>2, Placement DEF Leading, Rooted
<1> QED
  BY <1>1, <1>2, <1>3, <1>4, <1>5, FaithKept

LEMMA AgedShorter ==
  ASSUME NEW s \in Stream, NEW t \in Stream, Shorter(s, t) \/ Spared(s, t), Aged(s)
  PROVE  Aged(t)
<1>1. PICK K, m : Embeds(m, s, K, t) /\ Quiet(m, K, t) /\ Leading(K, s)
  BY DEF Shorter, Spared
<1>2. Added(m, K, t) \cap Conversation(t) = {}
  BY <1>1 DEF Quiet, Conversation
<1> QED
  BY <1>1, <1>2, AgedSelected

LEMMA CarriesSpared ==
  ASSUME NEW s \in Stream, NEW t \in Stream, Spared(s, t)
  PROVE  Carries(s, t)
<1>1. PICK K, m : Embeds(m, s, K, t) /\ Quiet(m, K, t) /\ Leading(K, s) /\ Spoken(K, s)
  BY DEF Spared
<1>2. Fences(s) \subseteq K
  BY <1>1, CallPlacement DEF Spoken
<1>3. Added(m, K, t) \cap Fences(t) = {}
  BY <1>1, CallPlacement DEF Quiet, IsGlobal
<1> QED
  BY <1>1, <1>2, <1>3, CarriesKept

LEMMA OpeningShorter ==
  ASSUME NEW s \in Stream, NEW t \in Stream, Shorter(s, t) \/ Spared(s, t), Opening(s), Asks(t) # {}
  PROVE  Opening(t)
<1>1. PICK K, m : Embeds(m, s, K, t) /\ Quiet(m, K, t) /\ Leading(K, s)
  BY DEF Shorter, Spared
<1>2. PICK c \in Conversation(s), d \in Conversation(s) :
        c \in Turns(s) /\ d \in Asks(s) /\ c < d /\ \A i \in Conversation(s) : i = c \/ i >= d
  BY DEF Opening
<1>3. \A x \in Conversation(t) : \E i \in K \cap Conversation(s) : m[i] = x
  <2> SUFFICES ASSUME NEW x \in Conversation(t) PROVE \E i \in K \cap Conversation(s) : m[i] = x
    OBVIOUS
  <2>1. x \in DOMAIN t /\ x \notin Added(m, K, t)
    BY <1>1, Stamped DEF Quiet, Conversation
  <2>2. PICK i \in K : m[i] = x
    BY <1>1, <2>1, EmbeddedKinds
  <2> QED
    BY <1>1, <2>2, EmbeddedKinds
<1>4. PICK a \in K \cap Conversation(s) : a \in Asks(s)
  <2>1. PICK x \in Asks(t) : TRUE
    OBVIOUS
  <2>2. PICK i \in K \cap Conversation(s) : m[i] = x
    BY <1>3, <2>1, Placement
  <2> QED
    BY <1>1, <2>1, <2>2, EmbeddedKinds
<1>5. a # c
  BY <1>2, <1>4, Placement
<1>6. a >= d /\ a \in Nat /\ c \in Nat /\ d \in Nat
  BY <1>2, <1>4, <1>5, Placement
<1>7. c \in K /\ d \in K
  BY <1>1, <1>2, <1>4, <1>6 DEF Leading
<1>8. m[c] \in Turns(t) /\ m[d] \in Asks(t) /\ m[c] \in Conversation(t) /\ m[d] \in Conversation(t) /\ m[c] < m[d]
  BY <1>1, <1>2, <1>7, EmbeddedKinds, EmbeddedOrder
<1>9. ASSUME NEW x \in Conversation(t) PROVE x = m[c] \/ x >= m[d]
  <2>1. PICK i \in K \cap Conversation(s) : m[i] = x
    BY <1>3
  <2>2. i = c \/ d <= i
    BY <1>2, <1>6, <2>1, Placement
  <2>3. d <= i => m[d] <= x
    BY <1>1, <1>7, <2>1, EmbeddedOrder
  <2>4. m[d] <= x => x >= m[d]
    BY <1>8, Placement
  <2> QED
    BY <2>1, <2>2, <2>3, <2>4
<1> QED
  BY <1>8, <1>9 DEF Opening

LEMMA OpeningAppended ==
  ASSUME NEW s \in Stream, NEW u \in Stream, Opening(s)
  PROVE  Opening(s \o u)
<1> DEFINE t == s \o u
<1>1. /\ t \in Stream
      /\ \A p \in DOMAIN s : p \in DOMAIN t /\ t[p] = s[p] /\ p <= Len(s)
      /\ \A q \in DOMAIN u : ~(Len(s) + q <= Len(s))
      /\ \A p \in DOMAIN t : p \in DOMAIN s \/ \E q \in DOMAIN u : p = Len(s) + q
  BY AppendedAt
<1> HIDE DEF t
<1>2. PICK c \in Conversation(s), d \in Conversation(s) :
        c \in Turns(s) /\ d \in Asks(s) /\ c < d /\ \A i \in Conversation(s) : i = c \/ i >= d
  BY DEF Opening
<1>3. c \in DOMAIN s /\ d \in DOMAIN s /\ c \in Nat /\ d \in Nat /\ d <= Len(s) /\ Len(s) \in Nat
  BY <1>1, Placement
<1>4. c \in Turns(t) /\ d \in Asks(t) /\ c \in Conversation(t) /\ d \in Conversation(t)
  BY <1>1, <1>2, <1>3, Placement
<1>5. ASSUME NEW x \in Conversation(t) PROVE x = c \/ x >= d
  <2>1. x \in DOMAIN t /\ x \in Nat
    BY <1>1, Placement
  <2>2. CASE x \in DOMAIN s
    <3>1. x \in Conversation(s)
      BY <1>1, <2>2, Placement
    <3> QED
      BY <1>2, <3>1
  <2>3. CASE x \notin DOMAIN s
    <3>1. ~(x <= Len(s))
      BY <1>1, <2>1, <2>3
    <3> QED
      BY <1>3, <2>1, <3>1
  <2> QED
    BY <2>2, <2>3
<1>6. Opening(t)
  BY <1>2, <1>4, <1>5 DEF Opening
<1> QED
  BY <1>6 DEF t

LEMMA OpeningSingle ==
  ASSUME NEW s \in Stream, Opening(s)
  PROVE  Single(s) /\ Fresh(s)
<1>1. PICK c \in Conversation(s), d \in Conversation(s) :
        c \in Turns(s) /\ d \in Asks(s) /\ c < d /\ \A i \in Conversation(s) : i = c \/ i >= d
  BY DEF Opening
<1>2. ASSUME NEW i \in Turns(s), \E j : i <= j /\ Leads(s, j) PROVE i = c
  <2>1. PICK j : i <= j /\ j \in Turns(s) /\ j < d
    BY <1>1, <1>2 DEF Leads
  <2>2. i \in Nat /\ j \in Nat /\ d \in Nat /\ i \in Conversation(s)
    BY <2>1, Placement
  <2>3. ~(i >= d)
    BY <2>1, <2>2
  <2> QED
    BY <1>1, <2>2, <2>3
<1>3. \A i \in Turns(s) : i \in Nat /\ i <= i
  BY Placement
<1>4. Single(s)
  BY <1>2, <1>3 DEF Single
<1>5. ASSUME NEW i \in Turns(s), NEW j \in Turns(s), i < j, LastLead(s, j) PROVE FALSE
  <2>1. Leads(s, j) /\ i <= j /\ j <= j
    BY <1>3, <1>5 DEF LastLead
  <2>2. i = c /\ j = c
    BY <1>2, <2>1
  <2> QED
    BY <1>3, <1>5, <2>2
<1> QED
  BY <1>4, <1>5 DEF Fresh

-----------------------------------------------------------------------------
(* What sanitize leaves of summarized turns.                               *)

\* An edit of sanitize that moves no TurnStart.
Repaired(s, t) ==
  /\ Carries(s, t) /\ Owned(s, t) /\ (Aged(s) => Aged(t))
  /\ Started(s) => Started(t) /\ (Faith(s) => Faith(t))

LEMMA RepairedSelected ==
  ASSUME NEW s \in Stream, NEW t \in Stream, NEW K, NEW m, Embeds(m, s, K, t), Added(m, K, t) = {},
         Fences(s) \subseteq K
  PROVE  Repaired(s, t)
<1>1. Carries(s, t) /\ Owned(s, t)
  BY CarriesKept, OwnedKept
<1>2. Aged(s) => Aged(t)
  BY AgedSelected
<1>3. Turns(s) \subseteq K
  BY TurnsAmongFences
<1>4. Started(s) => Started(t)
  BY <1>3, StartedKept
<1>5. Rooted(K, s)
  BY <1>3 DEF Rooted
<1>6. Started(s) /\ Faith(s) => Faith(t)
  BY <1>1, <1>4, <1>5, FaithKept
<1> QED
  BY <1>1, <1>2, <1>4, <1>6 DEF Repaired

LEMMA RepairedThrough ==
  ASSUME NEW s \in Stream, NEW r \in Stream, NEW t \in Stream, Repaired(s, r), Repaired(r, t)
  PROVE  Repaired(s, t)
BY CarriesThrough, OwnedThrough DEF Repaired

LEMMA LeadingDroppedRepairs ==
  ASSUME NEW s \in Stream
  PROVE  LET t == LeadingDropped(s) IN t \in Stream /\ Repaired(s, t)
<1> DEFINE t == LeadingDropped(s)
           K == {i \in DOMAIN s : i >= FirstOf(Asks(s)) \/ IsGlobal(s[i]) \/ s[i].kind = "turn"}
<1>1. t \in Stream /\ (\E m : Embeds(m, s, K, t) /\ Added(m, K, t) = {}) /\ Asks(s) \subseteq K
  BY LeadingDroppedLed
<1>2. Turns(s) \subseteq K
  BY Placement
<1> HIDE DEF K, t
<1>3. Fences(s) \subseteq K
  BY <1>1, <1>2, TurnsAmongFences
<1>4. Repaired(s, t)
  BY <1>1, <1>3, RepairedSelected
<1> QED
  BY <1>1, <1>4 DEF t

LEMMA OrphansRemovedRepairs ==
  ASSUME NEW s \in Stream, NEW kind \in Identified, NEW partner
  PROVE  LET t == OrphansRemoved(s, kind, partner) IN t \in Stream /\ Repaired(s, t)
<1> DEFINE t == OrphansRemoved(s, kind, partner)
           K == {i \in DOMAIN s : s[i].kind = kind => s[i].id \in Ids(s, partner)}
<1>1. /\ t \in Stream /\ (\E m : Embeds(m, s, K, t) /\ Added(m, K, t) = {})
      /\ Asks(s) \subseteq K /\ Turns(s) \subseteq K
  BY OrphansRemovedEmbeds
<1> HIDE DEF K, t
<1>2. Fences(s) \subseteq K
  BY <1>1, TurnsAmongFences
<1>3. Repaired(s, t)
  BY <1>1, <1>2, RepairedSelected
<1> QED
  BY <1>1, <1>3 DEF t

\* An answer is made behind its call, in its turn and with its stamp.
LEMMA CallsAnsweredRepairs ==
  ASSUME NEW s \in Stream
  PROVE  LET t == CallsAnswered(s) IN t \in Stream /\ Repaired(s, t)
<1> DEFINE t == CallsAnswered(s)
           K == DOMAIN s
<1>1. t \in Stream
  BY CallsAnsweredEmbeds
<1>2. PICK m : Answers(m, s, t)
  BY CallsAnsweredEmbeds
<1> HIDE DEF t
<1>3. Embeds(m, s, K, t)
  BY <1>2 DEF Answers
<1>4. ASSUME NEW p \in Added(m, K, t)
      PROVE  \E i \in K : /\ p = m[i] + 1 /\ i \in Conversation(s) /\ i \in Speech(s) /\ t[p].kind = "result"
                          /\ t[p].n = s[i].n /\ m[i] \in Nat /\ p \in Nat
  <2>1. PICK i \in DOMAIN s : Open(s, i) /\ p = m[i] + 1
    BY <1>2 DEF Answers
  <2>2. t[p] = AnswerTo(s, i)
    BY <1>2, <2>1 DEF Answers
  <2>3. s[i] \in Event /\ s[i].kind = "call"
    BY <2>1, Positions DEF Open, Stream
  <2>4. t[p].kind = "result" /\ t[p].n = s[i].n
    BY <2>2 DEF AnswerTo, Paired
  <2>5. i \in Conversation(s) /\ i \in Speech(s)
    BY <2>1, <2>3, Placement DEF Speech
  <2>6. m[i] \in Conversation(t)
    BY <1>1, <1>3, <2>1, <2>5, EmbeddedKinds
  <2>7. m[i] \in Nat /\ p \in Nat
    BY <1>1, <2>1, <2>6, Placement
  <2> QED
    BY <2>1, <2>4, <2>5, <2>7
<1>5. Fences(s) \subseteq K
  BY CallPlacement
<1>6. Added(m, K, t) \cap (Fences(t) \cup Overlays(t) \cup Turns(t)) = {}
  <2>1. \A p \in Fences(t) \cup Overlays(t) \cup Turns(t) : t[p].kind \in {"turn", "ask", "overlay"}
    BY <1>1, CallPlacement, OverlayPlaces, Placement
  <2> QED
    BY <1>4, <2>1
<1>7. Carries(s, t) /\ Owned(s, t)
  BY <1>1, <1>3, <1>5, <1>6, CarriesKept, OwnedKept
<1>8. \A i \in K : m[i] \in Nat
  BY <1>1, <1>3, EmbeddedKinds, Positions DEF Stream
<1>9. ASSUME Aged(s) PROVE Aged(t)
  <2>1. ASSUME NEW p \in Added(m, K, t) \cap Conversation(t), NEW j \in K \cap Conversation(s)
        PROVE  (m[j] <= p => s[j].n <= t[p].n) /\ (p <= m[j] => t[p].n <= s[j].n)
    <3>1. PICK i \in K : p = m[i] + 1 /\ i \in Conversation(s) /\ t[p].n = s[i].n
      BY <1>4
    <3>2. p # m[j] /\ m[j] \in Nat /\ m[i] \in Nat
      BY <1>8 DEF Added
    <3>3. (m[j] <= p => m[j] <= m[i]) /\ (p <= m[j] => m[i] <= m[j])
      BY <3>1, <3>2
    <3>4. (m[j] <= p => j <= i) /\ (p <= m[j] => i <= j)
      BY <1>1, <1>3, <3>1, <3>3, EmbeddedOrder
    <3> QED
      BY <1>9, <3>1, <3>4 DEF Aged
  <2>2. ASSUME NEW p \in Added(m, K, t) \cap Conversation(t), NEW q \in Added(m, K, t) \cap Conversation(t), p <= q
        PROVE  t[p].n <= t[q].n
    <3>1. PICK i \in K : p = m[i] + 1 /\ i \in Conversation(s) /\ t[p].n = s[i].n
      BY <1>4
    <3>2. PICK j \in K : q = m[j] + 1 /\ j \in Conversation(s) /\ t[q].n = s[j].n
      BY <1>4
    <3>3. m[i] <= m[j]
      BY <1>8, <2>2, <3>1, <3>2
    <3>4. i <= j
      BY <1>1, <1>3, <3>3, EmbeddedOrder
    <3> QED
      BY <1>9, <3>1, <3>2, <3>4 DEF Aged
  <2> QED
    BY <1>1, <1>3, <1>9, <2>1, <2>2, AgedKept
<1>10. ASSUME Started(s) PROVE Started(t)
  <2>1. \A p \in Added(m, K, t) : \E i \in K \cap Conversation(s) : m[i] <= p
    <3> SUFFICES ASSUME NEW p \in Added(m, K, t) PROVE \E i \in K \cap Conversation(s) : m[i] <= p
      OBVIOUS
    <3>1. PICK i \in K : p = m[i] + 1 /\ i \in Conversation(s) /\ m[i] \in Nat
      BY <1>4
    <3> QED
      BY <3>1
  <2>2. \A j \in Turns(s) : j \in K
    BY Placement
  <2> QED
    BY <1>1, <1>3, <1>10, <2>1, <2>2, StartedKept
<1>11. ASSUME Started(s), Faith(s) PROVE Faith(t)
  <2>1. Rooted(K, s)
    BY Placement DEF Rooted
  <2>2. ASSUME NEW p \in Added(m, K, t) \cap Speech(t), NEW o \in Overlays(t), Covers(t, o, p)
        PROVE  t[p].n \in t[o].of
    <3>1. PICK i \in K : /\ p = m[i] + 1 /\ i \in Conversation(s) /\ i \in Speech(s)
                         /\ t[p].n = s[i].n /\ m[i] \in Nat /\ p \in Nat
      BY <1>4
    <3>2. PICK q \in Overlays(s) : t[o] = s[q]
      BY <1>7 DEF Owned
    <3>3. TurnOf(t, m[i]) = TurnOf(s, i)
      <4>1. \A j \in Turns(s) : j <= i => j \in K
        BY Placement
      <4>2. \A x \in Added(m, K, t) \cap Turns(t) : ~(x <= m[i])
        BY <1>6
      <4> QED
        BY <1>1, <1>3, <1>10, <1>11, <3>1, <4>1, <4>2, TurnKept
    <3>4. TurnOf(t, p) = TurnOf(t, m[i])
      <4>1. m[i] \in 0 .. Len(t) /\ p \in 0 .. Len(t) /\ m[i] <= p
        <5>1. p \in Conversation(t) /\ m[i] \in Conversation(t)
          BY <1>1, <1>3, <3>1, EmbeddedKinds, SpeechPlaces
        <5>2. p <= Len(t) /\ m[i] <= Len(t) /\ Len(t) \in Nat
          BY <1>1, <5>1, Placement
        <5> QED
          BY <3>1, <5>2
      <4>2. ASSUME NEW k \in Turns(t) PROVE ~(m[i] < k /\ k <= p)
        <5>1. k # p /\ k \in Nat
          BY <1>1, <1>6, Placement
        <5> QED
          BY <3>1, <5>1
      <4> QED
        BY <1>1, <4>1, <4>2, TurnsGrow
    <3>5. Covers(s, q, i)
      BY <2>2, <3>2, <3>3, <3>4 DEF Covers
    <3> QED
      BY <1>11, <3>1, <3>2, <3>5 DEF Faith
  <2>3. \A p \in Added(m, K, t) \cap Turns(t), i \in K \cap Conversation(s) : ~(p <= m[i])
    BY <1>6
  <2> QED
    BY <1>1, <1>3, <1>7, <1>10, <1>11, <2>1, <2>2, <2>3, FaithKept
<1>12. Repaired(s, t)
  BY <1>7, <1>9, <1>10, <1>11 DEF Repaired
<1> QED
  BY <1>1, <1>12 DEF t

\* Before the TurnStart at the end is looked at.
Mended(s) ==
  OrphansRemoved(OrphansRemoved(CallsAnswered(
    OrphansRemoved(LeadingDropped(s), "result", "call")), "answer", "question"), "question", "answer")

LEMMA MendedRepairs ==
  ASSUME NEW s \in Stream
  PROVE  LET r == Mended(s) IN
         /\ r \in Stream /\ Repaired(s, r) /\ (Directed(s) => Directed(r))
         /\ BeforeNormalized(s) = TrailingTurnTrimmed(r)
<1> DEFINE a == LeadingDropped(s)
           b == OrphansRemoved(a, "result", "call")
           c == CallsAnswered(b)
           d == OrphansRemoved(c, "answer", "question")
           r == OrphansRemoved(d, "question", "answer")
<1>0. {"result", "answer", "question"} \subseteq Identified
  BY DEF Identified
<1>1. a \in Stream /\ Repaired(s, a) /\ (Directed(s) => Directed(a))
  BY LeadingDroppedRepairs, DirectedLeadingDropped
<1> HIDE DEF a
<1>2. b \in Stream /\ Repaired(a, b) /\ (Directed(a) => Directed(b))
  BY <1>0, <1>1, OrphansRemovedRepairs, DirectedOrphansRemoved
<1> HIDE DEF b
<1>3. c \in Stream /\ Repaired(b, c) /\ (Directed(b) => Directed(c))
  BY <1>2, CallsAnsweredRepairs, DirectedCallsAnswered
<1> HIDE DEF c
<1>4. d \in Stream /\ Repaired(c, d) /\ (Directed(c) => Directed(d))
  BY <1>0, <1>3, OrphansRemovedRepairs, DirectedOrphansRemoved
<1> HIDE DEF d
<1>5. r \in Stream /\ Repaired(d, r) /\ (Directed(d) => Directed(r))
  BY <1>0, <1>4, OrphansRemovedRepairs, DirectedOrphansRemoved
<1> HIDE DEF r
<1>6. Repaired(s, b)
  BY <1>1, <1>2, RepairedThrough
<1>7. Repaired(s, c)
  BY <1>2, <1>3, <1>6, RepairedThrough
<1>8. Repaired(s, d)
  BY <1>3, <1>4, <1>7, RepairedThrough
<1>9. Repaired(s, r)
  BY <1>4, <1>5, <1>8, RepairedThrough
<1>10. Mended(s) = r /\ BeforeNormalized(s) = TrailingTurnTrimmed(r)
  BY DEF Mended, BeforeNormalized, a, b, c, d, r
<1> QED
  BY <1>1, <1>2, <1>3, <1>4, <1>5, <1>9, <1>10

\* Behind something said, a TurnStart has its request: none is at the end.
LEMMA TrailingTrimmedRepairs ==
  ASSUME NEW s \in Stream
  PROVE  LET t == TrailingTurnTrimmed(s) IN
         /\ t \in Stream /\ Owned(s, t) /\ (Aged(s) => Aged(t))
         /\ Speech(s) = {} => Speech(t) = {}
         /\ Speech(s) # {} /\ Directed(s) => Repaired(s, t) /\ Speech(t) # {}
<1> DEFINE t == TrailingTurnTrimmed(s)
           K == DOMAIN s \ ({LastOf(Conversation(s))} \cap Turns(s))
<1>1. t \in Stream /\ \A i \in DOMAIN s : i \notin K => i \in Turns(s) /\ \A j \in Conversation(s) : j <= i
  BY TrailingTrimmedEmbeds
<1>2. PICK m : Embeds(m, s, K, t) /\ Added(m, K, t) = {}
  BY TrailingTrimmedEmbeds
<1> HIDE DEF t, K
<1>3. Owned(s, t)
  BY <1>1, <1>2, OwnedKept
<1>4. Aged(s) => Aged(t)
  BY <1>1, <1>2, AgedSelected
<1>5. ASSUME Speech(s) = {} PROVE Speech(t) = {}
  <2>1. ASSUME NEW x \in Speech(t) PROVE FALSE
    <3>1. x \in DOMAIN t
      BY <1>1, SpeechPlaces
    <3>2. PICK i \in K : m[i] = x
      BY <1>1, <1>2, <3>1, EmbeddedKinds
    <3> QED
      BY <1>1, <1>2, <1>5, <3>2, EmbeddedSpeech
  <2> QED
    BY <2>1
<1>6. ASSUME Speech(s) # {}, Directed(s) PROVE Repaired(s, t) /\ Speech(t) # {}
  <2>1. PICK a \in Speech(s) : TRUE
    BY <1>6
  <2>2. a \in Conversation(s) /\ a \notin Turns(s) /\ a \in Nat /\ a \in DOMAIN s
    BY SpeechPlaces
  <2>3. ASSUME NEW i \in DOMAIN s, i \notin K PROVE FALSE
    <3>1. i \in Turns(s) /\ (\A j \in Conversation(s) : j <= i) /\ i \in Nat
      BY <1>1, <2>3, Placement
    <3>2. a < i
      BY <2>2, <3>1
    <3>3. PICK k \in Asks(s) : i < k
      BY <1>6, <2>1, <3>1, <3>2 DEF Directed, Direct
    <3>4. k \in Conversation(s) /\ k \in Nat
      BY Placement
    <3> QED
      BY <3>1, <3>3, <3>4
  <2>4. Fences(s) \subseteq K /\ a \in K
    BY <2>2, <2>3, CallPlacement
  <2>5. m[a] \in Speech(t)
    BY <1>1, <1>2, <2>1, <2>4, EmbeddedSpeech
  <2>6. Repaired(s, t)
    BY <1>1, <1>2, <2>4, RepairedSelected
  <2> QED
    BY <2>5, <2>6
<1> QED
  BY <1>1, <1>3, <1>4, <1>5, <1>6 DEF t

\* Two leading TurnStarts: the later one is left, as the first one.
LEMMA CollapsedFirst ==
  ASSUME NEW s \in Stream, NEW t \in Stream, NEW L \in Turns(s), NEW a \in Asks(s), L < a,
         \A b \in Asks(s) : a <= b, \A i \in Turns(s) : i < a => i <= L,
         NEW m, Embeds(m, s, DOMAIN s \ {i \in Turns(s) : i < a /\ i # L}, t),
         Added(m, DOMAIN s \ {i \in Turns(s) : i < a /\ i # L}, t) = {}
  PROVE  /\ Turns(t) # {} /\ t[FirstOf(Turns(t))] = s[L] /\ LastLead(s, L)
         /\ \A i \in Turns(s) : i < a => Leads(s, i)
<1> DEFINE K == DOMAIN s \ {i \in Turns(s) : i < a /\ i # L}
           y == FirstOf(Turns(t))
<1>1. L \in K /\ L \in Nat /\ a \in Nat
  BY Placement
<1>2. \A i \in K \cap Turns(s) : L <= i
  <2> SUFFICES ASSUME NEW i \in K \cap Turns(s) PROVE L <= i
    OBVIOUS
  <2>1. ~(i < a) \/ i = L
    OBVIOUS
  <2>2. i \in Nat
    BY Placement
  <2> QED
    BY <1>1, <2>1, <2>2
<1>3. Embeds(m, s, K, t) /\ Added(m, K, t) = {}
  OBVIOUS
<1> HIDE DEF K
<1>4. m[L] \in Turns(t) /\ t[m[L]] = s[L] /\ m[L] \in Nat
  BY <1>1, <1>3, EmbeddedKinds, Placement
<1>5. y \in Turns(t) /\ y \in Nat /\ y \in DOMAIN t /\ y <= m[L]
  BY <1>4, Placement, FirstAmong
<1> HIDE DEF y
<1>6. PICK i \in K : m[i] = y
  BY <1>3, <1>5, EmbeddedKinds
<1>7. i \in Turns(s)
  BY <1>3, <1>5, <1>6, EmbeddedKinds
<1>8. L <= i
  BY <1>2, <1>6, <1>7
<1>9. m[L] <= y
  BY <1>1, <1>3, <1>6, <1>8, EmbeddedOrder
<1>10. y = m[L]
  BY <1>4, <1>5, <1>9
<1>11. ASSUME NEW j \in Turns(s), j < a PROVE Leads(s, j)
  <2> SUFFICES ASSUME NEW b \in Asks(s) PROVE j < b
    BY DEF Leads
  <2>1. j \in Nat /\ a \in Nat /\ b \in Nat /\ a <= b
    BY Placement
  <2> QED
    BY <1>11, <2>1
<1>12. LastLead(s, L)
  <2>1. Leads(s, L)
    BY <1>11
  <2>2. ASSUME NEW k \in Turns(s), Leads(s, k) PROVE k <= L
    BY <2>2 DEF Leads
  <2> QED
    BY <2>1, <2>2 DEF LastLead
<1> QED
  BY <1>4, <1>10, <1>11, <1>12 DEF y

\* What has the first TurnStart of the stream, and one of each turn, is not collapsed.
LEMMA NormalizedRepairs ==
  ASSUME NEW s \in Stream, Started(s), Fresh(s), Asks(s) # {}
  PROVE  LET t == TurnStartsNormalized(s) IN
         /\ t \in Stream
         /\ Repaired(s, t) \/ /\ ~Single(s) /\ Owned(s, t) /\ Turns(s) # {} /\ Turns(t) # {}
                              /\ t[FirstOf(Turns(t))] # s[FirstOf(Turns(s))]
<1> DEFINE t == TurnStartsNormalized(s)
           x == FirstOf(Turns(s))
<1>1. /\ t \in Stream
      /\ \/ t = s
         \/ Collapses(s, t)
         \/ Inserts(s, t)
  BY NormalizedCases
<1> HIDE DEF t
<1>2. CASE t = s
  <2>1. Embeds([i \in DOMAIN s |-> i], s, DOMAIN s, s)
    BY DEF Embeds
  <2>2. Added([i \in DOMAIN s |-> i], DOMAIN s, s) = {}
    BY DEF Added
  <2>3. Fences(s) \subseteq DOMAIN s
    BY CallPlacement
  <2> DEFINE m == [i \in DOMAIN s |-> i]
             K == DOMAIN s
  <2>4. Embeds(m, s, K, s) /\ Added(m, K, s) = {} /\ Fences(s) \subseteq K
    BY <2>1, <2>2, <2>3
  <2> HIDE DEF m, K
  <2>5. Repaired(s, s)
    BY <2>4, RepairedSelected
  <2> QED
    BY <1>1, <1>2, <2>5 DEF t
<1>3. CASE Inserts(s, t)
  <2>1. PICK place \in Asks(s) : \A i \in Turns(s) : i >= place
    BY <1>3 DEF Inserts
  <2>2. PICK j \in Turns(s) : j <= place
    BY Placement DEF Started
  <2>3. j >= place /\ j \in Nat /\ place \in Nat /\ j # place
    BY <2>1, Placement
  <2> QED
    BY <2>2, <2>3
<1>4. CASE Collapses(s, t)
  <2>1. PICK L \in Turns(s), a \in Asks(s) :
          /\ L < a /\ (\A b \in Asks(s) : a <= b) /\ \A i \in Turns(s) : i < a => i <= L
          /\ \E m : /\ Embeds(m, s, DOMAIN s \ {i \in Turns(s) : i < a /\ i # L}, t)
                    /\ Added(m, DOMAIN s \ {i \in Turns(s) : i < a /\ i # L}, t) = {}
    BY <1>4 DEF Collapses
  <2> DEFINE K == DOMAIN s \ {i \in Turns(s) : i < a /\ i # L}
  <2>2. PICK m : Embeds(m, s, K, t) /\ Added(m, K, t) = {}
    BY <2>1
  <2>3. /\ Turns(t) # {} /\ t[FirstOf(Turns(t))] = s[L] /\ LastLead(s, L)
        /\ \A i \in Turns(s) : i < a => Leads(s, i)
    BY <1>1, <2>1, <2>2, CollapsedFirst
  <2>4. Owned(s, t)
    BY <1>1, <2>2, OwnedKept
  <2>5. CASE \E i \in Turns(s) : i < a /\ i # L
    <3>1. PICK i \in Turns(s) : i < a /\ i # L
      BY <2>5
    <3>2. i <= L /\ i \in Nat /\ L \in Nat
      BY <2>1, <3>1, Placement
    <3>3. ~Single(s)
      BY <2>1, <2>3, <3>1 DEF Single
    <3>4. x \in Turns(s) /\ x <= i /\ x \in Nat
      BY Placement, FirstAmong
    <3> HIDE DEF x
    <3>5. x < L
      BY <3>1, <3>2, <3>4
    <3>6. s[x].n < s[L].n /\ s[x].n \in Nat /\ s[L].n \in Nat
      BY <2>3, <3>4, <3>5, Stamped, Placement DEF Fresh
    <3>7. s[L] # s[x]
      BY <3>6
    <3>8. s[L] # s[FirstOf(Turns(s))]
      BY <3>7 DEF x
    <3>9. t[FirstOf(Turns(t))] # s[FirstOf(Turns(s))]
      BY <2>3, <3>8
    <3> QED
      BY <1>1, <2>3, <2>4, <3>3, <3>9 DEF t
  <2>6. CASE ~\E i \in Turns(s) : i < a /\ i # L
    <3>1. Fences(s) \subseteq K
      BY <2>6, CallPlacement
    <3> HIDE DEF K
    <3>2. Repaired(s, t)
      BY <1>1, <2>2, <3>1, RepairedSelected
    <3> QED
      BY <1>1, <3>2 DEF t
  <2> QED
    BY <2>5, <2>6
<1> QED
  BY <1>1, <1>2, <1>3, <1>4 DEF t

\* A turn whose summary is kept where it was is still told of by it.
LEMMA SanitizedFits ==
  ASSUME NEW s \in Stream, Started(s), Directed(s), Faith(s),
         Opening(s) \/ (Fresh(s) /\ ~Displaced(s, Sanitized(s)))
  PROVE  LET t == Sanitized(s) IN
         /\ t \in Stream /\ Owned(s, t)
         /\ Overlays(t) = {} \/ /\ Faith(t)
                                /\ Asks(s) # {} => Cardinality(Turns(t)) = Cardinality(Turns(s))
<1> DEFINE r == Mended(s)
           b == TrailingTurnTrimmed(r)
           t == TurnStartsNormalized(b)
<1>1. r \in Stream /\ Repaired(s, r) /\ Directed(r) /\ BeforeNormalized(s) = b
  BY MendedRepairs
<1>2. Sanitized(s) = t
  BY <1>1, SanitizedIs
<1> HIDE DEF r
<1>3. /\ b \in Stream /\ Owned(r, b)
      /\ Speech(r) = {} => Speech(b) = {}
      /\ Speech(r) # {} => Repaired(r, b) /\ Speech(b) # {}
  BY <1>1, TrailingTrimmedRepairs
<1> HIDE DEF b
<1>4. /\ t \in Stream
      /\ \/ t = b /\ Conversation(b) = Turns(b)
         \/ Collapses(b, t)
         \/ Inserts(b, t) /\ Conversation(b) # Turns(b)
  BY <1>3, NormalizedCases
<1>5. Fresh(s)
  BY OpeningSingle
<1>6. Owned(s, b)
  BY <1>1, <1>3, OwnedThrough DEF Repaired
<1>7. CASE Speech(r) = {}
  <2>1. Conversation(b) = Turns(b) /\ Asks(b) = {}
    BY <1>3, <1>7, Placement, SpeechPlaces DEF Speech
  <2>2. t = b
    BY <1>4, <2>1 DEF Collapses
  <2>3. Faith(b)
    BY <1>3, <1>7 DEF Faith
  <2>4. Asks(s) = {}
    <3>1. Asks(r) = {}
      BY <1>1, <1>7, SpeechPlaces
    <3> QED
      BY <1>1, <3>1, CarriesTurns DEF Repaired
  <2> QED
    BY <1>2, <1>4, <1>6, <2>2, <2>3, <2>4
<1>8. CASE Speech(r) # {}
  <2>1. Repaired(s, b)
    BY <1>1, <1>3, <1>8, RepairedThrough
  <2>2. Started(b) /\ Faith(b) /\ Carries(s, b)
    BY <2>1 DEF Repaired
  <2>3. Cardinality(Turns(b)) = Cardinality(Turns(s)) /\ (Asks(s) = {} <=> Asks(b) = {})
    BY <1>3, <2>2, CarriesTurns
  <2>4. Conversation(b) # Turns(b)
    BY <1>3, <1>8 DEF Speech
  <2>5. CASE Asks(s) = {}
    <3>1. Asks(b) = {}
      BY <2>3, <2>5
    <3>2. Inserts(b, t)
      BY <1>4, <2>4, <3>1 DEF Collapses
    <3>3. PICK place \in DOMAIN b :
            LET m == [i \in DOMAIN b |-> IF i < place THEN i ELSE i + 1] IN
            Embeds(m, b, DOMAIN b, t) /\ Added(m, DOMAIN b, t) = {place} /\ \E stamp \in Nat : t[place] = Turn(stamp)
      BY <3>2 DEF Inserts
    <3> DEFINE m == [i \in DOMAIN b |-> IF i < place THEN i ELSE i + 1]
    <3>4. Embeds(m, b, DOMAIN b, t) /\ Added(m, DOMAIN b, t) = {place} /\ t[place].kind = "turn"
      BY <3>3 DEF Turn
    <3> HIDE DEF m, t
    <3>5. Added(m, DOMAIN b, t) \cap Overlays(t) = {}
      BY <1>4, <3>4, OverlayPlaces
    <3>6. Owned(b, t)
      BY <1>3, <1>4, <3>4, <3>5, OwnedKept
    <3>7. Owned(s, t)
      BY <1>6, <3>6, OwnedThrough
    <3>8. place \in Turns(t) /\ \A i \in DOMAIN b : m[i] # place
      BY <1>4, <3>4, Placement DEF Added
    <3>9. Cardinality(Turns(t)) = Cardinality(Turns(b)) + 1
      <4> DEFINE T == Turns(t) \ {place}
                 g == [i \in Turns(b) |-> m[i]]
      <4>1. \A i \in Turns(b) : i \in DOMAIN b /\ m[i] \in T
        BY <1>3, <1>4, <3>4, <3>8, EmbeddedKinds, Placement
      <4>2. g \in [Turns(b) -> T]
        BY <4>1
      <4>3. \A i, j \in Turns(b) : g[i] = g[j] => i = j
        BY <1>3, <1>4, <3>4, <4>1, EmbeddedOrder
      <4>4. \A z \in T : \E i \in Turns(b) : g[i] = z
        <5> SUFFICES ASSUME NEW z \in T PROVE \E i \in Turns(b) : m[i] = z
          OBVIOUS
        <5>1. z \in DOMAIN t /\ z \notin Added(m, DOMAIN b, t)
          BY <1>4, <3>4, Placement
        <5>2. PICK i \in DOMAIN b : m[i] = z
          BY <1>3, <1>4, <3>4, <5>1, EmbeddedKinds
        <5> QED
          BY <1>3, <1>4, <3>4, <5>2, EmbeddedKinds
      <4>5. IsFiniteSet(Turns(b)) /\ Cardinality(Turns(b)) \in Nat
        BY <1>3, TurnsFinite
      <4> HIDE DEF g, T
      <4>6. IsFiniteSet(T) /\ Cardinality(T) = Cardinality(Turns(b))
        BY <4>2, <4>3, <4>4, <4>5, Paired1to1
      <4>7. Turns(t) = T \cup {place} /\ place \notin T
        BY <3>8 DEF T
      <4> QED
        BY <4>6, <4>7, FS_AddElement
    <3>10. ~Opening(s)
      BY <2>5, OpeningStarts
    <3>11. ~Displaced(s, t)
      BY <1>2, <3>10 DEF t
    <3>12. Overlays(s) = {}
      <4> SUFFICES ASSUME NEW o \in Overlays(s) PROVE FALSE
        OBVIOUS
      <4>1. Cardinality(Turns(t)) <= Cardinality(Turns(s))
        BY <1>4, <3>11, Undisplaced
      <4>2. Cardinality(Turns(s)) \in Nat
        BY TurnsFinite
      <4> QED
        BY <2>3, <3>9, <4>1, <4>2
    <3>13. Overlays(t) = {}
      BY <3>7, <3>12 DEF Owned
    <3> QED
      BY <1>2, <1>4, <3>7, <3>13 DEF t
  <2>6. CASE Asks(s) # {}
    <3>1. Asks(b) # {} /\ Fresh(b) /\ (Single(s) => Single(b))
      BY <1>3, <1>5, <2>2, <2>3, <2>6, CarriesFresh
    <3>2. \/ Repaired(b, t)
          \/ /\ ~Single(b) /\ Owned(b, t) /\ Turns(b) # {} /\ Turns(t) # {}
             /\ t[FirstOf(Turns(t))] # b[FirstOf(Turns(b))]
      BY <1>3, <2>2, <3>1, NormalizedRepairs
    <3> HIDE DEF t
    <3>3. CASE Repaired(b, t)
      <4>1. Repaired(s, t)
        BY <1>3, <1>4, <2>1, <3>3, RepairedThrough
      <4>2. Faith(t) /\ Owned(s, t) /\ Carries(s, t)
        BY <4>1 DEF Repaired
      <4>3. Cardinality(Turns(t)) = Cardinality(Turns(s))
        BY <1>4, <4>2, CarriesTurns
      <4> QED
        BY <1>2, <1>4, <4>2, <4>3
    <3>4. CASE /\ ~Single(b) /\ Owned(b, t) /\ Turns(b) # {} /\ Turns(t) # {}
               /\ t[FirstOf(Turns(t))] # b[FirstOf(Turns(b))]
      <4>1. Owned(s, t)
        BY <1>6, <3>4, OwnedThrough
      <4>2. ~Opening(s)
        BY <3>1, <3>4, OpeningSingle
      <4>3. ~Displaced(s, t)
        BY <1>2, <4>2
      <4>4. Turns(s) # {}
        <5>1. PICK a \in Conversation(s) : TRUE
          BY <2>6, Placement
        <5> QED
          BY <5>1 DEF Started
      <4>5. b[FirstOf(Turns(b))] = s[FirstOf(Turns(s))]
        BY <1>3, <2>2, <4>4, CarriesFirst
      <4>6. Overlays(s) = {}
        <5> SUFFICES ASSUME NEW o \in Overlays(s) PROVE FALSE
          OBVIOUS
        <5>1. s[FirstOf(Turns(s))] = t[FirstOf(Turns(t))]
          BY <1>4, <3>4, <4>3, <4>4, Undisplaced
        <5> QED
          BY <3>4, <4>5, <5>1
      <4>7. Overlays(t) = {}
        BY <4>1, <4>6 DEF Owned
      <4> QED
        BY <1>2, <1>4, <4>1, <4>7
    <3> QED
      BY <3>2, <3>3, <3>4
  <2> QED
    BY <2>5, <2>6
<1> QED
  BY <1>7, <1>8

LEMMA AgedNormalized ==
  ASSUME NEW s \in Stream, Aged(s)
  PROVE  Aged(TurnStartsNormalized(s))
<1> DEFINE t == TurnStartsNormalized(s)
<1>1. /\ t \in Stream
      /\ \/ t = s
         \/ Collapses(s, t)
         \/ Inserts(s, t)
  BY NormalizedCases
<1> HIDE DEF t
<1>2. CASE Collapses(s, t)
  <2>1. \E K, m : Embeds(m, s, K, t) /\ Added(m, K, t) = {}
    BY <1>2 DEF Collapses
  <2>2. PICK K, m : Embeds(m, s, K, t) /\ Added(m, K, t) = {}
    BY <2>1
  <2>3. Aged(t)
    BY <1>1, <2>2, AgedSelected
  <2> QED
    BY <2>3 DEF t
<1>3. CASE Inserts(s, t)
  <2>1. PICK place \in DOMAIN s, stamp \in Nat :
          LET m == [i \in DOMAIN s |-> IF i < place THEN i ELSE i + 1] IN
          /\ Embeds(m, s, DOMAIN s, t) /\ Added(m, DOMAIN s, t) = {place} /\ t[place] = Turn(stamp)
          /\ stamp = 0 \/ (place \in Conversation(s) /\ stamp = s[place].n)
          /\ Asks(s) = {} => place = 1
          /\ Asks(s) # {} => place \in Asks(s) /\ stamp = s[place].n
    BY <1>3 DEF Inserts
  <2> DEFINE m == [i \in DOMAIN s |-> IF i < place THEN i ELSE i + 1]
  <2>2. Embeds(m, s, DOMAIN s, t) /\ Added(m, DOMAIN s, t) = {place} /\ t[place].n = stamp
    BY <2>1 DEF Turn
  <2>3. \A i \in DOMAIN s : i \in Nat /\ i >= 1 /\ m[i] = IF i < place THEN i ELSE i + 1
    BY Positions DEF Stream
  <2> HIDE DEF m
  <2>4. ASSUME NEW i \in Conversation(s)
        PROVE  (m[i] <= place => s[i].n <= stamp) /\ (place <= m[i] => stamp <= s[i].n)
    <3>1. i \in DOMAIN s /\ i \in Nat /\ i >= 1 /\ s[i].n \in Nat /\ place \in Nat /\ place >= 1
      BY <2>3, Stamped
    <3>2. (m[i] <= place => i < place) /\ (place <= m[i] => place <= i)
      BY <2>3, <3>1
    <3>3. CASE place \in Conversation(s) /\ stamp = s[place].n
      <4>1. (i < place => s[i].n <= s[place].n) /\ (place <= i => s[place].n <= s[i].n)
        BY <3>1, <3>3 DEF Aged
      <4> QED
        BY <3>2, <3>3, <4>1
    <3>4. CASE ~(place \in Conversation(s) /\ stamp = s[place].n)
      <4>1. stamp = 0 /\ place = 1
        BY <2>1, <3>4, Placement
      <4>2. ~(m[i] <= place)
        BY <3>1, <3>2, <4>1
      <4> QED
        BY <3>1, <4>1, <4>2
    <3> QED
      BY <3>3, <3>4
  <2>5. \A p, q \in Added(m, DOMAIN s, t) : p = place /\ q = place
    BY <2>2
  <2>6. Aged(t)
    BY <1>1, <2>2, <2>4, <2>5, AgedKept
  <2> QED
    BY <2>6 DEF t
<1> QED
  BY <1>1, <1>2, <1>3 DEF t

LEMMA AgedSanitized ==
  ASSUME NEW s \in Stream, Aged(s)
  PROVE  Aged(Sanitized(s))
<1> DEFINE r == Mended(s)
           b == TrailingTurnTrimmed(r)
<1>1. r \in Stream /\ Repaired(s, r) /\ BeforeNormalized(s) = b
  BY MendedRepairs
<1>2. Sanitized(s) = TurnStartsNormalized(b)
  BY <1>1, SanitizedIs
<1>3. Aged(r)
  BY <1>1 DEF Repaired
<1> HIDE DEF r
<1>4. b \in Stream /\ Aged(b)
  BY <1>1, <1>3, TrailingTrimmedRepairs
<1> HIDE DEF b
<1> QED
  BY <1>2, <1>4, AgedNormalized

LEMMA FreshSanitized ==
  ASSUME NEW s \in Stream
  PROVE  Fresh(Sanitized(s))
<1>1. Sanitized(s) \in Stream
  BY SanitizedOpens
<1>2. CASE Asks(Sanitized(s)) # {}
  BY <1>1, <1>2, SanitizedAsks, OpeningSingle
<1> QED
  BY <1>2 DEF Fresh

-----------------------------------------------------------------------------
(* What the filters leave of summarized turns.                             *)

\* What is kept of the stream, and of the overlays those that end before the
\* first turn that loses something.
LEMMA RetainedCases ==
  ASSUME NEW s \in Stream, NEW kept, Conversation(s) \ kept # {}
  PROVE  LET t == Retained(s, kept)
             d == FirstOf(Conversation(s) \ kept)
         IN  /\ t \in Stream /\ d \in Conversation(s) /\ d \notin kept /\ d \in Nat
             /\ \A i \in Conversation(s) : i \notin kept => d <= i
             /\ \E K, m : /\ Embeds(m, s, K, t) /\ Added(m, K, t) = {}
                          /\ \A i \in Conversation(s) : i \in K <=> i \in kept
                          /\ \A o \in Overlays(s) : o \in K => s[o].to < TurnOf(s, d)
<1> DEFINE removed == Conversation(s) \ kept
           d == FirstOf(removed)
           gone == removed \cup {i \in Overlays(s) : s[i].to >= TurnOf(s, Min(removed))}
           t == Retained(s, kept)
           K == DOMAIN s \ gone
<1>1. removed \subseteq 1 .. Len(s) /\ Len(s) \in Nat /\ removed # {}
  BY Placement
<1>2. d \in removed /\ d = Min(removed) /\ \A i \in removed : d <= i
  BY <1>1, FirstAmong
<1>3. t = Pick(s, K) /\ K \subseteq DOMAIN s
  BY <1>1 DEF Retained
<1>4. \A i \in Conversation(s) : i \in K <=> i \in kept
  BY DEF Conversation, Overlays, Where, IsGlobal
<1>5. d \in Conversation(s) /\ d \notin kept /\ d \in Nat
  BY <1>2, Placement
<1>6. TurnOf(s, d) \in Nat
  BY <1>1, <1>5, Placement, OpenedFinite
<1>7. ASSUME NEW o \in Overlays(s), o \in K PROVE s[o].to < TurnOf(s, d)
  <2>1. s[o].to \in Nat
    BY OverlayFacts
  <2>2. ~(s[o].to >= TurnOf(s, d))
    BY <1>2, <1>7
  <2> QED
    BY <1>6, <2>1, <2>2
<1>8. \A i \in Conversation(s) : i \notin kept => d <= i
  BY <1>2
<1> HIDE DEF K, t, d, gone, removed
<1>9. t \in Stream /\ \E m : Embeds(m, s, K, t) /\ Added(m, K, t) = {}
  BY <1>3, PickOf
<1>10. PICK m : Embeds(m, s, K, t) /\ Added(m, K, t) = {}
  BY <1>9
<1> QED
  BY <1>4, <1>5, <1>7, <1>8, <1>9, <1>10 DEF t, d, removed

\* The turns behind a removal keep their numbers above it, if their TurnStarts stay.
LEMMA FarTurns ==
  ASSUME NEW s \in Stream, NEW t \in Stream, NEW K, NEW m, Embeds(m, s, K, t), Started(s), Started(t),
         NEW d \in Conversation(s), \A j \in Turns(s) : j < d => j \in K,
         NEW i \in K, i \in Conversation(s), TurnOf(s, d) <= TurnOf(s, i),
         \A j \in Turns(s) : j <= i /\ TurnOf(s, j) = TurnOf(s, i) => j \in K
  PROVE  TurnOf(t, m[i]) \in Nat /\ TurnOf(s, d) <= TurnOf(t, m[i])
<1>1. PICK e \in Turns(s) : e <= d /\ TurnOf(s, e) = TurnOf(s, d)
  BY TurnBehind
<1>2. PICK j \in Turns(s) : j <= i /\ TurnOf(s, j) = TurnOf(s, i)
  BY TurnBehind
<1>3. j \in K /\ j \in Nat /\ e \in Nat /\ d \in Nat /\ e \in Conversation(s) /\ j \in Conversation(s)
  BY <1>2, Placement
<1>4. e <= j
  <2>1. Conversation(s) # {}
    OBVIOUS
  <2>2. TurnOf(s, j) \in Nat /\ TurnOf(s, e) \in Nat /\ TurnOf(s, e) <= TurnOf(s, j)
    BY <1>1, <1>2, <1>3, TurnsUpto
  <2>3. j < e => TurnOf(s, j) < TurnOf(s, e)
    BY <1>3, <2>1, TurnPlaces
  <2> QED
    BY <1>3, <2>2, <2>3
<1> DEFINE f == [k \in Upto(s, e) |-> IF k = e THEN m[j] ELSE m[k]]
<1>5. \A k \in Upto(s, e) : k \in Turns(s) /\ k <= e /\ k \in Nat /\ (k # e => k \in K /\ k < e)
  <2> SUFFICES ASSUME NEW k \in Upto(s, e)
               PROVE  k \in Turns(s) /\ k <= e /\ k \in Nat /\ (k # e => k \in K /\ k < e)
    OBVIOUS
  <2>1. k \in Turns(s) /\ k <= e
    BY DEF Upto
  <2>2. k \in Nat
    BY <2>1, Placement
  <2>3. k # e => k < e /\ k < d
    BY <1>1, <1>3, <2>1, <2>2
  <2> QED
    BY <2>1, <2>2, <2>3
<1>6. \A k \in K : k \in Turns(s) /\ k <= i => m[k] \in Upto(t, m[i])
  <2> SUFFICES ASSUME NEW k \in K, k \in Turns(s), k <= i PROVE m[k] \in Turns(t) /\ m[k] <= m[i]
    BY DEF Upto
  <2> QED
    BY EmbeddedKinds, EmbeddedOrder
<1>7. i \in Nat
  BY Placement
<1>8. f \in [Upto(s, e) -> Upto(t, m[i])]
  <2> SUFFICES ASSUME NEW k \in Upto(s, e) PROVE (IF k = e THEN m[j] ELSE m[k]) \in Upto(t, m[i])
    OBVIOUS
  <2>1. CASE k = e
    BY <1>2, <1>3, <1>6, <2>1
  <2>2. CASE k # e
    <3>1. k \in K /\ k < e /\ k \in Turns(s) /\ k \in Nat
      BY <1>5, <2>2
    <3>2. k <= i
      BY <1>2, <1>3, <1>4, <1>7, <3>1
    <3> QED
      BY <1>6, <2>2, <3>1, <3>2
  <2> QED
    BY <2>1, <2>2
<1>9. ASSUME NEW x \in Upto(s, e), NEW y \in Upto(s, e), f[x] = f[y] PROVE x = y
  <2>1. CASE x = e /\ y # e
    <3>1. y \in K /\ y < e /\ m[j] = m[y] /\ y \in Nat
      BY <1>5, <1>9, <2>1
    <3>2. j = y
      BY <1>3, <3>1, EmbeddedOrder
    <3> QED
      BY <1>3, <1>4, <3>1, <3>2
  <2>2. CASE y = e /\ x # e
    <3>1. x \in K /\ x < e /\ m[j] = m[x] /\ x \in Nat
      BY <1>5, <1>9, <2>2
    <3>2. j = x
      BY <1>3, <3>1, EmbeddedOrder
    <3> QED
      BY <1>3, <1>4, <3>1, <3>2
  <2>3. CASE x # e /\ y # e
    <3>1. x \in K /\ y \in K /\ m[x] = m[y]
      BY <1>5, <1>9, <2>3
    <3> QED
      BY <3>1, EmbeddedOrder
  <2> QED
    BY <2>1, <2>2, <2>3
<1>10. IsFiniteSet(Upto(t, m[i]))
  BY TurnsFinite
<1> HIDE DEF f
<1>11. f \in Injection(Upto(s, e), Upto(t, m[i]))
  BY <1>8, <1>9 DEF Injection, IsInjective
<1>12. Cardinality(Upto(s, e)) <= Cardinality(Upto(t, m[i]))
  BY <1>10, <1>11, FS_Injection
<1>13. m[i] \in Conversation(t)
  BY EmbeddedKinds
<1>14. TurnOf(t, m[i]) \in Nat /\ TurnOf(t, m[i]) + 1 = Cardinality(Upto(t, m[i]))
  BY <1>13, TurnsUpto
<1>15. TurnOf(s, e) \in Nat /\ TurnOf(s, e) + 1 = Cardinality(Upto(s, e))
  BY <1>3, TurnsUpto
<1> QED
  BY <1>1, <1>12, <1>14, <1>15

LEMMA FaithRetained ==
  ASSUME NEW s \in Stream, NEW kept, Started(s), Faith(s),
         First(s) \in kept =>
           \A i \in Conversation(s) \cap kept, j \in Turns(s) :
             j <= i /\ TurnOf(s, j) = TurnOf(s, i) => j \in kept
  PROVE  Faith(Retained(s, kept))
<1> DEFINE t == Retained(s, kept)
           d == FirstOf(Conversation(s) \ kept)
<1>1. CASE Conversation(s) \ kept = {}
  BY <1>1 DEF Retained
<1>2. CASE Conversation(s) \ kept # {}
  <2>1. /\ t \in Stream /\ d \in Conversation(s) /\ d \notin kept /\ d \in Nat
        /\ \A i \in Conversation(s) : i \notin kept => d <= i
    BY <1>2, RetainedCases
  <2>2. PICK K, m : /\ Embeds(m, s, K, t) /\ Added(m, K, t) = {}
                    /\ \A i \in Conversation(s) : i \in K <=> i \in kept
                    /\ \A o \in Overlays(s) : o \in K => s[o].to < TurnOf(s, d)
    BY <1>2, RetainedCases
  <2> HIDE DEF t, d
  <2>3. /\ First(s) \in Turns(s) /\ TurnOf(s, First(s)) = 0
        /\ \A i \in Conversation(s) : First(s) <= i
        /\ \A i, j \in Conversation(s) : i <= j => TurnOf(s, i) <= TurnOf(s, j)
    BY <2>1, TurnPlaces
  <2>4. First(s) \in Conversation(s) /\ First(s) \in Nat
    BY <2>3, Placement
  <2>5. ASSUME NEW o \in Overlays(t)
        PROVE  \E q \in Overlays(s) : t[o] = s[q] /\ s[q].to \in Nat /\ s[q].from \in Nat /\ s[q].to < TurnOf(s, d)
    <3>1. o \in DOMAIN t
      BY <2>1, OverlayFacts
    <3>2. PICK q \in K : m[q] = o
      BY <2>1, <2>2, <3>1, EmbeddedKinds
    <3>3. q \in Overlays(s) /\ t[o] = s[q]
      BY <2>1, <2>2, <3>2, EmbeddedKinds DEF Overlays
    <3> QED
      BY <2>2, <3>2, <3>3, OverlayFacts
  <2>6. CASE First(s) \notin kept
    <3>1. d = First(s)
      BY <2>1, <2>3, <2>4, <2>6
    <3>2. Overlays(t) = {}
      BY <2>3, <2>5, <3>1
    <3> QED
      BY <3>2, UnsummarizedFaith DEF t
  <2>7. CASE First(s) \in kept
    <3>1. Started(t)
      <4>1. m[First(s)] \in Turns(t)
        BY <2>1, <2>2, <2>3, <2>4, <2>7, EmbeddedKinds
      <4>2. ASSUME NEW x \in Conversation(t) PROVE m[First(s)] <= x
        <5>1. x \in DOMAIN t
          BY <2>1, Stamped
        <5>2. PICK i \in K : m[i] = x
          BY <2>1, <2>2, <5>1, EmbeddedKinds
        <5>3. i \in Conversation(s)
          BY <2>1, <2>2, <5>2, EmbeddedKinds
        <5>4. First(s) <= i /\ First(s) \in K
          BY <2>2, <2>3, <2>4, <2>7, <5>3
        <5> QED
          BY <2>1, <2>2, <5>2, <5>4, EmbeddedOrder
      <4> QED
        BY <4>1, <4>2 DEF Started
    <3>2. ASSUME NEW o \in Overlays(t), NEW p \in Speech(t), Covers(t, o, p) PROVE t[p].n \in t[o].of
      <4>1. PICK q \in Overlays(s) : t[o] = s[q] /\ s[q].to \in Nat /\ s[q].from \in Nat /\ s[q].to < TurnOf(s, d)
        BY <2>5
      <4>2. p \in DOMAIN t
        BY <2>1, SpeechPlaces
      <4>3. PICK i \in K : m[i] = p
        BY <2>1, <2>2, <4>2, EmbeddedKinds
      <4>4. i \in Speech(s) /\ t[p] = s[i]
        BY <2>1, <2>2, <4>3, EmbeddedKinds, EmbeddedSpeech
      <4>5. i \in Conversation(s) /\ i \in kept /\ i \in Nat
        BY <2>2, <4>4, SpeechPlaces
      <4>6. TurnOf(s, d) \in Nat /\ TurnOf(s, i) \in Nat
        BY <2>1, <4>5, TurnsUpto
      <4>7. TurnOf(t, p) \in s[q].from .. s[q].to
        BY <3>2, <4>1 DEF Covers
      <4>8. CASE TurnOf(s, i) < TurnOf(s, d)
        <5>1. ASSUME NEW j \in Turns(s), j <= i PROVE j \in K
          <6>1. j \in Conversation(s)
            BY Placement
          <6>2. TurnOf(s, j) <= TurnOf(s, i) /\ TurnOf(s, j) \in Nat
            BY <2>3, <4>5, <5>1, <6>1, TurnsUpto
          <6>3. d <= j => TurnOf(s, d) <= TurnOf(s, j)
            BY <2>1, <2>3, <6>1
          <6>4. ~(d <= j)
            BY <4>6, <4>8, <6>2, <6>3
          <6> QED
            BY <2>1, <2>2, <6>1, <6>4
        <5>2. TurnOf(t, m[i]) = TurnOf(s, i)
          BY <2>1, <2>2, <3>1, <4>5, <5>1, TurnKept
        <5>3. Covers(s, q, i)
          BY <3>2, <4>1, <4>3, <5>2 DEF Covers
        <5> QED
          BY <4>1, <4>4, <5>3 DEF Faith
      <4>9. CASE TurnOf(s, d) <= TurnOf(s, i)
        <5>1. \A j \in Turns(s) : j < d => j \in K
          <6> SUFFICES ASSUME NEW j \in Turns(s), j < d PROVE j \in K
            OBVIOUS
          <6>1. j \in Conversation(s) /\ j \in Nat /\ ~(d <= j)
            BY <2>1, Placement
          <6> QED
            BY <2>1, <2>2, <6>1
        <5>2. \A j \in Turns(s) : j <= i /\ TurnOf(s, j) = TurnOf(s, i) => j \in K
          BY <2>2, <2>7, <4>5, Placement
        <5>3. TurnOf(t, m[i]) \in Nat /\ TurnOf(s, d) <= TurnOf(t, m[i])
          BY <2>1, <2>2, <3>1, <4>5, <4>9, <5>1, <5>2, FarTurns
        <5> QED
          BY <4>1, <4>3, <4>6, <4>7, <5>3
      <4> QED
        BY <4>6, <4>8, <4>9
    <3>3. Faith(t)
      BY <3>2 DEF Faith
    <3> QED
      BY <3>3 DEF t
  <2> QED
    BY <2>6, <2>7
<1> QED
  BY <1>1, <1>2

LEMMA AgedRetained ==
  ASSUME NEW s \in Stream, NEW kept, Aged(s)
  PROVE  Aged(Retained(s, kept))
<1> DEFINE t == Retained(s, kept)
<1>1. t \in Stream
  BY RetainedEmbeds
<1>2. PICK K, m : Embeds(m, s, K, t) /\ Added(m, K, t) = {}
  BY RetainedEmbeds
<1> HIDE DEF t
<1>3. Aged(t)
  BY <1>1, <1>2, AgedSelected
<1> QED
  BY <1>3 DEF t

LEMMA FaithFiltered ==
  ASSUME stream \in Stream, clock \in Nat, Started(stream), Aged(stream), NEW filtered \in Filtered
  PROVE  Aged(filtered) /\ (Faith(stream) => Faith(filtered))
<1>1. ASSUME NEW w, w.from \in Nat, w.until \in Nat
      PROVE  Aged(Timely(stream, w)) /\ (Faith(stream) => Faith(Timely(stream, w)))
  <2> DEFINE kept == {i \in DOMAIN stream : w.from <= stream[i].n /\ stream[i].n < w.until}
             x == First(stream)
  <2>1. Timely(stream, w) = Retained(stream, kept)
    BY DEF Timely
  <2>2. ASSUME x \in kept, NEW i \in Conversation(stream) \cap kept, NEW j \in Turns(stream), j <= i
        PROVE  j \in kept
    <3>1. j \in Conversation(stream) /\ j \in DOMAIN stream /\ i \in Conversation(stream)
      BY Placement
    <3>2. x <= j /\ x \in Turns(stream) /\ x \in Conversation(stream)
      BY <3>1, TurnPlaces, Placement
    <3>3. w.from <= stream[x].n /\ stream[i].n < w.until
      BY <2>2
    <3> HIDE DEF kept, x
    <3>4. stream[x].n <= stream[j].n /\ stream[j].n <= stream[i].n
      BY <2>2, <3>1, <3>2 DEF Aged
    <3>5. stream[x].n \in Nat /\ stream[j].n \in Nat /\ stream[i].n \in Nat
      BY <3>1, <3>2, Stamped
    <3>6. w.from <= stream[j].n /\ stream[j].n < w.until
      BY <1>1, <3>3, <3>4, <3>5
    <3> QED
      BY <3>1, <3>6 DEF kept
  <2> HIDE DEF kept
  <2>3. Faith(stream) => Faith(Retained(stream, kept))
    BY <2>2, FaithRetained
  <2> QED
    BY <2>1, <2>3, AgedRetained
<1>2. \A w \in Windows : w.from \in Nat /\ w.until \in Nat
  <2> DEFINE times == {stream[i].n : i \in Conversation(stream)}
  <2>1. times \subseteq Nat
    BY Stamped
  <2> HIDE DEF times
  <2>2. \A a, b \in Nat : Window(a, b).from \in Nat /\ Window(a, b).until \in Nat
    BY DEF Window
  <2>3. Windows = {Always} \cup {Window(u, clock) : u \in times} \cup {Window(0, u) : u \in times}
    BY DEF Windows, times
  <2> QED
    BY <2>1, <2>2, <2>3 DEF Always
<1>3. CASE \E w \in Windows : filtered = Timely(stream, w)
  BY <1>1, <1>2, <1>3
<1>4. ASSUME NEW first, NEW last
      PROVE  LET t == FirstAndLastTurns(stream, first, last) IN Aged(t) /\ (Faith(stream) => Faith(t))
  <2> DEFINE starts == Cardinality(Where(stream, {"turn"}))
             keeps(seen) == seen \in 1..first \/ seen + last > starts
             kept == {i \in DOMAIN stream : keeps(StartsSeen(stream, i))}
  <2>1. ASSUME NEW i \in Conversation(stream) \cap kept, NEW j \in Turns(stream), j <= i,
               TurnOf(stream, j) = TurnOf(stream, i)
        PROVE  j \in kept
    <3>1. i \in Nat /\ j \in Nat /\ j \in DOMAIN stream /\ i \in DOMAIN stream /\ j \in Conversation(stream)
          /\ i \in Conversation(stream) /\ i <= Len(stream) /\ Len(stream) \in Nat
      BY Placement, Positions DEF Stream
    <3>2. \A k \in Turns(stream) : k <= i => k <= j
      <4> SUFFICES ASSUME NEW k \in Turns(stream), k <= i, ~(k <= j) PROVE FALSE
        OBVIOUS
      <4>1. k \in Nat /\ k \in Conversation(stream) /\ j < k
        BY <3>1, Placement
      <4>2. TurnOf(stream, j) < TurnOf(stream, k) /\ TurnOf(stream, k) <= TurnOf(stream, i)
        BY <3>1, <4>1, TurnPlaces
      <4>3. TurnOf(stream, i) \in Nat /\ TurnOf(stream, j) \in Nat /\ TurnOf(stream, k) \in Nat
        BY <3>1, <4>1, TurnsUpto
      <4> QED
        BY <2>1, <4>2, <4>3
    <3>3. {k \in 1 .. i : stream[k].kind = "turn"} = {k \in 1 .. j : stream[k].kind = "turn"}
      <4>1. ASSUME NEW k \in 1 .. i, stream[k].kind = "turn" PROVE k \in 1 .. j
        <5>1. k \in DOMAIN stream
          BY <3>1, Positions DEF Stream
        <5>2. k \in Turns(stream)
          BY <4>1, <5>1, Placement
        <5> QED
          BY <3>1, <3>2, <5>2
      <4>2. \A k \in 1 .. j : k \in 1 .. i
        BY <2>1, <3>1
      <4> QED
        BY <4>1, <4>2
    <3>4. StartsSeen(stream, j) = StartsSeen(stream, i)
      BY <3>3 DEF StartsSeen
    <3> QED
      BY <2>1, <3>1, <3>4
  <2>2. FirstAndLastTurns(stream, first, last) = IF first + last >= starts THEN stream ELSE Retained(stream, kept)
    BY DEF FirstAndLastTurns
  <2> HIDE DEF kept, starts
  <2>3. Faith(stream) => Faith(Retained(stream, kept))
    BY <2>1, FaithRetained
  <2> QED
    BY <2>2, <2>3, AgedRetained
<1> QED
  BY <1>3, <1>4 DEF Filtered

-----------------------------------------------------------------------------
(* What compaction adds.                                                   *)

LEMMA RangesWithin ==
  ASSUME NEW s \in Stream, Started(s), NEW r \in Ranges(s)
  PROVE  r.to < Cardinality(Turns(s))
<1> DEFINE c == Cardinality(Turns(s))
           last == TurnCount(s) - 1
<1>1. r.to \in Nat /\ r.to < TurnCount(s) /\ TurnCount(s) \in Nat
  BY RuleLists_Rules, TurnsCounted DEF Ranges, TurnRange
<1>2. Conversation(s) # {}
  BY <1>1 DEF TurnCount
<1>3. last \in 0 .. TurnCount(s) - 1
  BY <1>1
<1>4. PICK i \in Turns(s) : TurnOf(s, i) = last
  BY <1>2, <1>3, TurnStarts
<1>5. last + 1 = Cardinality(Upto(s, i)) /\ i \in Conversation(s)
  BY <1>4, Placement, TurnsUpto
<1>6. Cardinality(Upto(s, i)) <= c /\ c \in Nat
  <2>1. Upto(s, i) \subseteq Turns(s)
    BY DEF Upto
  <2> QED
    BY <2>1, TurnsFinite, FS_Subset
<1> QED
  BY <1>1, <1>5, <1>6

\* The overlays end before turn c.
Ending(s, c) == \A o \in Overlays(s) : s[o].to < c

LEMMA SummaryRangeWithin ==
  ASSUME NEW s \in Stream, WellRanged(s), NEW range \in TurnRange, NEW c \in Nat, range.to < c, Ending(s, c)
  PROVE  SummaryRange(s, range).to < c
<1> DEFINE n == Cardinality(Overlays(s))
           r == SummaryRange(s, range)
<1>1. PICK f : Growing(f, s, range)
  BY GrowthDefined
<1>2. /\ n \in Nat /\ \A k \in 0 .. n : f[k] \in TurnRange
      /\ \A k \in 1 .. n : f[k] = Grown(s, f[k - 1])
      /\ r = f[n] /\ f[0] = range
  BY <1>1, OverlaysFinite DEF Growing
<1> HIDE DEF n, r
<1> DEFINE T == {k \in 0 .. n : f[k].to < c}
<1>3. 0 \in T
  BY <1>2
<1>4. ASSUME NEW k \in 0 .. n - 1, k \in T PROVE k + 1 \in T
  <2> DEFINE x == f[k]
             y == f[k + 1]
  <2>1. k + 1 \in 1 .. n /\ k + 1 \in 0 .. n /\ (k + 1) - 1 = k /\ k \in 0 .. n
    BY <1>2
  <2>2. x \in TurnRange /\ y \in TurnRange /\ y = Grown(s, x) /\ x.to < c
    BY <1>2, <1>4, <2>1
  <2>3. y.to < c => k + 1 \in T
    BY <2>1
  <2> HIDE DEF x, y, T
  <2>4. y.to = x.to \/ \E i \in Touched(s, x) : y.to = s[i].to
    BY <2>2, GrownRange
  <2>5. \A i \in Touched(s, x) : i \in Overlays(s)
    BY DEF Touched
  <2>6. y.to < c
    BY <2>2, <2>4, <2>5 DEF Ending
  <2> QED
    BY <2>3, <2>6
<1> HIDE DEF T
<1>5. n \in T
  BY <1>2, <1>3, <1>4, InductionUpTo
<1>6. r.to < c
  BY <1>2, <1>5 DEF T
<1> QED
  BY <1>6 DEF r

\* An overlay of a new summary.
Telling(e, s, c) == e.kind = "overlay" /\ e.to < c /\ e.of = Stamps(s, e.from, e.to)

LEMMA CompactStepTells ==
  ASSUME NEW s \in Stream, NEW n \in Nat, NEW before \in Stream, WellRanged(before), NEW rule \in Rule,
         NEW c \in Nat, Ending(before, c), rule.range.to < c
  PROVE  NewOverlayOf(s, n, before, rule) \in Event /\ Telling(NewOverlayOf(s, n, before, rule), s, c)
<1> DEFINE e == NewOverlayOf(s, n, before, rule)
           r == NewRange(before, rule)
<1>1. e \in Event /\ e.kind = "overlay"
  BY CompactStepTyped
<1>2. r \in TurnRange
  BY CompactStepTyped
<1>3. e.from = r.from /\ e.to = r.to
  BY CompactStepTyped
<1>4. e.of = Stamps(s, r.from, r.to)
  BY CompactStepTyped
<1>5. r.to < c
  <2>1. rule.range \in TurnRange
    BY DEF Rule
  <2>2. CASE "summary" \in rule.policy
    <3>1. r = SummaryRange(before, rule.range)
      BY <2>2 DEF NewRange
    <3> QED
      BY <2>1, <3>1, SummaryRangeWithin
  <2>3. CASE "summary" \notin rule.policy
    BY <2>3 DEF NewRange
  <2> QED
    BY <2>2, <2>3
<1> HIDE DEF e, r
<1>6. Telling(e, s, c)
  BY <1>1, <1>3, <1>4, <1>5 DEF Telling
<1> QED
  BY <1>1, <1>6 DEF e

LEMMA AppendBehind ==
  ASSUME NEW s \in Stream, NEW u \in Stream, NEW e \in Event
  PROVE  Append(s \o u, e) = s \o Append(u, e)
BY DEF Stream

Narrow(rules, c) == \A k \in DOMAIN rules : rules[k].range.to < c

LEMMA CompactedTells ==
  ASSUME NEW s \in Stream, WellRanged(s), NEW n \in Nat, NEW rules \in Seq(Rule), NEW c \in Nat,
         Ending(s, c), Narrow(rules, c)
  PROVE  \E u \in Stream : Compacted(s, rules, n) = s \o u /\ \A q \in DOMAIN u : Telling(u[q], s, c)
<1>1. PICK f : Compacting(f, s, rules, n)
  BY CompactionDefined
<1> DEFINE Tells(t) == \E u \in Stream : t = s \o u /\ \A q \in DOMAIN u : Telling(u[q], s, c)
           T == {k \in 0 .. Len(rules) : Tells(f[k])}
<1>2. Len(rules) \in Nat
  OBVIOUS
<1>3. 0 \in T
  <2>1. f[0] = s \o <<>> /\ <<>> \in Stream
    BY <1>1 DEF Compacting, Stream
  <2>2. DOMAIN <<>> = {}
    OBVIOUS
  <2>3. \A q \in DOMAIN <<>> : Telling(<<>>[q], s, c)
    BY <2>2
  <2>4. Tells(f[0])
    BY <2>1, <2>3, Zenon
  <2> QED
    BY <1>2, <2>4
<1>4. ASSUME NEW k \in 0 .. Len(rules) - 1, k \in T PROVE k + 1 \in T
  <2>1. k + 1 \in 1 .. Len(rules) /\ k + 1 \in 0 .. Len(rules) /\ (k + 1) - 1 = k /\ k \in 0 .. Len(rules)
        /\ k + 1 \in DOMAIN rules
    BY <1>2
  <2>2. f[k + 1] = CompactStep(s, n, f[k], rules[k + 1])
    BY <1>1, <2>1 DEF Compacting
  <2> DEFINE before == f[k]
             rule == rules[k + 1]
             e == NewOverlayOf(s, n, before, rule)
             r == NewRange(before, rule)
  <2>13. rule \in Rule /\ rule.range.to < c
    BY <2>1 DEF Narrow
  <2>14. before \in Stream /\ WellRanged(before)
    BY <1>1, <2>1 DEF Compacting
  <2>3. before \in Stream /\ WellRanged(before) /\ rule \in Rule /\ rule.range.to < c
    BY <2>13, <2>14
  <2>4. PICK u \in Stream : before = s \o u /\ \A q \in DOMAIN u : Telling(u[q], s, c)
    BY <1>4
  <2>5. f[k + 1] = Append(before, e)
    BY <2>2 DEF CompactStep
  <2> HIDE DEF before, rule
  <2>6. Ending(before, c)
    <3> SUFFICES ASSUME NEW o \in Overlays(before) PROVE before[o].to < c
      BY DEF Ending
    <3>1. o \in DOMAIN before /\ before[o].kind = "overlay"
      BY <2>3, OverlayPlaces
    <3>2. CASE o \in DOMAIN s
      <4>1. before[o] = s[o]
        BY <2>4, <3>2, AppendedAt
      <4>2. o \in Overlays(s)
        BY <3>1, <3>2, <4>1, OverlayPlaces
      <4> QED
        BY <4>1, <4>2 DEF Ending
    <3>3. CASE o \notin DOMAIN s
      <4>1. PICK q \in DOMAIN u : o = Len(s) + q
        BY <2>4, <3>1, <3>3, AppendedAt
      <4>2. before[o] = u[q]
        BY <2>4, <4>1, AppendedAt
      <4> QED
        BY <2>4, <4>2 DEF Telling
    <3> QED
      BY <3>2, <3>3
  <2>7. e \in Event /\ Telling(e, s, c)
    <3> HIDE DEF T
    <3>1. before \in Stream
      BY <2>3
    <3>2. WellRanged(before)
      BY <2>3
    <3>3. rule \in Rule
      BY <2>3
    <3>4. rule.range.to < c
      BY <2>3
    <3> QED
      BY <2>6, <3>1, <3>2, <3>3, <3>4, CompactStepTells
  <2>8. e \in Event
    BY <2>7
  <2> HIDE DEF e
  <2>9. Append(u, e) \in Stream /\ \A q \in DOMAIN Append(u, e) : Telling(Append(u, e)[q], s, c)
    BY <2>4, <2>7, <2>8 DEF Stream
  <2>10. Append(s \o u, e) = s \o Append(u, e)
    BY <2>8, AppendBehind, Zenon
  <2>11. Tells(f[k + 1])
    BY <2>4, <2>5, <2>9, <2>10
  <2> QED
    BY <2>1, <2>11
<1> HIDE DEF T
<1>5. Len(rules) \in T
  BY <1>2, <1>3, <1>4, InductionUpTo
<1> QED
  BY <1>1, <1>5 DEF T, Compacting

\* A new summary tells of what is in its turns, and they are there.
LEMMA FaithCompacted ==
  ASSUME NEW s \in Stream, WellRanged(s), Started(s), Faith(s), Behind(s, 0), NEW n \in Nat,
         NEW rules \in Seq(Rule), Narrow(rules, Cardinality(Turns(s)))
  PROVE  Faith(Compacted(s, rules, n)) /\ Behind(Compacted(s, rules, n), 0)
<1> DEFINE c == Cardinality(Turns(s))
           t == Compacted(s, rules, n)
           m == [i \in DOMAIN s |-> i]
<1>1. c \in Nat
  BY TurnsFinite
<1>2. \A o \in Overlays(s) : s[o].to \in Nat /\ s[o].to < c
  <2> HIDE DEF c
  <2>1. \A o \in Overlays(s) : s[o].to \in Nat /\ s[o].to + 0 < c
    BY OverlayFacts DEF Behind, c
  <2> QED
    BY <2>1
<1>3. PICK u \in Stream : t = s \o u /\ \A q \in DOMAIN u : Telling(u[q], s, c)
  <2>1. Ending(s, c) /\ Narrow(rules, c)
    BY <1>2 DEF Ending
  <2> HIDE DEF c, t
  <2>2. \E u \in Stream : Compacted(s, rules, n) = s \o u /\ \A q \in DOMAIN u : Telling(u[q], s, c)
    BY <1>1, <2>1, CompactedTells
  <2> QED
    BY <2>2 DEF t
<1>4. t \in Stream /\ Spared(s, t)
  BY CompactedSpared
<1> HIDE DEF t, c
<1>5. Carries(s, t) /\ Started(t)
  BY <1>4, CarriesSpared, StartedShorter
<1>6. Cardinality(Turns(t)) = c
  BY <1>4, <1>5, CarriesTurns DEF c
<1>7. /\ Embeds(m, s, DOMAIN s, t)
      /\ \A p \in Added(m, DOMAIN s, t) : p - Len(s) \in DOMAIN u /\ p \in Len(s) + 1 .. Len(s) + Len(u)
                                          /\ t[p] = u[p - Len(s)]
  BY <1>3, ConcatEmbeds
<1>8. \A i \in DOMAIN s : m[i] = i
  OBVIOUS
<1> HIDE DEF m
<1>9. \A p \in Added(m, DOMAIN s, t) : Telling(t[p], s, c)
  BY <1>3, <1>7
<1>10. Added(m, DOMAIN s, t) \cap Conversation(t) = {}
  BY <1>4, <1>9, Placement DEF Telling
<1>11. ASSUME NEW o \in Overlays(t)
       PROVE  \/ \E q \in Overlays(s) : t[o] = s[q]
              \/ Telling(t[o], s, c)
  <2>1. o \in DOMAIN t
    BY <1>4, OverlayFacts
  <2>2. CASE o \notin Added(m, DOMAIN s, t)
    <3>1. PICK q \in DOMAIN s : m[q] = o
      BY <1>4, <1>7, <2>1, <2>2, EmbeddedKinds
    <3> QED
      BY <1>4, <1>7, <3>1, EmbeddedKinds DEF Overlays
  <2> QED
    BY <1>9, <2>2
<1>12. Behind(t, 0)
  <2> SUFFICES ASSUME NEW o \in Overlays(t) PROVE t[o].to + 0 < c
    BY <1>6 DEF Behind
  <2>1. t[o].to \in Nat
    BY <1>4, OverlayFacts
  <2>2. t[o].to < c
    BY <1>2, <1>11 DEF Telling
  <2> QED
    BY <1>1, <2>1, <2>2
<1>13. ASSUME NEW o \in Overlays(t), NEW p \in Speech(t), Covers(t, o, p) PROVE t[p].n \in t[o].of
  <2>1. p \in DOMAIN t /\ p \in Conversation(t) /\ p \notin Added(m, DOMAIN s, t)
    BY <1>4, <1>10, SpeechPlaces
  <2>2. PICK i \in DOMAIN s : m[i] = p
    BY <1>4, <1>7, <2>1, EmbeddedKinds
  <2>3. i \in Speech(s) /\ i \in Conversation(s) /\ t[p] = s[i]
    BY <1>4, <1>7, <2>1, <2>2, EmbeddedKinds, EmbeddedSpeech
  <2>4. TurnOf(t, p) = TurnOf(s, i)
    <3>1. \A j \in Turns(s) : j <= i => j \in DOMAIN s
      BY Placement
    <3>2. \A x \in Added(m, DOMAIN s, t) \cap Turns(t) : ~(x <= m[i])
      BY <1>4, <1>10, Placement
    <3> QED
      BY <1>4, <1>5, <1>7, <2>2, <2>3, <3>1, <3>2, TurnKept
  <2>5. CASE \E q \in Overlays(s) : t[o] = s[q]
    <3>1. PICK q \in Overlays(s) : t[o] = s[q]
      BY <2>5
    <3>2. Covers(s, q, i)
      BY <1>13, <2>4, <3>1 DEF Covers
    <3> QED
      BY <2>3, <3>1, <3>2 DEF Faith
  <2>6. CASE Telling(t[o], s, c)
    <3>1. t[o].of = Stamps(s, t[o].from, t[o].to) /\ TurnOf(s, i) \in t[o].from .. t[o].to
      BY <1>13, <2>4, <2>6 DEF Telling, Covers
    <3>2. i \in Conversation(s) \ Where(s, {"turn"})
      BY <2>3 DEF Speech, Turns
    <3> QED
      BY <2>3, <3>1, <3>2 DEF Stamps
  <2> QED
    BY <1>11, <2>5, <2>6
<1>14. Faith(t)
  BY <1>13 DEF Faith
<1> QED
  BY <1>12, <1>14 DEF t

LEMMA RulesNarrow ==
  ASSUME stream \in Stream, Started(stream), NEW rules \in RuleLists
  PROVE  Narrow(rules, Cardinality(Turns(stream)))
<1> DEFINE R == [range : Ranges(stream), policy : Policies]
           c == Cardinality(Turns(stream))
<1>1. \A r \in R : r.range.to < c
  <2>1. \A r \in R : r.range \in Ranges(stream)
    OBVIOUS
  <2> QED
    BY <2>1, RangesWithin
<1>2. (\E r \in R : rules = <<r>>) \/ \E r1, r2 \in R : rules = <<r1, r2>>
  BY DEF RuleLists
<1> HIDE DEF R, c
<1>3. ASSUME NEW r \in R, rules = <<r>> PROVE Narrow(rules, c)
  <2>1. \A k \in DOMAIN rules : rules[k] = r
    BY <1>3
  <2> QED
    BY <1>1, <2>1 DEF Narrow
<1>4. ASSUME NEW r1 \in R, NEW r2 \in R, rules = <<r1, r2>> PROVE Narrow(rules, c)
  <2>1. \A k \in DOMAIN rules : rules[k] = r1 \/ rules[k] = r2
    BY <1>4
  <2> QED
    BY <1>1, <2>1 DEF Narrow
<1>5. Narrow(rules, c)
  BY <1>2, <1>3, <1>4
<1> QED
  BY <1>5 DEF c

-----------------------------------------------------------------------------
(* What the commands do to it.                                             *)

LEMMA OwnedAppended ==
  ASSUME NEW s \in Stream, NEW u \in Stream, \A q \in DOMAIN u : u[q].kind # "overlay"
  PROVE  s \o u \in Stream /\ Owned(s, s \o u)
<1> DEFINE t == s \o u
           m == [i \in DOMAIN s |-> i]
<1>1. /\ t \in Stream /\ Embeds(m, s, DOMAIN s, t)
      /\ \A p \in Added(m, DOMAIN s, t) : p - Len(s) \in DOMAIN u /\ t[p] = u[p - Len(s)]
  BY ConcatEmbeds
<1> HIDE DEF t, m
<1>2. Added(m, DOMAIN s, t) \cap Overlays(t) = {}
  BY <1>1, OverlayPlaces
<1>3. Owned(s, t)
  BY <1>1, <1>2, OwnedKept
<1> QED
  BY <1>1, <1>3 DEF t

LEMMA BehindKept ==
  ASSUME NEW s, NEW t, NEW n, Owned(s, t), Cardinality(Turns(t)) = Cardinality(Turns(s)), Behind(s, n)
  PROVE  Behind(t, n)
BY DEF Owned, Behind

LEMMA BehindMoved ==
  ASSUME NEW s \in Stream, NEW t \in Stream, ~Displaced(s, t), Owned(s, t), Behind(s, 0)
  PROVE  Behind(t, 0)
<1> SUFFICES ASSUME NEW o \in Overlays(t) PROVE t[o].to + 0 < Cardinality(Turns(t))
  BY DEF Behind
<1>1. PICK q \in Overlays(s) : t[o] = s[q]
  BY DEF Owned
<1>2. s[q].to \in Nat
  BY OverlayFacts
<1>3. s[q].to + 0 < Cardinality(Turns(s))
  BY DEF Behind
<1>4. s[q].to < Cardinality(Turns(s)) => s[q].to < Cardinality(Turns(t))
  BY Undisplaced
<1> QED
  BY <1>1, <1>2, <1>3, <1>4

\* A stream without overlays has nothing to be true to.
LEMMA Unsummarized ==
  ASSUME NEW s, Overlays(s) = {}, NEW n
  PROVE  Faith(s) /\ Behind(s, n)
BY UnsummarizedFaith DEF Behind

\* What is cut off at the end.
Cut(s, t) ==
  /\ Owned(s, t) /\ (Aged(s) => Aged(t))
  /\ Started(s) => Started(t) /\ (Faith(s) => Faith(t))
  /\ Asks(s) = {} \/ Opening(s) => Asks(t) = {} \/ Opening(t)

LEMMA ShorterCuts ==
  ASSUME NEW s \in Stream, NEW t \in Stream, Shorter(s, t), Owned(s, t)
  PROVE  Cut(s, t)
<1>1. Asks(s) = {} => Asks(t) = {}
  <2> SUFFICES ASSUME NEW p \in Asks(t) PROVE Asks(s) # {}
    OBVIOUS
  <2>1. PICK K, m : Embeds(m, s, K, t) /\ Quiet(m, K, t)
    BY DEF Shorter
  <2>2. p \in DOMAIN t /\ p \in Conversation(t)
    BY Placement
  <2>3. p \notin Added(m, K, t)
    BY <2>1, <2>2 DEF Quiet, Conversation
  <2>4. PICK i \in K : m[i] = p
    BY <2>1, <2>2, <2>3, EmbeddedKinds
  <2>5. i \in Asks(s)
    BY <2>1, <2>4, EmbeddedKinds
  <2> QED
    BY <2>5
<1>2. Opening(s) => Asks(t) = {} \/ Opening(t)
  BY OpeningShorter
<1>3. Aged(s) => Aged(t)
  BY AgedShorter
<1>4. Started(s) => Started(t)
  BY StartedShorter
<1>5. Started(s) => (Faith(s) => Faith(t))
  BY FaithShorter
<1> QED
  BY <1>1, <1>2, <1>3, <1>4, <1>5 DEF Cut

LEMMA CutThrough ==
  ASSUME NEW s, NEW r, NEW t, Cut(s, r), Cut(r, t)
  PROVE  Cut(s, t)
<1>1. Owned(s, t)
  BY OwnedThrough DEF Cut
<1> QED
  BY <1>1 DEF Cut

LEMMA TrimmedCuts ==
  ASSUME NEW s \in Stream, NEW trim \in {"none", "replay_turn", "pop_request"}
  PROVE  Trimmed(s, trim) \in Stream /\ Cut(s, Trimmed(s, trim))
<1>1. ASSUME NEW r \in Stream PROVE TrailingTurnTrimmed(r) \in Stream /\ Cut(r, TrailingTurnTrimmed(r))
  <2>1. TrailingTurnTrimmed(r) \in Stream /\ Shorter(r, TrailingTurnTrimmed(r))
    BY TrailingTrimmedShorter
  <2>2. Owned(r, TrailingTurnTrimmed(r))
    BY OwnedPick DEF TrailingTurnTrimmed
  <2> QED
    BY <2>1, <2>2, ShorterCuts
<1>2. ChatRequestTrimmed(s) \in Stream /\ Cut(s, ChatRequestTrimmed(s))
  <2>1. ChatRequestTrimmed(s) \in Stream /\ Shorter(s, ChatRequestTrimmed(s))
    BY ChatRequestTrimmedShorter
  <2>2. Owned(s, ChatRequestTrimmed(s))
    <3> DEFINE K == {i \in DOMAIN s : IsGlobal(s[i]) \/ i < LastOf(Where(s, {"ask"}))}
    <3>1. K \subseteq DOMAIN s /\ ChatRequestTrimmed(s) = Pick(s, K)
      BY DEF ChatRequestTrimmed
    <3> HIDE DEF K
    <3> QED
      BY <3>1, OwnedPick
  <2> QED
    BY <2>1, <2>2, ShorterCuts
<1>3. RequestPopped(s) \in Stream /\ Cut(s, RequestPopped(s))
  <2>1. RequestPopped(s) \in Stream /\ Shorter(s, RequestPopped(s))
    BY RequestPoppedShorter
  <2>2. Owned(s, RequestPopped(s))
    <3> DEFINE K == DOMAIN s \ {LastOf(Conversation(s))}
    <3>1. K \subseteq DOMAIN s /\ (RequestPopped(s) = s \/ RequestPopped(s) = Pick(s, K))
      BY DEF RequestPopped
    <3> HIDE DEF K
    <3>2. Owned(s, s)
      BY DEF Owned
    <3> QED
      BY <3>1, <3>2, OwnedPick
  <2> QED
    BY <2>1, <2>2, ShorterCuts
<1>4. Cut(s, s)
  BY DEF Cut, Owned
<1>5. CASE trim = "none"
  BY <1>4, <1>5 DEF Trimmed
<1>6. CASE trim = "replay_turn"
  <2> DEFINE r == ChatRequestTrimmed(s)
  <2>1. Trimmed(s, trim) = TrailingTurnTrimmed(r)
    BY <1>6 DEF Trimmed
  <2>2. r \in Stream /\ Cut(s, r)
    BY <1>2
  <2> HIDE DEF r
  <2> QED
    BY <1>1, <2>1, <2>2, CutThrough
<1>7. CASE trim = "pop_request"
  <2> DEFINE r == RequestPopped(s)
  <2>1. Trimmed(s, trim) = TrailingTurnTrimmed(r)
    BY <1>7 DEF Trimmed
  <2>2. r \in Stream /\ Cut(s, r)
    BY <1>3
  <2> HIDE DEF r
  <2> QED
    BY <1>1, <2>1, <2>2, CutThrough
<1> QED
  BY <1>5, <1>6, <1>7

\* A new turn is the last one, and its request the next event.
LEMMA StartTurnFits ==
  ASSUME NEW s \in Stream, NEW n \in Nat, Aged(s), \A i \in Conversation(s) : s[i].n < n,
         Asks(s) = {} \/ Opening(s)
  PROVE  Aged(StartTurn(s, n)) /\ Fresh(StartTurn(s, n))
<1> DEFINE u == <<Turn(n), Ask(n)>>
           t == StartTurn(s, n)
<1>1. /\ u \in Stream /\ DOMAIN u = {1, 2}
      /\ u[1].kind = "turn" /\ u[1].n = n /\ u[2].kind = "ask" /\ u[2].n = n
  BY NewEvents DEF Stream
<1>2. t = s \o u
  BY DEF StartTurn
<1> HIDE DEF u, t
<1>3. Aged(t)
  <2>1. \A q \in DOMAIN u : u[q].n = n
    BY <1>1
  <2>2. \A i \in Conversation(s) : s[i].n <= n
    BY Stamped
  <2> QED
    BY <1>1, <1>2, <2>1, <2>2, AgedAppended
<1>4. CASE Opening(s)
  <2>1. t \in Stream
    BY <1>1, <1>2, AppendedAt
  <2>2. Opening(t)
    BY <1>1, <1>2, <1>4, OpeningAppended
  <2> QED
    BY <1>3, <2>1, <2>2, OpeningSingle DEF t
<1>5. CASE Asks(s) = {}
  <2> DEFINE x == Len(s) + 1
             y == Len(s) + 2
  <2>1. /\ t \in Stream /\ Len(s) \in Nat
        /\ \A p \in DOMAIN s : p \in DOMAIN t /\ t[p] = s[p] /\ p <= Len(s)
        /\ \A p \in DOMAIN t : p \in DOMAIN s \/ p = x \/ p = y
        /\ x \in DOMAIN t /\ y \in DOMAIN t /\ t[x] = u[1] /\ t[y] = u[2]
    <3>1. /\ t \in Stream
          /\ \A p \in DOMAIN s : p \in DOMAIN t /\ t[p] = s[p] /\ p <= Len(s)
          /\ \A q \in DOMAIN u : Len(s) + q \in DOMAIN t /\ t[Len(s) + q] = u[q]
          /\ \A p \in DOMAIN t : p \in DOMAIN s \/ \E q \in DOMAIN u : p = Len(s) + q
      <4> DEFINE w == s \o u
      <4>1. w = t
        BY <1>2
      <4>2. u \in Stream
        BY <1>1
      <4>3. w \in Stream /\ \A p \in DOMAIN s : p \in DOMAIN w /\ w[p] = s[p] /\ p <= Len(s)
        BY <4>2, AppendedAt
      <4>4. \A q \in DOMAIN u : Len(s) + q \in DOMAIN w /\ w[Len(s) + q] = u[q]
        BY <4>2, AppendedAt
      <4>5. \A p \in DOMAIN w : p \in DOMAIN s \/ \E q \in DOMAIN u : p = Len(s) + q
        BY <4>2, AppendedAt
      <4> HIDE DEF w
      <4> QED
        BY <4>1, <4>3, <4>4, <4>5
    <3>2. Len(s) \in Nat
      BY Placement
    <3> QED
      BY <1>1, <3>1, <3>2
  <2>2. x < y /\ x \in Nat /\ y \in Nat /\ \A p \in DOMAIN s : p \in Nat /\ p < x
    BY <2>1, Positions DEF Stream
  <2> HIDE DEF x, y
  <2>3. x \in Turns(t) /\ y \in Asks(t)
    BY <1>1, <2>1, Placement
  <2>4. \A a \in Asks(t) : a = y
    BY <1>1, <1>5, <2>1, Placement
  <2>5. \A i \in Turns(t) : i # x => i \in Turns(s) /\ i < x /\ t[i] = s[i] /\ i \in Conversation(s)
    BY <1>1, <2>1, <2>2, Placement
  <2>6. Leads(t, x)
    BY <2>2, <2>3, <2>4 DEF Leads
  <2>7. ASSUME NEW i \in Turns(t), NEW j \in Turns(t), i < j, LastLead(t, j) PROVE t[i].n < t[j].n
    <3>1. x <= j
      BY <2>3, <2>6, <2>7 DEF LastLead
    <3>2. j = x
      BY <2>1, <2>2, <2>5, <3>1, Placement
    <3>3. i # x
      BY <2>2, <2>7, <3>2
    <3>4. t[j].n = n
      BY <1>1, <2>1, <3>2
    <3> QED
      BY <2>5, <3>3, <3>4
  <2> QED
    BY <1>3, <2>7 DEF Fresh, t
<1> QED
  BY <1>4, <1>5

\* While events are added to a turn that runs.
LEMMA Appending ==
  ASSUME NEW s \in Stream, NEW u \in Stream, NEW n \in Nat, Started(s), Opening(s), Aged(s),
         \A i \in Conversation(s) : s[i].n <= n,
         \A q \in DOMAIN u : u[q].n = n /\ u[q].kind \notin {"overlay", "turn"}
  PROVE  /\ s \o u \in Stream /\ Aged(s \o u) /\ Opening(s \o u) /\ Fresh(s \o u)
         /\ Faith(s) /\ Behind(s, 1) => Faith(s \o u) /\ Behind(s \o u, 0) /\ Behind(s \o u, 1)
<1> DEFINE t == s \o u
<1>1. t \in Stream /\ Owned(s, t)
  BY OwnedAppended
<1>2. Aged(t)
  BY AgedAppended
<1>3. Opening(t)
  BY OpeningAppended
<1>4. Fresh(t)
  BY <1>1, <1>3, OpeningSingle
<1>5. Started(t)
  <2>1. Turns(s) # {}
    BY DEF Opening
  <2> QED
    BY <2>1, StartedAppended
<1>6. ASSUME Faith(s), Behind(s, 1) PROVE Faith(t) /\ Behind(t, 0) /\ Behind(t, 1)
  <2>1. Faith(t) /\ Cardinality(Turns(t)) = Cardinality(Turns(s))
    <3>1. \A o \in Overlays(s) : s[o].to + 1 < Cardinality(Turns(s))
      BY <1>6 DEF Behind
    <3>2. \A q \in DOMAIN u : u[q].kind \notin {"overlay", "turn"}
      OBVIOUS
    <3> QED
      BY <1>5, <1>6, <3>1, <3>2, FaithAppended
  <2>2. Behind(s, 0)
    <3> SUFFICES ASSUME NEW o \in Overlays(s) PROVE s[o].to + 0 < Cardinality(Turns(s))
      BY DEF Behind
    <3>1. s[o].to \in Nat /\ Cardinality(Turns(s)) \in Nat /\ s[o].to + 1 < Cardinality(Turns(s))
      BY <1>6, OverlayFacts, TurnsFinite DEF Behind
    <3> QED
      BY <3>1
  <2> HIDE DEF t
  <2> QED
    BY <1>1, <1>6, <2>1, <2>2, BehindKept
<1> QED
  BY <1>1, <1>2, <1>3, <1>4, <1>6

\* While the edits have moved no turn that an overlay covers, each overlay has all
\* of its turns, with what its summary tells of; in a turn that runs they are
\* followed by another one.  What makes that last: stamps are in order, the last
\* of the TurnStarts that lead has a stamp of its own, which a repair would show
\* in the place of the first one's, and a turn that runs has no others.
FitProgress ==
  /\ Aged(stream) /\ Fresh(stream)
  /\ Running => Opening(stream)
  /\ ~moved => Faith(stream) /\ Behind(stream, 0) /\ (~Idle => Behind(stream, 1))

LEMMA FitFacts ==
  ASSUME Progress, SoundProgress
  PROVE  /\ clock \in Nat /\ base \in Values /\ stream \in Stream /\ WellRanged(stream)
         /\ Sound(stream) /\ Started(stream) /\ Directed(stream)
         /\ ~Idle => Asks(stream) # {}
BY ClockFacts, PastStream DEF Progress, SoundProgress, Sound

LEMMA PastStamps ==
  ASSUME NEW c \in Nat, NEW s \in Seq(Past(c))
  PROVE  \A i \in Conversation(s) : s[i].n < c
<1>1. s \in Stream
  BY PastStream
<1>2. \A i \in Conversation(s) : i \in DOMAIN s
  BY <1>1, Placement
<1>3. \A i \in DOMAIN s : s[i] \in Past(c)
  OBVIOUS
<1> QED
  BY <1>2, <1>3 DEF Past

\* A turn that runs gets events of its own.
LEMMA FitAdded ==
  ASSUME Progress, SoundProgress, FitProgress, Running, NEW u \in Stream,
         \A q \in DOMAIN u : u[q].n = clock /\ u[q].kind \notin {"overlay", "turn"},
         stream' = stream \o u, moved' = moved
  PROVE  FitProgress'
<1> DEFINE t == stream \o u
<1>1. clock \in Nat /\ stream \in Stream /\ Started(stream)
  BY FitFacts
<1>2. Opening(stream) /\ Aged(stream) /\ (~moved => Faith(stream) /\ Behind(stream, 1))
  BY DEF FitProgress, Running, Idle
<1>3. \A i \in Conversation(stream) : stream[i].n <= clock
  <2>1. \A i \in Conversation(stream) : stream[i].n < clock
    BY <1>1, PastStamps DEF Progress
  <2> QED
    BY <1>1, <2>1, Stamped
<1>4. t \in Stream /\ Aged(t) /\ Opening(t) /\ Fresh(t)
  BY <1>1, <1>2, <1>3, Appending
<1>5. ~moved => Faith(t) /\ Behind(t, 0) /\ Behind(t, 1)
  BY <1>1, <1>2, <1>3, Appending
<1>6. stream' = t
  OBVIOUS
<1> HIDE DEF t
<1> QED
  BY <1>4, <1>5, <1>6 DEF FitProgress

LEMMA FitPush ==
  ASSUME Progress, SoundProgress, FitProgress, Running,
         NEW e \in Event, e.n = clock, e.kind \notin {"overlay", "turn"}, NEW then, Push(e, then)
  PROVE  FitProgress'
<1> DEFINE u == <<e>>
<1>1. u \in Stream /\ \A q \in DOMAIN u : u[q] = e
  BY DEF Stream
<1>2. stream' = stream \o u /\ moved' = moved
  BY FitFacts DEF Push, Stream
<1> HIDE DEF u
<1> QED
  BY <1>1, <1>2, FitAdded

\* Last words taken back, a delta added, overlays removed.
LEMMA FitSpared ==
  ASSUME Progress, SoundProgress, FitProgress, stream' \in Stream, Spared(stream, stream'),
         Owned(stream, stream'), phase' = phase, ~moved' => ~moved \/ Overlays(stream') = {}
  PROVE  FitProgress'
<1>1. stream \in Stream /\ Started(stream) /\ (~Idle => Asks(stream) # {})
  BY FitFacts
<1>2. Carries(stream, stream')
  BY <1>1, CarriesSpared
<1>3. Aged(stream')
  BY <1>1, AgedShorter DEF FitProgress
<1>4. Fresh(stream')
  BY <1>1, <1>2, CarriesFresh DEF FitProgress
<1>5. ASSUME Running PROVE Opening(stream')
  <2>1. Asks(stream) # {}
    BY <1>1, <1>5 DEF Running, Idle
  <2>2. Asks(stream') # {}
    BY <1>1, <2>1, AsksSpared
  <2>3. Opening(stream)
    BY <1>5 DEF FitProgress
  <2> QED
    BY <1>1, <2>2, <2>3, OpeningShorter
<1>6. Cardinality(Turns(stream')) = Cardinality(Turns(stream))
  BY <1>1, <1>2, CarriesTurns
<1>7. ASSUME ~moved PROVE Faith(stream') /\ Behind(stream', 0) /\ (~Idle => Behind(stream', 1))
  <2>1. Faith(stream) /\ Behind(stream, 0) /\ (~Idle => Behind(stream, 1))
    BY <1>7 DEF FitProgress
  <2>2. Faith(stream')
    BY <1>1, <2>1, FaithShorter
  <2> QED
    BY <1>6, <2>1, <2>2, BehindKept
<1>8. Overlays(stream') = {} => Faith(stream') /\ Behind(stream', 0) /\ Behind(stream', 1)
  BY Unsummarized
<1>9. Running' = Running /\ Idle' = Idle
  BY DEF Running, Idle
<1> QED
  BY <1>3, <1>4, <1>5, <1>7, <1>8, <1>9 DEF FitProgress

LEMMA FitQuery ==
  ASSUME Progress, SoundProgress, FitProgress, NEW trim \in {"none", "replay_turn", "pop_request"}, Query(trim)
  PROVE  FitProgress'
<1> DEFINE r == Sanitized(stream)
           t == Trimmed(r, trim)
           new == StartTurn(t, clock)
<1>1. /\ clock \in Nat /\ stream \in Stream /\ Sound(stream) /\ Started(stream) /\ Directed(stream)
      /\ stream \in Seq(Past(clock)) /\ Closed(Past(clock))
  BY FitFacts, ClockFacts DEF Progress
<1>2. Sound(r) /\ r \in Stream /\ r \in Seq(Past(clock))
  BY <1>1, SoundSanitized, SanitizedTyped DEF Sound
<1>3. Aged(stream) /\ Fresh(stream) /\ (~moved => Faith(stream) /\ Behind(stream, 0))
  BY DEF FitProgress
<1>4. Aged(r) /\ (Asks(r) = {} \/ Opening(r))
  BY <1>1, <1>3, AgedSanitized, SanitizedAsks
<1>5. stream' = new /\ (~moved' => ~moved /\ ~Displaced(stream, r) /\ ~Displaced(r, t)) /\ phase' = "request"
  BY DEF Query
<1>6. ASSUME ~moved' PROVE Faith(r) /\ Behind(r, 0)
  <2>1. Owned(stream, r) /\ (Overlays(r) = {} \/ Faith(r))
    BY <1>1, <1>3, <1>5, <1>6, SanitizedFits
  <2>2. Faith(r)
    BY <2>1, Unsummarized
  <2>3. Behind(r, 0)
    BY <1>1, <1>2, <1>3, <1>5, <1>6, <2>1, BehindMoved
  <2> QED
    BY <2>2, <2>3
<1>7. t \in Stream /\ Cut(r, t) /\ t \in Seq(Past(clock))
  BY <1>2, TrimmedCuts, TrimmedTyped
<1>8. Sound(t)
  BY <1>2, SoundTrimmed
<1> HIDE DEF t, r
<1>9. Aged(t) /\ Started(t) /\ (Asks(t) = {} \/ Opening(t)) /\ Owned(r, t) /\ (Faith(r) => Faith(t))
  BY <1>2, <1>4, <1>7 DEF Cut, Sound
<1>10. \A i \in Conversation(t) : t[i].n < clock
  BY <1>1, <1>7, PastStamps
<1>11. Aged(new) /\ Fresh(new)
  BY <1>1, <1>7, <1>9, <1>10, StartTurnFits
<1>12. Started(new) /\ new \in Stream
  BY <1>1, <1>8, SoundStartTurn DEF Sound
<1>13. ASSUME ~moved' PROVE Faith(new) /\ Behind(new, 0) /\ Behind(new, 1)
  <2>1. Faith(t) /\ Behind(t, 0)
    BY <1>2, <1>5, <1>6, <1>7, <1>9, <1>13, BehindMoved
  <2>2. Faith(new) /\ Behind(new, 1)
    BY <1>1, <1>7, <1>9, <1>12, <2>1, FaithStartTurn
  <2>3. Behind(new, 0)
    <3> HIDE DEF new
    <3> SUFFICES ASSUME NEW o \in Overlays(new) PROVE new[o].to + 0 < Cardinality(Turns(new))
      BY DEF Behind
    <3>1. new[o].to \in Nat /\ Cardinality(Turns(new)) \in Nat /\ new[o].to + 1 < Cardinality(Turns(new))
      BY <1>12, <2>2, OverlayFacts, TurnsFinite DEF Behind
    <3> QED
      BY <3>1
  <2> QED
    BY <2>2, <2>3
<1> HIDE DEF new
<1> QED
  BY <1>5, <1>11, <1>13 DEF FitProgress, Running

LEMMA FitCycle ==
  ASSUME Progress, SoundProgress, FitProgress, Cycle
  PROVE  FitProgress'
<1> DEFINE t == Sanitized(stream)
<1>1. /\ stream \in Stream /\ Sound(stream) /\ Started(stream) /\ Directed(stream) /\ Asks(stream) # {}
  BY FitFacts DEF Cycle
<1>2. stream' = t /\ (~moved' => ~moved /\ ~Displaced(stream, t))
  BY DEF Cycle
<1>3. Aged(stream) /\ Fresh(stream) /\ (~moved => Faith(stream) /\ Behind(stream, 0) /\ Behind(stream, 1))
  BY DEF FitProgress, Cycle
<1>4. Aged(t) /\ Fresh(t) /\ Opening(t)
  BY <1>1, <1>3, AgedSanitized, FreshSanitized, SoundSanitized
<1>5. ASSUME ~moved' PROVE Faith(t) /\ Behind(t, 0) /\ Behind(t, 1)
  <2>1. /\ Owned(stream, t)
        /\ Overlays(t) = {} \/ (Faith(t) /\ Cardinality(Turns(t)) = Cardinality(Turns(stream)))
    BY <1>1, <1>2, <1>3, <1>5, SanitizedFits
  <2> HIDE DEF t
  <2>2. CASE Overlays(t) = {}
    BY <2>2, Unsummarized
  <2>3. CASE Faith(t) /\ Cardinality(Turns(t)) = Cardinality(Turns(stream))
    BY <1>2, <1>3, <1>5, <2>1, <2>3, BehindKept
  <2> QED
    BY <2>1, <2>2, <2>3
<1> HIDE DEF t
<1> QED
  BY <1>2, <1>4, <1>5 DEF FitProgress

LEMMA FitCompact ==
  ASSUME Progress, SoundProgress, FitProgress, Compact
  PROVE  FitProgress'
<1>1. /\ clock \in Nat /\ stream \in Stream /\ WellRanged(stream) /\ Started(stream)
  BY FitFacts
<1>2. PICK rules \in RuleLists : stream' = Compacted(stream, rules, clock)
  BY DEF Compact
<1>3. rules \in Seq(Rule) /\ Narrow(rules, Cardinality(Turns(stream)))
  BY <1>1, RulesTyped, RulesNarrow
<1>4. stream' \in Stream /\ Spared(stream, stream')
  BY <1>1, <1>2, <1>3, CompactedSpared
<1>5. Aged(stream')
  BY <1>1, <1>4, AgedShorter DEF FitProgress
<1>6. Fresh(stream')
  <2>1. Carries(stream, stream')
    BY <1>1, <1>4, CarriesSpared
  <2> QED
    BY <1>1, <1>4, <2>1, CarriesFresh DEF FitProgress
<1>7. ASSUME ~moved PROVE Faith(stream') /\ Behind(stream', 0)
  <2>1. Faith(stream) /\ Behind(stream, 0)
    BY <1>7 DEF FitProgress
  <2> QED
    BY <1>1, <1>2, <1>3, <2>1, FaithCompacted
<1>8. ~Running' /\ Idle' /\ moved' = moved
  BY DEF Compact, Idle, Running
<1> QED
  BY <1>5, <1>6, <1>7, <1>8 DEF FitProgress

\* What is read event by event has no overlays.
LEMMA ExtendedUnsummarized ==
  ASSUME NEW first \in Values, NEW s \in Stream
  PROVE  Overlays(Extended(first, s)) = {}
<1> DEFINE t == Extended(first, s)
<1>1. t \in Stream /\ \E m : Copied(m, s, t)
  BY ExtendedEmbeds
<1> HIDE DEF t
<1> SUFFICES ASSUME NEW o \in Overlays(t) PROVE FALSE
  BY DEF t
<1>2. PICK m : Copied(m, s, t)
  BY <1>1
<1>3. o \in DOMAIN t /\ t[o].kind = "overlay"
  BY <1>1, OverlayPlaces
<1>4. Embeds(m, s, Conversation(s), t) /\ o \notin Added(m, Conversation(s), t)
  BY <1>2, <1>3 DEF Copied
<1>5. PICK i \in Conversation(s) : m[i] = o
  BY <1>1, <1>3, <1>4, EmbeddedKinds
<1>6. t[m[i]] = s[i]
  BY <1>4 DEF Embeds
<1> QED
  BY <1>3, <1>5, <1>6, Placement

LEMMA FitFork ==
  ASSUME Progress, SoundProgress, FitProgress, Fork
  PROVE  FitProgress'
<1>1. clock \in Nat /\ base \in Values /\ stream \in Stream /\ Started(stream) /\ Aged(stream)
  BY FitFacts DEF FitProgress
<1>2. PICK filtered \in Filtered : stream' = Extended(base, Sanitized(filtered))
  BY DEF Fork, Copies
<1> DEFINE copy == Sanitized(filtered)
<1>3. filtered \in Stream /\ Aged(filtered)
  BY <1>1, FilteredEmbeds, FaithFiltered
<1>4. copy \in Stream /\ Aged(copy) /\ Fresh(copy)
  BY <1>3, SanitizedOpens, AgedSanitized, FreshSanitized
<1>5. stream' = Extended(base, copy)
  BY <1>2
<1> HIDE DEF copy
<1>6. stream' \in Stream /\ Spared(copy, stream') /\ Overlays(stream') = {}
  BY <1>1, <1>4, <1>5, ExtendedSpared, ExtendedUnsummarized
<1>7. Aged(stream')
  BY <1>4, <1>6, AgedShorter
<1>8. Fresh(stream')
  BY <1>4, <1>6, CarriesSpared, CarriesFresh
<1>9. Faith(stream') /\ Behind(stream', 0)
  BY <1>6, Unsummarized
<1>10. ~Running' /\ Idle'
  BY DEF Fork, Idle, Running
<1> QED
  BY <1>7, <1>8, <1>9, <1>10 DEF FitProgress

\* The empty stream.
LEMMA NothingFits ==
  LET none == <<>> IN
  none \in Stream /\ Sound(none) /\ Overlays(none) = {} /\ Conversation(none) = {} /\ Aged(none) /\ Fresh(none)
<1> DEFINE none == <<>>
<1>1. none \in Stream /\ DOMAIN none = {}
  BY DEF Stream
<1> HIDE DEF none
<1>2. /\ Overlays(none) = {} /\ Conversation(none) = {} /\ Turns(none) = {} /\ Asks(none) = {}
      /\ Calls(none) = {} /\ Results(none) = {}
  BY <1>1 DEF Conversation, Turns, Asks, Calls, Results, Overlays, Where
<1>3. Sound(none)
  BY <1>1, <1>2 DEF Sound, Started, Directed, Orderly
<1>4. Aged(none) /\ Fresh(none)
  BY <1>2 DEF Aged, Fresh
<1> QED
  BY <1>1, <1>2, <1>3, <1>4 DEF none

\* The results of a batch.
LEMMA BatchTyped ==
  ASSUME stream \in Stream, clock \in Nat
  PROVE  LET cur == CurrentTurn(stream)
             calls == Pick(cur, {i \in Where(cur, {"call"}) : cur[i].id \in Unanswered})
             u == [k \in DOMAIN calls |-> Paired("result", calls[k].id, clock)]
         IN  u \in Stream /\ \A q \in DOMAIN u : u[q].n = clock /\ u[q].kind = "result"
<1> DEFINE cur == CurrentTurn(stream)
           S == {i \in Where(cur, {"call"}) : cur[i].id \in Unanswered}
           calls == Pick(cur, S)
           u == [k \in DOMAIN calls |-> Paired("result", calls[k].id, clock)]
<1>1. cur \in Stream
  BY CurrentAt
<1>2. S \subseteq DOMAIN cur /\ \A x \in S : x \in DOMAIN cur /\ cur[x].kind = "call"
  BY DEF Where
<1> HIDE DEF S, cur
<1>3. calls \in Stream /\ \E m : Embeds(m, cur, S, calls) /\ Added(m, S, calls) = {}
  BY <1>1, <1>2, PickOf
<1>4. DOMAIN calls = 1 .. Len(calls) /\ Len(calls) \in Nat
  BY <1>3, Positions DEF Stream
<1> HIDE DEF calls
<1>5. ASSUME NEW k \in DOMAIN calls PROVE calls[k].id \in Nat
  <2>1. PICK m : Embeds(m, cur, S, calls) /\ Added(m, S, calls) = {}
    BY <1>3
  <2>2. PICK i \in S : m[i] = k
    BY <1>1, <1>3, <2>1, EmbeddedKinds
  <2>3. i \in DOMAIN cur /\ calls[k] = cur[i] /\ cur[i].kind = "call" /\ cur[i] \in Event
    BY <1>1, <1>2, <2>1, <2>2, Positions DEF Embeds, Stream
  <2> QED
    BY <2>3, EventFacts DEF Identified
<1>6. \A k \in DOMAIN calls : /\ Paired("result", calls[k].id, clock) \in Event
                              /\ Paired("result", calls[k].id, clock).kind = "result"
                              /\ Paired("result", calls[k].id, clock).n = clock
  BY <1>5, NewEvents DEF Identified
<1>7. u \in Seq(Event)
  BY <1>4, <1>6
<1>8. \A q \in DOMAIN u : u[q].n = clock /\ u[q].kind = "result"
  BY <1>6
<1> QED
  BY <1>7, <1>8 DEF Stream, u, calls, S, cur

LEMMA NextFit == ASSUME Progress, SoundProgress, FitProgress, [Next]_vars PROVE FitProgress'
<1>0. clock \in Nat /\ base \in Values /\ stream \in Stream /\ Sound(stream)
  BY FitFacts
<1>1. ASSUME NEW trim \in {"none", "replay_turn", "pop_request"}, Query(trim) PROVE FitProgress'
  BY <1>1, FitQuery
<1>2. CASE Content
  <2>1. PICK part \in Parts : Push(Told(part, clock), "stream")
    BY <1>2 DEF Content
  <2>2. part \in {"say", "think"}
    BY ConstantsAssumption
  <2>3. Told(part, clock) \in Event /\ Told(part, clock).kind = part /\ Told(part, clock).n = clock
    BY <1>0, <2>2, NewEvents
  <2>4. Running
    BY <1>2 DEF Content, Streaming, Running
  <2> QED
    BY <2>1, <2>2, <2>3, <2>4, FitPush
<1>3. CASE CallTool
  <2> DEFINE e == Paired("call", clock, clock)
  <2>1. e \in Event /\ e.kind = "call" /\ e.n = clock
    BY <1>0, NewEvents DEF Identified
  <2>2. Push(e, "stream") /\ Running
    BY <1>3 DEF CallTool, Streaming, Running
  <2> HIDE DEF e
  <2> QED
    BY <2>1, <2>2, FitPush
<1>4. CASE Reply
  <2>1. Ask(clock) \in Event /\ Ask(clock).kind = "ask" /\ Ask(clock).n = clock
    BY <1>0, NewEvents
  <2>2. Running /\ Push(Ask(clock), "request")
    BY <1>4 DEF Reply, Streaming, Running
  <2> QED
    BY <2>1, <2>2, FitPush
<1>5. ASSUME Running, NEW id \in Unanswered, NEW kind \in {"question", "answer"}, Push(Paired(kind, id, clock), "tools")
      PROVE  FitProgress'
  <2>1. id \in Ids(stream, "call")
    BY <1>0, <1>5, UnansweredOpen
  <2>2. id \in Nat
    BY <1>0, <2>1, IdsPast DEF Identified, Progress
  <2>3. /\ Paired(kind, id, clock) \in Event /\ Paired(kind, id, clock).kind = kind
        /\ Paired(kind, id, clock).n = clock
    BY <1>0, <2>2, NewEvents DEF Identified
  <2> QED
    BY <1>5, <2>3, FitPush
<1>6. CASE Question
  BY <1>5, <1>6 DEF Question
<1>7. CASE Answer
  BY <1>5, <1>7 DEF Answer
<1>8. CASE ToolResults
  <2> DEFINE cur == CurrentTurn(stream)
             calls == Pick(cur, {i \in Where(cur, {"call"}) : cur[i].id \in Unanswered})
             u == [k \in DOMAIN calls |-> Paired("result", calls[k].id, clock)]
  <2>1. stream' = stream \o u /\ moved' = moved /\ Running
    BY <1>8 DEF ToolResults
  <2>2. u \in Stream /\ \A q \in DOMAIN u : u[q].n = clock /\ u[q].kind = "result"
    BY <1>0, BatchTyped
  <2> HIDE DEF u
  <2> QED
    BY <2>1, <2>2, FitAdded
<1>9. CASE Refused
  <2>1. stream' \in Stream /\ Spared(stream, stream')
    BY <1>0, <1>9, ResponsesPoppedSpared DEF Refused
  <2>2. Owned(stream, stream')
    <3> DEFINE K == {i \in DOMAIN stream :
                       \/ IsGlobal(stream[i])
                       \/ i <= LastOf(Conversation(stream) \ Where(stream, {"say", "think"}))}
    <3>1. K \subseteq DOMAIN stream /\ stream' = Pick(stream, K)
      BY <1>9 DEF Refused, ResponsesPopped
    <3> HIDE DEF K
    <3> QED
      BY <1>0, <3>1, OwnedPick
  <2>3. phase' = phase /\ moved' = moved
    BY <1>9 DEF Refused
  <2> QED
    BY <2>1, <2>2, <2>3, FitSpared
<1>10. CASE Cycle
  BY <1>10, FitCycle
<1>11. CASE End \/ UNCHANGED vars
  <2>1. stream' = stream /\ moved' = moved /\ (Running' => Running) /\ (Idle => Idle')
    BY <1>11 DEF End, vars, Idle, Running
  <2> QED
    BY <2>1 DEF FitProgress
<1>12. ASSUME NEW value \in Values, Configure(value) PROVE FitProgress'
  <2>1. phase' = phase /\ moved' = moved
    BY <1>12 DEF Configure
  <2>2. CASE stream' # stream
    <3> DEFINE e == Delta(value, clock)
               u == <<e>>
    <3>1. stream' = Append(stream, e)
      BY <1>12, <2>2 DEF Configure, WithDelta
    <3>2. e \in Event /\ e.kind = "config"
      BY <1>0, NewEvents
    <3> HIDE DEF e
    <3>3. u \in Stream /\ (\A q \in DOMAIN u : IsGlobal(u[q]) /\ u[q].kind # "overlay") /\ stream' = stream \o u
      BY <1>0, <3>1, <3>2 DEF Stream, IsGlobal
    <3> HIDE DEF u
    <3>4. stream' \in Stream /\ Spared(stream, stream') /\ Owned(stream, stream')
      BY <1>0, <3>3, AppendedSpared, OwnedAppended
    <3> QED
      BY <2>1, <3>4, FitSpared
  <2>3. CASE stream' = stream
    BY <2>1, <2>3 DEF FitProgress, Running, Idle
  <2> QED
    BY <2>2, <2>3
<1>13. ASSUME NEW removed \in {Overlays(stream)} \cup {{i} : i \in Overlays(stream)}, Reset(removed) PROVE FitProgress'
  <2>1. removed \subseteq Overlays(stream)
    OBVIOUS
  <2> DEFINE K == DOMAIN stream \ removed
  <2>2. stream' = Pick(stream, K) /\ K \subseteq DOMAIN stream /\ phase' = phase
    BY <1>13 DEF Reset
  <2>3. stream' \in Stream /\ Spared(stream, stream')
    BY <1>0, <2>1, <2>2, ResetSpared
  <2>4. Owned(stream, stream')
    BY <1>0, <2>2, OwnedPick
  <2> HIDE DEF K
  <2>5. ASSUME ~moved' PROVE ~moved \/ Overlays(stream') = {}
    <3>1. CASE removed = Overlays(stream)
      <4>1. PICK m : Embeds(m, stream, K, stream') /\ Added(m, K, stream') = {}
        BY <1>0, <2>2, PickOf
      <4>2. \A o \in Overlays(stream') : \E i \in K : i \in Overlays(stream)
        <5> SUFFICES ASSUME NEW o \in Overlays(stream') PROVE \E i \in K : i \in Overlays(stream)
          OBVIOUS
        <5>1. o \in DOMAIN stream'
          BY <2>3, OverlayFacts
        <5>2. PICK i \in K : m[i] = o
          BY <1>0, <2>3, <4>1, <5>1, EmbeddedKinds
        <5> QED
          BY <1>0, <2>3, <4>1, <5>2, EmbeddedKinds DEF Overlays
      <4> QED
        BY <3>1, <4>2 DEF K
    <3>2. CASE removed # Overlays(stream)
      BY <1>13, <2>5, <3>2 DEF Reset
    <3> QED
      BY <3>1, <3>2
  <2> QED
    BY <2>2, <2>3, <2>4, <2>5, FitSpared
<1>14. CASE Compact
  BY <1>14, FitCompact
<1>15. CASE Fork
  BY <1>15, FitFork
<1>16. CASE ForkConfigOnly
  <2> DEFINE none == <<>>
  <2>1. stream' = none /\ ~Running' /\ Idle'
    BY <1>16 DEF ForkConfigOnly, Idle, Running
  <2>2. Aged(none) /\ Fresh(none) /\ Overlays(none) = {}
    BY NothingFits
  <2> HIDE DEF none
  <2>3. Faith(none) /\ Behind(none, 0)
    BY <2>2, Unsummarized
  <2> QED
    BY <2>1, <2>2, <2>3 DEF FitProgress
<1> QED
  BY <1>1, <1>2, <1>3, <1>4, <1>6, <1>7, <1>8, <1>9, <1>10, <1>11, <1>12, <1>13, <1>14, <1>15,
     <1>16 DEF Next

-----------------------------------------------------------------------------
(* The streams of requests.                                                *)

\* A repair adds no overlay.
LEMMA SanitizedOwns ==
  ASSUME NEW s \in Stream
  PROVE  Owned(s, Sanitized(s))
<1> DEFINE r == Mended(s)
           b == TrailingTurnTrimmed(r)
           t == TurnStartsNormalized(b)
<1>1. r \in Stream /\ Repaired(s, r) /\ BeforeNormalized(s) = b
  BY MendedRepairs
<1>2. Sanitized(s) = t
  BY <1>1, SanitizedIs
<1>3. Owned(s, r)
  BY <1>1 DEF Repaired
<1> HIDE DEF r
<1>4. b \in Stream /\ Owned(r, b)
  BY <1>1, TrailingTrimmedRepairs
<1> HIDE DEF b
<1>5. t \in Stream /\ (t = b \/ Collapses(b, t) \/ Inserts(b, t))
  BY <1>4, NormalizedCases
<1> HIDE DEF t
<1>6. Owned(b, t)
  <2>1. CASE t = b
    BY <2>1 DEF Owned
  <2>2. CASE Collapses(b, t)
    <3>1. \E K, m : Embeds(m, b, K, t) /\ Added(m, K, t) = {}
      BY <2>2 DEF Collapses
    <3> QED
      BY <1>4, <1>5, <3>1, OwnedKept
  <2>3. CASE Inserts(b, t)
    <3>1. \E m : \E place, stamp \in Nat :
            Embeds(m, b, DOMAIN b, t) /\ Added(m, DOMAIN b, t) = {place} /\ t[place] = Turn(stamp)
      BY <1>4, <2>3, Positions DEF Inserts, Stream
    <3>2. PICK m : \E place, stamp \in Nat :
            Embeds(m, b, DOMAIN b, t) /\ Added(m, DOMAIN b, t) = {place} /\ t[place] = Turn(stamp)
      BY <3>1
    <3>3. PICK place, stamp \in Nat :
            Embeds(m, b, DOMAIN b, t) /\ Added(m, DOMAIN b, t) = {place} /\ t[place] = Turn(stamp)
      BY <3>2
    <3>4. Added(m, DOMAIN b, t) \cap Overlays(t) = {}
      BY <1>5, <3>3, OverlayPlaces DEF Turn
    <3> QED
      BY <1>4, <1>5, <3>3, <3>4, OwnedKept
  <2> QED
    BY <1>5, <2>1, <2>2, <2>3
<1>7. Owned(s, b)
  BY <1>3, <1>4, OwnedThrough
<1> QED
  BY <1>2, <1>6, <1>7, OwnedThrough

LEMMA UnsummarizedStartTurn ==
  ASSUME NEW s \in Stream, NEW n \in Nat, Overlays(s) = {}
  PROVE  StartTurn(s, n) \in Stream /\ Faith(StartTurn(s, n))
<1> DEFINE u == <<Turn(n), Ask(n)>>
           t == StartTurn(s, n)
<1>1. u \in Stream /\ \A q \in DOMAIN u : u[q].kind # "overlay"
  BY NewEvents DEF Stream
<1>2. t = s \o u
  BY DEF StartTurn
<1> HIDE DEF u, t
<1>3. t \in Stream /\ Owned(s, t)
  BY <1>1, <1>2, OwnedAppended
<1>4. Overlays(t) = {}
  BY <1>3 DEF Owned
<1> QED
  BY <1>3, <1>4, Unsummarized DEF t

\* Of a conversation that loses its first event, retain keeps no overlay.
LEMMA ShortenedUnsummarized ==
  ASSUME NEW s \in Stream, NEW dropped \in Nat, dropped # 0, Started(s), Conversation(s) # {}
  PROVE  Shortened(s, dropped) \in Stream /\ Overlays(Shortened(s, dropped)) = {}
<1> DEFINE late == {i \in Conversation(s) : Cardinality({j \in Conversation(s) : j <= i}) > dropped}
           r == Retained(s, late)
           t == Sanitized(r)
           f == First(s)
<1>1. f \in Conversation(s) /\ f \in Nat /\ \A i \in Conversation(s) : i \in Nat /\ f <= i
  BY Placement, TurnPlaces
<1>2. f \notin late
  <2>1. {j \in Conversation(s) : j <= f} = {f}
    BY <1>1
  <2>2. Cardinality({j \in Conversation(s) : j <= f}) = 1
    BY <2>1, FS_Singleton
  <2> QED
    BY <2>2
<1>3. \/ Shortened(s, dropped) = <<>>
      \/ Shortened(s, dropped) = t
  BY DEF Shortened
<1> HIDE DEF late
<1>4. Conversation(s) \ late # {}
  BY <1>1, <1>2
<1> DEFINE d == FirstOf(Conversation(s) \ late)
<1>5. /\ r \in Stream /\ d \in Conversation(s) /\ d \in Nat
      /\ \A i \in Conversation(s) : i \notin late => d <= i
  BY <1>4, RetainedCases
<1>6. \E K, m : /\ Embeds(m, s, K, r) /\ Added(m, K, r) = {}
                /\ \A i \in Conversation(s) : i \in K <=> i \in late
                /\ \A o \in Overlays(s) : o \in K => s[o].to < TurnOf(s, d)
  BY <1>4, RetainedCases
<1> HIDE DEF r, d
<1>7. d = f
  BY <1>1, <1>2, <1>5
<1>8. TurnOf(s, d) = 0
  BY <1>7, TurnPlaces
<1>9. Overlays(r) = {}
  <2> SUFFICES ASSUME NEW p \in Overlays(r) PROVE FALSE
    OBVIOUS
  <2>1. PICK K, m : /\ Embeds(m, s, K, r) /\ Added(m, K, r) = {}
                    /\ \A o \in Overlays(s) : o \in K => s[o].to < TurnOf(s, d)
    BY <1>6
  <2>2. p \in DOMAIN r
    BY <1>5, OverlayFacts
  <2>3. PICK o \in K : m[o] = p
    BY <1>5, <2>1, <2>2, EmbeddedKinds
  <2>4. o \in Overlays(s)
    BY <1>5, <2>1, <2>3, EmbeddedKinds DEF Overlays
  <2>5. s[o].to \in Nat /\ s[o].to < 0
    BY <1>8, <2>1, <2>3, <2>4, OverlayFacts
  <2> QED
    BY <2>5
<1>10. t \in Stream /\ Overlays(t) = {}
  <2>1. t \in Stream
    BY <1>5, SanitizedOpens
  <2>2. Owned(r, t)
    BY <1>5, SanitizedOwns
  <2> HIDE DEF t
  <2> QED
    BY <1>9, <2>1, <2>2 DEF Owned
<1>11. <<>> \in Stream /\ Overlays(<<>>) = {}
  BY NothingFits
<1> HIDE DEF t
<1> QED
  BY <1>3, <1>10, <1>11

\* An inquiry, whole or shortened, of a turn that runs.
LEMMA InquiryFits ==
  ASSUME NEW s, Sound(s), Opening(s), Aged(s), Faith(s), Behind(s, 1), NEW id \in Nat, NEW n \in Nat,
         \A i \in Conversation(s) : s[i].n <= n, NEW dropped \in Nat
  PROVE  InquiryStream(s, id, dropped, n) \in Stream /\ Faith(InquiryStream(s, id, dropped, n))
<1> DEFINE u == <<Paired("result", id, n)>>
           p == s \o u
           whole == Sanitized(p)
           short == Shortened(whole, dropped)
<1>1. s \in Stream /\ Started(s) /\ Directed(s) /\ Turns(s) # {}
  BY DEF Sound, Opening
<1>2. u \in Stream /\ \A q \in DOMAIN u : u[q].n = n /\ u[q].kind = "result"
  BY NewEvents DEF Stream, Identified
<1>3. Paused(s, id, n) = p
  BY <1>1 DEF Paused, Stream
<1> HIDE DEF u
<1>4. p \in Stream /\ Opening(p) /\ Faith(p) /\ Behind(p, 0)
  BY <1>1, <1>2, Appending
<1>5. Started(p)
  BY <1>1, <1>2, StartedAppended
<1>6. Directed(p)
  BY <1>1, <1>2, DirectedAppended
<1>7. Asks(p) # {}
  BY <1>4 DEF Opening
<1> HIDE DEF p
<1>8. /\ whole \in Stream /\ Owned(p, whole)
      /\ Overlays(whole) = {} \/ (Faith(whole) /\ Cardinality(Turns(whole)) = Cardinality(Turns(p)))
  BY <1>4, <1>5, <1>6, <1>7, SanitizedFits
<1>9. Started(whole) /\ Asks(whole) # {}
  BY <1>4, <1>7, SanitizedOpens
<1> HIDE DEF whole
<1>10. Conversation(whole) # {}
  BY <1>8, <1>9, Placement
<1>11. Faith(whole) /\ Behind(whole, 0)
  <2>1. CASE Overlays(whole) = {}
    BY <2>1, Unsummarized
  <2>2. CASE Faith(whole) /\ Cardinality(Turns(whole)) = Cardinality(Turns(p))
    BY <1>4, <1>8, <2>2, BehindKept
  <2> QED
    BY <1>8, <2>1, <2>2
<1>12. InquiryStream(s, id, dropped, n) = IF dropped = 0 THEN StartTurn(whole, n) ELSE StartTurn(short, n)
  BY <1>3 DEF InquiryStream, whole
<1>13. CASE dropped = 0
  <2>1. StartTurn(whole, n) \in Stream /\ Started(StartTurn(whole, n))
    <3> DEFINE v == <<Turn(n), Ask(n)>>
    <3>1. v \in Stream /\ \A q \in DOMAIN v : \E x \in DOMAIN v : x <= q /\ v[x].kind = "turn"
      BY NewEvents DEF Stream
    <3>2. StartTurn(whole, n) = whole \o v
      BY DEF StartTurn
    <3> HIDE DEF v
    <3> QED
      BY <1>8, <1>9, <3>1, <3>2, AppendedAt, StartedAppended
  <2>2. Faith(StartTurn(whole, n))
    BY <1>8, <1>9, <1>11, <2>1, FaithStartTurn
  <2> QED
    BY <1>12, <1>13, <2>1, <2>2
<1>14. CASE dropped # 0
  <2>1. short \in Stream /\ Overlays(short) = {}
    BY <1>8, <1>9, <1>10, <1>14, ShortenedUnsummarized
  <2> HIDE DEF short
  <2>2. StartTurn(short, n) \in Stream /\ Faith(StartTurn(short, n))
    BY <2>1, UnsummarizedStartTurn
  <2> QED
    BY <1>12, <1>14, <2>2
<1> QED
  BY <1>13, <1>14

LEMMA SummaryStreamFits ==
  ASSUME NEW s \in Stream, NEW range, NEW n \in Nat
  PROVE  SummaryStream(s, range, n) \in Stream /\ Faith(SummaryStream(s, range, n))
<1> DEFINE K == SummaryPart(s, range)
           y == Pick(s, K)
<1>1. SummaryStream(s, range, n) = StartTurn(y, n)
  BY DEF SummaryStream, SummaryPart
<1>2. K \subseteq Conversation(s)
  BY DEF SummaryPart
<1> HIDE DEF K
<1>3. K \subseteq DOMAIN s
  BY <1>2, Placement
<1>4. y \in Stream /\ \E m : Embeds(m, s, K, y) /\ Added(m, K, y) = {}
  BY <1>3, PickOf
<1> HIDE DEF y
<1>5. Overlays(y) = {}
  <2> SUFFICES ASSUME NEW p \in Overlays(y) PROVE FALSE
    OBVIOUS
  <2>1. PICK m : Embeds(m, s, K, y) /\ Added(m, K, y) = {}
    BY <1>4
  <2>2. p \in DOMAIN y /\ y[p].kind = "overlay"
    BY <1>4, OverlayPlaces
  <2>3. PICK i \in K : m[i] = p
    BY <1>4, <2>1, <2>2, EmbeddedKinds
  <2>4. y[p] = s[i]
    BY <1>4, <2>1, <2>3, EmbeddedKinds
  <2> QED
    BY <1>2, <2>2, <2>4, Placement
<1> QED
  BY <1>1, <1>4, <1>5, UnsummarizedStartTurn

\* Whatever a request is made from, as long as no edit has moved a turn.
LEMMA RequestsFit ==
  ASSUME Progress, SoundProgress, FitProgress, ~moved, ~Displaced(stream, Sanitized(stream)), NEW s \in Requests
  PROVE  s \in Stream /\ Faith(s)
<1>1. /\ clock \in Nat /\ stream \in Stream /\ Sound(stream) /\ Started(stream) /\ Directed(stream)
      /\ stream \in Seq(Past(clock))
  BY FitFacts DEF Progress
<1>2. /\ Aged(stream) /\ Fresh(stream) /\ (Running => Opening(stream))
      /\ Faith(stream) /\ (~Idle => Behind(stream, 1))
  BY DEF FitProgress
<1>3. CASE phase = "request"
  <2> DEFINE t == Sanitized(stream)
  <2>1. t \in Stream /\ (Overlays(t) = {} \/ Faith(t))
    BY <1>1, <1>2, SanitizedFits
  <2>2. Requests = {t}
    BY <1>3 DEF Requests, Running, Idle
  <2> HIDE DEF t
  <2> QED
    BY <2>1, <2>2, Unsummarized
<1>4. CASE Running
  <2>1. PICK id \in Unanswered, k \in Lengths : s = InquiryStream(stream, id, k, clock)
    BY <1>4 DEF Requests, Running, Idle
  <2>2. id \in Nat
    <3>1. id \in Ids(stream, "call")
      BY <1>1, UnansweredOpen
    <3> QED
      BY <1>1, <3>1, IdsPast DEF Identified
  <2>3. k \in Nat
    <3>1. Cardinality(Conversation(stream)) \in Nat
      <4>1. Conversation(stream) \subseteq 1 .. Len(stream) /\ Len(stream) \in Nat
        BY <1>1, Placement
      <4>2. IsFiniteSet(1 .. Len(stream))
        BY <4>1, FS_Interval
      <4> QED
        BY <4>1, <4>2, FS_Subset, FS_CardinalityType
    <3> QED
      BY <3>1 DEF Lengths
  <2>4. \A i \in Conversation(stream) : stream[i].n <= clock
    <3>1. \A i \in Conversation(stream) : stream[i].n < clock
      BY <1>1, PastStamps
    <3> QED
      BY <1>1, <3>1, Stamped
  <2>5. Opening(stream) /\ Behind(stream, 1)
    BY <1>2, <1>4 DEF Running, Idle
  <2>6. InquiryStream(stream, id, k, clock) \in Stream /\ Faith(InquiryStream(stream, id, k, clock))
    BY <1>1, <1>2, <2>2, <2>3, <2>4, <2>5, InquiryFits
  <2> QED
    BY <2>1, <2>6
<1>5. CASE Idle /\ Sanitized(stream) = stream
  <2>1. PICK r \in Ranges(stream) : s = SummaryStream(stream, r, clock)
    BY <1>5 DEF Requests, Running, Idle
  <2> QED
    BY <1>1, <2>1, SummaryStreamFits
<1>6. CASE phase # "request" /\ ~Running /\ ~(Idle /\ Sanitized(stream) = stream)
  BY <1>6 DEF Requests
<1> QED
  BY <1>3, <1>4, <1>5, <1>6

\* As long as the edits have moved no turn that an overlay covers, what a request
\* replaces by a summary is what that summary was made from, and so is what a fork
\* keeps of the summaries: the next request, an inquiry however much it leaves out,
\* every filter.
THEOREM SummariesAlwaysFit == Spec => []SummariesFit
<1>1. Init => FitProgress
  <2> SUFFICES ASSUME Init PROVE FitProgress
    OBVIOUS
  <2> DEFINE none == <<>>
  <2>1. stream = none /\ ~Running /\ Idle
    BY DEF Init, Running, Idle
  <2>2. Aged(none) /\ Fresh(none) /\ Overlays(none) = {}
    BY NothingFits
  <2> HIDE DEF none
  <2>3. Faith(none) /\ Behind(none, 0)
    BY <2>2, Unsummarized
  <2> QED
    BY <2>1, <2>2, <2>3 DEF FitProgress
<1>2. Progress /\ SoundProgress /\ FitProgress /\ [Next]_vars => FitProgress'
  BY NextFit
<1>3. Progress /\ SoundProgress /\ FitProgress => SummariesFit
  <2> SUFFICES ASSUME Progress, SoundProgress, FitProgress, ~moved PROVE
        /\ ~Displaced(stream, Sanitized(stream)) => HiddenIsSummarized
        /\ Idle => \A filtered \in Filtered : Faithful(filtered)
    BY DEF SummariesFit
  <2>1. ASSUME ~Displaced(stream, Sanitized(stream)), NEW s \in Requests PROVE Faithful(s)
    BY <2>1, RequestsFit, FaithFaithful
  <2>2. ASSUME NEW filtered \in Filtered PROVE Faithful(filtered)
    <3>1. clock \in Nat /\ stream \in Stream /\ Started(stream) /\ Aged(stream) /\ Faith(stream)
      BY FitFacts DEF FitProgress
    <3>2. filtered \in Stream
      BY <3>1, <2>2, FilteredEmbeds
    <3> QED
      BY <3>1, <3>2, FaithFiltered, FaithFaithful
  <2> QED
    BY <2>1, <2>2 DEF HiddenIsSummarized
<1> QED
  BY <1>1, <1>2, <1>3, StreamsStaySound, PTL DEF Spec
===================================================================================
