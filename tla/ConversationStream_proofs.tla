------------------------ MODULE ConversationStream_proofs ------------------------
(***************************************************************************)
(* Proofs about ConversationStream, for any values, policies and bounds:   *)
(* types, the nesting of summaries, the configuration of forks, the        *)
(* numbers of the turns shown, and that every request is accepted.         *)
(*                                                                         *)
(* Most edits are embeddings: each event of the result is one of the       *)
(* source, in the same order, or one of the few an edit adds.              *)
(***************************************************************************)
EXTENDS ConversationStream, Selection_proofs

-----------------------------------------------------------------------------
(* Least and greatest elements.                                            *)

LEMMA LeastNat ==
  ASSUME NEW S, S \subseteq Nat, S # {}
  PROVE  Min(S) \in S /\ \A y \in S : Min(S) <= y
<1>1. SUFFICES ASSUME \A x \in S : \E y \in S : ~(x <= y) PROVE FALSE
  BY DEF Min
<1>2. PICK z \in S : TRUE
  OBVIOUS
<1> DEFINE A == {i \in 0 .. z : \A j \in 0 .. i : j \notin S}
<1>3. 0 \in A
  <2>1. 0 \notin S
    BY <1>1
  <2> QED
    BY <1>2, <2>1
<1>4. ASSUME NEW i \in 0 .. z - 1, i \in A PROVE i + 1 \in A
  <2>1. i + 1 \notin S
    <3>1. SUFFICES ASSUME i + 1 \in S PROVE FALSE
      OBVIOUS
    <3>2. PICK y \in S : ~(i + 1 <= y)
      BY <1>1, <3>1
    <3>3. y \in 0 .. i
      BY <3>2
    <3> QED
      BY <1>4, <3>3
  <2> QED
    BY <1>4, <2>1, <1>2
<1>5. z \in A
  <2> HIDE DEF A
  <2> QED
    BY <1>2, <1>3, <1>4, InductionUpTo
<1> QED
  BY <1>2, <1>5

\* The greatest element is the least bound.
LEMMA GreatestNat ==
  ASSUME NEW S, S \subseteq Nat, S # {}, NEW b \in Nat, \A y \in S : y <= b
  PROVE  Max(S) \in S /\ \A y \in S : y <= Max(S)
<1> DEFINE U == {u \in Nat : \A y \in S : y <= u}
           u == Min(U)
<1>1. u \in U /\ \A y \in U : u <= y
  <2>1. b \in U
    OBVIOUS
  <2> HIDE DEF U
  <2>2. U \subseteq Nat
    BY DEF U
  <2> QED
    BY <2>1, <2>2, LeastNat
<1> HIDE DEF u
<1>2. u \in S
  <2>1. SUFFICES ASSUME u \notin S PROVE FALSE
    OBVIOUS
  <2>2. PICK z \in S : TRUE
    OBVIOUS
  <2>3. \A y \in S : y <= u - 1
    BY <1>1, <2>1
  <2>4. u - 1 \in U
    BY <1>1, <2>2, <2>3
  <2> QED
    BY <1>1, <2>4
<1>3. \A y \in S : u >= y
  BY <1>1
<1> QED
  BY <1>2, <1>3 DEF Max

\* The values of a function on finitely many positions are bounded.
LEMMA BoundedValues ==
  ASSUME NEW n \in Nat, NEW f, \A i \in 1 .. n : f[i] \in Nat
  PROVE  \E b \in Nat : \A i \in 1 .. n : f[i] <= b
<1> DEFINE A == {m \in 0 .. n : \E b \in Nat : \A i \in 1 .. m : f[i] <= b}
<1>1. 0 \in A
  OBVIOUS
<1>2. ASSUME NEW m \in 0 .. n - 1, m \in A PROVE m + 1 \in A
  <2>1. PICK b \in Nat : \A i \in 1 .. m : f[i] <= b
    BY <1>2
  <2>2. f[m + 1] \in Nat
    OBVIOUS
  <2>3. PICK c \in Nat : c >= b /\ c >= f[m + 1]
    <3>1. CASE b >= f[m + 1]
      BY <3>1, <2>2
    <3>2. CASE ~(b >= f[m + 1])
      BY <3>2, <2>2
    <3> QED
      BY <3>1, <3>2
  <2>4. \A i \in 1 .. m + 1 : f[i] <= c
    BY <2>1, <2>2, <2>3
  <2> QED
    BY <2>3, <2>4
<1> HIDE DEF A
<1>3. n \in A
  BY <1>1, <1>2, InductionUpTo
<1> QED
  BY <1>3 DEF A

-----------------------------------------------------------------------------
(* Events and positions.                                                   *)

Kinds == {"turn", "ask", "say", "think", "call", "result", "question", "answer", "config", "overlay"}
Identified == {"call", "result", "question", "answer"}

LEMMA EventFacts ==
  ASSUME NEW e \in Event
  PROVE  /\ e.kind \in Kinds /\ e.n \in Nat
         /\ e.kind \in Identified => e.id \in Nat
         /\ e.kind = "config" => e.value \in Values
         /\ e.kind = "overlay" =>
              e.from \in Nat /\ e.to \in Nat /\ e.policy \subseteq AllPolicies /\ e.of \subseteq Nat
BY DEF Event, Kinds, Identified

LEMMA NewEvents ==
  ASSUME NEW n \in Nat
  PROVE  /\ Turn(n) \in Event /\ Turn(n).kind = "turn" /\ Turn(n).n = n
         /\ Ask(n) \in Event /\ Ask(n).kind = "ask" /\ Ask(n).n = n
         /\ \A kind \in {"say", "think"} :
              Told(kind, n) \in Event /\ Told(kind, n).kind = kind /\ Told(kind, n).n = n
         /\ \A kind \in Identified, id \in Nat :
              /\ Paired(kind, id, n) \in Event /\ Paired(kind, id, n).kind = kind
              /\ Paired(kind, id, n).id = id /\ Paired(kind, id, n).n = n
         /\ \A value \in Values :
              /\ Delta(value, n) \in Event /\ Delta(value, n).kind = "config"
              /\ Delta(value, n).value = value /\ Delta(value, n).n = n
BY DEF Event, Turn, Ask, Told, Paired, Delta, Identified

LEMMA NewOverlay ==
  ASSUME NEW n \in Nat, NEW range \in [from : Nat, to : Nat], NEW policy \in SUBSET AllPolicies,
         NEW of \in SUBSET Nat
  PROVE  LET e == Overlay(range, policy, of, n) IN
         /\ e \in Event /\ e.kind = "overlay" /\ e.n = n /\ e.from = range.from /\ e.to = range.to
         /\ e.policy = policy /\ e.of = of
BY DEF Event, Overlay

Stream == Seq(Event)

LEMMA Positions ==
  ASSUME NEW s \in Seq(Event)
  PROVE  /\ DOMAIN s = 1 .. Len(s) /\ Len(s) \in Nat
         /\ \A i \in DOMAIN s : i \in Nat /\ i >= 1 /\ i <= Len(s) /\ s[i] \in Event
         /\ \A kinds : Where(s, kinds) \subseteq DOMAIN s
         /\ Conversation(s) \subseteq DOMAIN s /\ Overlays(s) \subseteq DOMAIN s
BY DEF Where, Conversation, Overlays

LEMMA FirstAmong ==
  ASSUME NEW n \in Nat, NEW S, S \subseteq 1 .. n
  PROVE  /\ FirstOf(S) \in 0 .. n
         /\ S = {} => FirstOf(S) = 0
         /\ S # {} => FirstOf(S) \in S /\ FirstOf(S) = Min(S)
         /\ \A i \in S : FirstOf(S) <= i
<1>1. CASE S = {}
  BY <1>1 DEF FirstOf
<1>2. CASE S # {}
  <2>1. S \subseteq Nat
    OBVIOUS
  <2>2. Min(S) \in S /\ \A y \in S : Min(S) <= y
    BY <1>2, <2>1, LeastNat
  <2>3. FirstOf(S) = Min(S)
    BY <1>2 DEF FirstOf
  <2>5. Min(S) \in S
    BY <2>2
  <2>4. \A x \in S : x \in 0 .. n
    OBVIOUS
  <2> QED
    BY <1>2, <2>2, <2>3, <2>4, <2>5
<1> QED
  BY <1>1, <1>2

LEMMA LastAmong ==
  ASSUME NEW n \in Nat, NEW S, S \subseteq 1 .. n
  PROVE  /\ LastOf(S) \in 0 .. n
         /\ S = {} => LastOf(S) = 0
         /\ S # {} => LastOf(S) \in S
         /\ \A i \in S : i <= LastOf(S)
<1>1. CASE S = {}
  BY <1>1 DEF LastOf
<1>2. CASE S # {}
  <2>1. S \subseteq Nat /\ \A y \in S : y <= n
    OBVIOUS
  <2>2. Max(S) \in S /\ \A y \in S : y <= Max(S)
    BY <1>2, <2>1, GreatestNat
  <2>3. LastOf(S) = Max(S)
    BY <1>2 DEF LastOf
  <2>5. Max(S) \in S
    BY <2>2
  <2>4. \A x \in S : x \in 0 .. n
    OBVIOUS
  <2> QED
    BY <1>2, <2>2, <2>3, <2>4, <2>5
<1> QED
  BY <1>1, <1>2

-----------------------------------------------------------------------------
(* Edits, as embeddings of what is kept.                                   *)

\* The events at K are in t, in the same order: that at i is at m[i].
Embeds(m, s, K, t) ==
  /\ K \subseteq DOMAIN s
  /\ m \in [K -> DOMAIN t]
  /\ \A i, j \in K : i < j => m[i] < m[j]
  /\ \A i \in K : t[m[i]] = s[i]

\* What else is there.
Added(m, K, t) == {p \in DOMAIN t : \A i \in K : m[i] # p}

LEMMA EmbeddedOrder ==
  ASSUME NEW s \in Stream, NEW t \in Stream, NEW K, NEW m, Embeds(m, s, K, t),
         NEW i \in K, NEW j \in K
  PROVE  /\ i < j <=> m[i] < m[j]
         /\ i <= j <=> m[i] <= m[j]
         /\ i = j <=> m[i] = m[j]
         /\ m[i] \in DOMAIN t /\ t[m[i]] = s[i]
<1>1. i \in Nat /\ j \in Nat /\ m[i] \in Nat /\ m[j] \in Nat
  BY Positions DEF Embeds, Stream
<1>2. (i < j => m[i] < m[j]) /\ (j < i => m[j] < m[i])
  BY DEF Embeds
<1>3. m[i] \in DOMAIN t /\ t[m[i]] = s[i]
  BY DEF Embeds
<1> QED
  BY <1>1, <1>2, <1>3

\* A selection adds nothing.
LEMMA PickEmbeds ==
  ASSUME NEW s \in Stream, NEW S
  PROVE  /\ Pick(s, S) \in Stream
         /\ \E m : /\ Embeds(m, s, S \cap DOMAIN s, Pick(s, S))
                   /\ Added(m, S \cap DOMAIN s, Pick(s, S)) = {}
<1> DEFINE t == Pick(s, S)
           K == S \cap DOMAIN s
<1>1. t \in Seq(Event) /\ IsPlaced(t, s, S)
  BY PickPlaces DEF Stream
<1>2. PICK place : PlacedAt(place, t, s, S)
  BY <1>1 DEF IsPlaced
<1> HIDE DEF t
<1>3. /\ DOMAIN s = 1 .. Len(s) /\ DOMAIN t = 1 .. Len(t) /\ Len(s) \in Nat /\ Len(t) \in Nat
  BY <1>1, Positions DEF Stream
<1>4. /\ place \in [DOMAIN t -> DOMAIN s]
      /\ \A k \in DOMAIN t : place[k] \in S /\ t[k] = s[place[k]]
      /\ \A k, l \in DOMAIN t : k < l => place[k] < place[l]
      /\ \A i \in DOMAIN s : i \in S => \E k \in DOMAIN t : place[k] = i
  BY <1>2, <1>3 DEF PlacedAt
<1> DEFINE m == [i \in K |-> CHOOSE k \in DOMAIN t : place[k] = i]
<1>5. ASSUME NEW i \in K PROVE m[i] \in DOMAIN t /\ place[m[i]] = i
  BY <1>4
<1>6. \A k, l \in DOMAIN t : place[k] = place[l] => k = l
  <2>1. SUFFICES ASSUME NEW k \in DOMAIN t, NEW l \in DOMAIN t, place[k] = place[l], k # l
               PROVE  FALSE
    OBVIOUS
  <2>2. k < l \/ l < k
    BY <1>3, <2>1
  <2>3. place[k] \in Nat /\ place[l] \in Nat
    BY <1>3, <1>4
  <2> QED
    BY <1>4, <2>1, <2>2, <2>3
<1> HIDE DEF m
<1>7. m \in [K -> DOMAIN t]
  <2>1. m = [i \in K |-> m[i]]
    BY DEF m
  <2> QED
    BY <1>5, <2>1
<1>8. ASSUME NEW i \in K, NEW j \in K, i < j PROVE m[i] < m[j]
  <2>1. m[i] \in DOMAIN t /\ m[j] \in DOMAIN t /\ place[m[i]] = i /\ place[m[j]] = j
    BY <1>5
  <2>2. m[i] \in Nat /\ m[j] \in Nat /\ i \in Nat /\ j \in Nat
    BY <1>3, <2>1
  <2>3. SUFFICES ASSUME ~(m[i] < m[j]) PROVE FALSE
    OBVIOUS
  <2>4. CASE m[i] = m[j]
    BY <1>8, <2>1, <2>2, <2>4
  <2>5. CASE m[j] < m[i]
    <3>1. place[m[j]] < place[m[i]]
      BY <1>4, <2>1, <2>5
    <3> QED
      BY <1>8, <2>1, <2>2, <3>1
  <2> QED
    BY <2>2, <2>3, <2>4, <2>5
<1>9. \A i \in K : t[m[i]] = s[i]
  BY <1>4, <1>5
<1>10. Embeds(m, s, K, t)
  BY <1>7, <1>8, <1>9 DEF Embeds
<1>11. Added(m, K, t) = {}
  <2>1. SUFFICES ASSUME NEW p \in DOMAIN t PROVE \E i \in K : m[i] = p
    BY DEF Added
  <2>2. place[p] \in K
    BY <1>4
  <2>3. m[place[p]] = p
    BY <1>5, <1>6, <2>2
  <2> QED
    BY <2>2, <2>3
<1> QED
  BY <1>1, <1>10, <1>11 DEF t, Stream

\* A concatenation.
LEMMA Concatenated ==
  ASSUME NEW E, NEW s \in Seq(E), NEW t \in Seq(E)
  PROVE  /\ s \o t \in Seq(E) /\ Len(s \o t) = Len(s) + Len(t) /\ Len(s) \in Nat /\ Len(t) \in Nat
         /\ \A i \in 1 .. Len(s) : (s \o t)[i] = s[i]
         /\ \A i \in Len(s) + 1 .. Len(s) + Len(t) : (s \o t)[i] = t[i - Len(s)]
OBVIOUS

\* An event inserted.
LEMMA InsertEmbeds ==
  ASSUME NEW s \in Stream, NEW e \in Event, NEW place \in Nat, place >= 1, place <= Len(s) + 1
  PROVE  LET t == InsertAt(s, place, e)
             m == [i \in DOMAIN s |-> IF i < place THEN i ELSE i + 1]
         IN  /\ t \in Stream /\ Len(t) = Len(s) + 1
             /\ Embeds(m, s, DOMAIN s, t) /\ Added(m, DOMAIN s, t) = {place} /\ t[place] = e
<1> DEFINE t == InsertAt(s, place, e)
           m == [i \in DOMAIN s |-> IF i < place THEN i ELSE i + 1]
           a == SubSeq(s, 1, place - 1)
           b == SubSeq(s, place, Len(s))
<1>1. DOMAIN s = 1 .. Len(s) /\ Len(s) \in Nat
  BY Positions DEF Stream
<1>2. a \in Seq(Event) /\ Len(a) = place - 1 /\ \A i \in 1 .. place - 1 : a[i] = s[i]
  BY <1>1 DEF Stream
<1>3. /\ b \in Seq(Event) /\ Len(b) = Len(s) + 1 - place
      /\ \A i \in 1 .. Len(s) + 1 - place : b[i] = s[place + i - 1]
  BY <1>1 DEF Stream
<1>4. t = a \o <<e>> \o b
  BY DEF InsertAt
<1> HIDE DEF t, a, b
<1>5. /\ t \in Seq(Event) /\ Len(t) = Len(s) + 1
      /\ \A i \in 1 .. place - 1 : t[i] = s[i]
      /\ t[place] = e
      /\ \A i \in place + 1 .. Len(s) + 1 : t[i] = s[i - 1]
  <2> DEFINE c == a \o <<e>>
  <2>1. /\ c \in Seq(Event) /\ Len(c) = place
        /\ \A i \in 1 .. place - 1 : c[i] = a[i]
        /\ c[place] = e
    BY <1>2
  <2> HIDE DEF c
  <2>4. t = c \o b
    BY <1>4 DEF c
  <2>5. place + (Len(s) + 1 - place) = Len(s) + 1
    BY <1>1
  <2>8. /\ t \in Seq(Event) /\ Len(t) = Len(c) + Len(b)
        /\ \A i \in 1 .. Len(c) : t[i] = c[i]
        /\ \A i \in Len(c) + 1 .. Len(c) + Len(b) : t[i] = b[i - Len(c)]
    BY <1>3, <2>1, <2>4, Concatenated
  <2>2. /\ t \in Seq(Event) /\ Len(t) = Len(s) + 1
        /\ \A i \in 1 .. place : t[i] = c[i]
        /\ \A i \in place + 1 .. Len(s) + 1 : t[i] = b[i - place]
    BY <1>3, <2>1, <2>5, <2>8
  <2>3. ASSUME NEW i \in place + 1 .. Len(s) + 1 PROVE t[i] = s[i - 1]
    <3>1. i - place \in 1 .. Len(s) + 1 - place /\ place + (i - place) - 1 = i - 1
      BY <1>1
    <3>2. b[i - place] = s[i - 1]
      BY <1>3, <3>1
    <3> QED
      BY <2>2, <3>2
  <2>6. ASSUME NEW i \in 1 .. place - 1 PROVE t[i] = s[i]
    <3>1. i \in 1 .. place
      OBVIOUS
    <3> QED
      BY <1>2, <2>1, <2>2, <3>1
  <2>7. t[place] = e
    <3>1. place \in 1 .. place
      OBVIOUS
    <3> QED
      BY <2>1, <2>2, <3>1
  <2> QED
    BY <2>2, <2>3, <2>6, <2>7
<1>6. DOMAIN t = 1 .. Len(s) + 1
  BY <1>5
<1>7. ASSUME NEW i \in DOMAIN s PROVE m[i] \in DOMAIN t /\ t[m[i]] = s[i]
  <2>1. CASE i < place
    BY <1>1, <1>5, <1>6, <2>1
  <2>2. CASE ~(i < place)
    <3>1. i + 1 \in place + 1 .. Len(s) + 1 /\ (i + 1) - 1 = i
      BY <1>1, <2>2
    <3> QED
      BY <1>1, <1>5, <1>6, <2>2, <3>1
  <2> QED
    BY <2>1, <2>2
<1>8. \A i, j \in DOMAIN s : i < j => m[i] < m[j]
  BY <1>1
<1>9. Embeds(m, s, DOMAIN s, t)
  BY <1>7, <1>8 DEF Embeds
<1>10. ASSUME NEW p \in DOMAIN t PROVE (\A i \in DOMAIN s : m[i] # p) <=> p = place
  <2>1. CASE p < place
    <3>1. p \in DOMAIN s /\ m[p] = p
      BY <1>1, <1>6, <2>1
    <3> QED
      BY <2>1, <3>1
  <2>2. CASE p = place
    BY <1>1, <2>2
  <2>3. CASE p > place
    <3>1. p - 1 \in DOMAIN s /\ m[p - 1] = p
      BY <1>1, <1>6, <2>3
    <3> QED
      BY <2>3, <3>1
  <2> QED
    BY <1>6, <2>1, <2>2, <2>3
<1>11. place \in DOMAIN t
  BY <1>1, <1>6
<1>12. Added(m, DOMAIN s, t) = {place}
  BY <1>10, <1>11 DEF Added
<1> QED
  BY <1>5, <1>9, <1>12 DEF t, Stream

-----------------------------------------------------------------------------
(* Types: what an edit is made of.                                         *)

\* What the stream consists of at clock c.
Past(c) ==
  {e \in Event : /\ e.n < c
                 /\ e.kind = "overlay" => e.from <= e.to
                 /\ e.kind \in Identified => e.id < c}

\* What an edit may add.
Closed(E) ==
  /\ E \subseteq Event /\ Turn(0) \in E
  /\ \A e \in E : /\ Turn(e.n) \in E
                  /\ e.kind = "call" => Paired("result", e.id, e.n) \in E

LEMMA PastClosed == ASSUME NEW c \in Nat, c >= 1 PROVE Closed(Past(c))
<1>1. Turn(0) \in Past(c)
  BY NewEvents DEF Past, Identified
<1>2. ASSUME NEW e \in Past(c) PROVE Turn(e.n) \in Past(c)
  <2>1. e \in Event /\ e.n < c /\ e.n \in Nat
    BY EventFacts DEF Past
  <2> QED
    BY <2>1, NewEvents DEF Past, Identified
<1>3. ASSUME NEW e \in Past(c), e.kind = "call" PROVE Paired("result", e.id, e.n) \in Past(c)
  <2>1. e \in Event /\ e.n < c /\ e.n \in Nat /\ e.id \in Nat /\ e.id < c
    BY <1>3, EventFacts DEF Past, Identified
  <2> DEFINE r == Paired("result", e.id, e.n)
  <2>2. r \in Event /\ r.kind = "result" /\ r.id = e.id /\ r.n = e.n
    BY <2>1, NewEvents DEF Identified
  <2> HIDE DEF r
  <2> QED
    BY <2>1, <2>2 DEF Past, r
<1> QED
  BY <1>1, <1>2, <1>3 DEF Closed, Past

LEMMA EachWithin ==
  ASSUME NEW A, NEW s \in Seq(A), NEW B, \A i \in DOMAIN s : s[i] \in B
  PROVE  s \in Seq(B)
OBVIOUS

LEMMA SeqWithin == ASSUME NEW A, NEW B, A \subseteq B, NEW s \in Seq(A) PROVE s \in Seq(B)
<1>1. \A i \in DOMAIN s : s[i] \in B
  OBVIOUS
<1> QED
  BY <1>1, EachWithin

LEMMA PickTyped == ASSUME NEW E, NEW s \in Seq(E), NEW S PROVE Pick(s, S) \in Seq(E)
BY PickPlaces

LEMMA TypeAsPast ==
  TypeOK <=> /\ base \in Values /\ phase \in {"idle", "request", "stream", "tools"}
             /\ moved \in BOOLEAN /\ clock \in 1 .. MaxClock /\ stream \in Seq(Past(clock))
<1>1. ASSUME TypeOK PROVE stream \in Seq(Past(clock))
  <2>1. stream \in Seq(Event)
    BY <1>1 DEF TypeOK
  <2>2. ASSUME NEW i \in DOMAIN stream PROVE stream[i] \in Past(clock)
    <3>1. stream[i] \in Event /\ stream[i].n < clock
      BY <1>1, <2>1 DEF TypeOK
    <3>2. ASSUME stream[i].kind = "overlay" PROVE stream[i].from <= stream[i].to
      BY <1>1, <3>2 DEF TypeOK, Overlays, Where
    <3>3. ASSUME stream[i].kind \in Identified PROVE stream[i].id < clock
      BY <1>1, <3>3 DEF TypeOK, Where, Identified
    <3> QED
      BY <3>1, <3>2, <3>3 DEF Past
  <2> QED
    BY <2>1, <2>2, EachWithin
<1>2. ASSUME stream \in Seq(Past(clock))
      PROVE  /\ stream \in Seq(Event)
             /\ \A i \in DOMAIN stream : stream[i].n < clock
             /\ \A i \in Overlays(stream) : stream[i].from <= stream[i].to
             /\ \A i \in Where(stream, {"call", "result", "question", "answer"}) : stream[i].id < clock
  <2>1. \A i \in DOMAIN stream : stream[i] \in Past(clock)
    BY <1>2
  <2>2. stream \in Seq(Event)
    BY <1>2, SeqWithin DEF Past
  <2> QED
    BY <2>1, <2>2 DEF Past, Overlays, Where, Identified
<1> QED
  BY <1>1, <1>2 DEF TypeOK

LEMMA CallsAnsweredTyped ==
  ASSUME NEW E, Closed(E), NEW s \in Seq(E)
  PROVE  CallsAnswered(s) \in Seq(E)
<1> DEFINE open(e) == e.kind = "call" /\ e.id \notin Ids(s, "result")
           part(i) == IF open(s[i]) THEN <<s[i], Paired("result", s[i].id, s[i].n)>> ELSE <<s[i]>>
           parts == [i \in DOMAIN s |-> part(i)]
<1>1. ASSUME NEW i \in DOMAIN s PROVE part(i) \in Seq(E)
  <2>1. s[i] \in E
    OBVIOUS
  <2>2. CASE open(s[i])
    <3>1. Paired("result", s[i].id, s[i].n) \in E
      BY <2>1, <2>2 DEF Closed
    <3> QED
      BY <2>1, <2>2, <3>1
  <2>3. CASE ~open(s[i])
    BY <2>1, <2>3
  <2> QED
    BY <2>2, <2>3
<1> HIDE DEF part
<1>2. parts \in Seq(Seq(E))
  <2>1. DOMAIN s = 1 .. Len(s) /\ Len(s) \in Nat
    OBVIOUS
  <2> QED
    BY <1>1, <2>1
<1>3. CallsAnswered(s) = FlattenSeq(parts)
  BY DEF CallsAnswered, part
<1> QED
  BY <1>2, <1>3, FlattenPlaces

\* Where an insertion of a TurnStart goes.
LEMMA InsertionPlace ==
  ASSUME NEW s \in Stream, Conversation(s) # Where(s, {"turn"})
  PROVE  LET ask == FirstOf(Where(s, {"ask"}))
             place == IF ask = 0 THEN 1 ELSE ask
         IN  place \in DOMAIN s
<1> DEFINE ask == FirstOf(Where(s, {"ask"}))
<1>1. ask \in 0 .. Len(s)
  BY Positions, FirstAmong DEF Stream
<1>2. Len(s) >= 1
  <2>1. Where(s, {"turn"}) \subseteq Conversation(s)
    BY DEF Where, Conversation, IsGlobal
  <2>2. PICK i \in Conversation(s) : TRUE
    BY <2>1
  <2> QED
    BY <2>2, Positions DEF Stream
<1>3. DOMAIN s = 1 .. Len(s) /\ Len(s) \in Nat
  BY Positions DEF Stream
<1> HIDE DEF ask
<1>4. (IF ask = 0 THEN 1 ELSE ask) \in DOMAIN s
  BY <1>1, <1>2, <1>3
<1> QED
  BY <1>4 DEF ask

LEMMA InsertTyped ==
  ASSUME NEW E, NEW s \in Seq(E), NEW e \in E, NEW place \in DOMAIN s
  PROVE  InsertAt(s, place, e) \in Seq(E)
<1>1. SubSeq(s, 1, place - 1) \in Seq(E) /\ SubSeq(s, place, Len(s)) \in Seq(E)
  OBVIOUS
<1> QED
  BY <1>1 DEF InsertAt

LEMMA NormalizedTyped ==
  ASSUME NEW E, Closed(E), NEW s \in Seq(E)
  PROVE  TurnStartsNormalized(s) \in Seq(E)
<1> DEFINE ask == FirstOf(Where(s, {"ask"}))
           leading == {i \in Where(s, {"turn"}) : i < ask}
           place == IF ask = 0 THEN 1 ELSE ask
           stamp == IF IsGlobal(s[place]) THEN 0 ELSE s[place].n
<1>1. CASE Conversation(s) = Where(s, {"turn"})
  <2>2. ask = 0
    <3>1. Where(s, {"ask"}) \cap Where(s, {"turn"}) = {}
      BY DEF Where
    <3>2. Where(s, {"ask"}) \subseteq Conversation(s)
      BY DEF Where, Conversation, IsGlobal
    <3> QED
      BY <1>1, <3>1, <3>2 DEF FirstOf
  <2>3. leading = {}
    <3>1. \A i \in Where(s, {"turn"}) : i \in Nat
      BY DEF Where
    <3> QED
      BY <2>2, <3>1
  <2>1. TurnStartsNormalized(s) = s
    BY <1>1, <2>3 DEF TurnStartsNormalized
  <2> QED
    BY <2>1
<1>2. CASE Conversation(s) # Where(s, {"turn"}) /\ leading # {}
  <2>1. TurnStartsNormalized(s) = Pick(s, DOMAIN s \ (leading \ {LastOf(leading)}))
    BY <1>2 DEF TurnStartsNormalized
  <2> QED
    BY <2>1, PickTyped
<1>3. CASE Conversation(s) # Where(s, {"turn"}) /\ leading = {}
  <2>1. TurnStartsNormalized(s) = InsertAt(s, place, Turn(stamp))
    BY <1>3 DEF TurnStartsNormalized
  <2>2. place \in DOMAIN s
    BY <1>3, InsertionPlace, SeqWithin DEF Closed, Stream
  <2>3. s[place] \in E
    BY <2>2
  <2>4. Turn(stamp) \in E
    BY <2>3 DEF Closed
  <2> QED
    BY <2>1, <2>2, <2>4, InsertTyped
<1> QED
  BY <1>1, <1>2, <1>3

LEMMA SanitizedTyped ==
  ASSUME NEW E, Closed(E), NEW s \in Seq(E)
  PROVE  Sanitized(s) \in Seq(E)
<1> DEFINE a == LeadingDropped(s)
           b == OrphansRemoved(a, "result", "call")
           c == CallsAnswered(b)
           d == OrphansRemoved(c, "answer", "question")
           e == OrphansRemoved(d, "question", "answer")
           f == TrailingTurnTrimmed(e)
<1>1. a \in Seq(E)
  BY PickTyped DEF LeadingDropped
<1> HIDE DEF a
<1>2. b \in Seq(E)
  BY <1>1, PickTyped DEF OrphansRemoved
<1> HIDE DEF b
<1>3. c \in Seq(E)
  BY <1>2, CallsAnsweredTyped
<1> HIDE DEF c
<1>4. d \in Seq(E)
  BY <1>3, PickTyped DEF OrphansRemoved
<1> HIDE DEF d
<1>5. e \in Seq(E)
  BY <1>4, PickTyped DEF OrphansRemoved
<1> HIDE DEF e
<1>6. f \in Seq(E)
  BY <1>5, PickTyped DEF TrailingTurnTrimmed
<1> HIDE DEF f
<1>7. TurnStartsNormalized(f) \in Seq(E)
  BY <1>6, NormalizedTyped
<1> QED
  BY <1>7 DEF Sanitized, a, b, c, d, e, f

-----------------------------------------------------------------------------
(* Edits written as recursive functions.                                   *)

\* What satisfies the recursion is made by it.
LEMMA MadeAlike ==
  ASSUME NEW A, NEW n \in Nat, NEW start \in A, NEW step, IsStep(step, n, A),
         NEW P, P = [i \in 0 .. n |-> P[i]], P[0] = start,
         \A i \in 1 .. n : P[i - 1] \in A => P[i] = step[<<i, P[i - 1]>>]
  PROVE  Made(P, n, A, start, step)
<1> DEFINE T == {i \in 0 .. n : P[i] \in A}
<1>1. ASSUME NEW k \in 0 .. n PROVE P[k] \in A
  <2>1. 0 \in T
    OBVIOUS
  <2>2. ASSUME NEW i \in 0 .. k - 1, i \in T PROVE i + 1 \in T
    <3>1. i + 1 \in 1 .. n /\ (i + 1) - 1 = i /\ i + 1 \in 0 .. n
      BY <2>2
    <3>2. P[i + 1] = step[<<i + 1, P[i]>>] /\ P[i] \in A
      BY <2>2, <3>1
    <3>3. P[i + 1] \in A
      BY <3>1, <3>2 DEF IsStep
    <3> QED
      BY <3>1, <3>3
  <2> HIDE DEF T
  <2>3. k \in T
    BY <2>1, <2>2, InductionUpTo
  <2> QED
    BY <2>3 DEF T
<1>2. P \in [0 .. n -> A]
  BY <1>1
<1>3. \A i \in 1 .. n : P[i] = step[<<i, P[i - 1]>>]
  <2>1. \A i \in 1 .. n : i - 1 \in 0 .. n
    OBVIOUS
  <2> QED
    BY <1>1, <2>1
<1> QED
  BY <1>2, <1>3 DEF Made

LEMMA ConfigAtTyped ==
  ASSUME NEW first \in Values, NEW s \in Stream, NEW i \in 0 .. Len(s)
  PROVE  ConfigAt(first, s, i) \in Values
<1> DEFINE deltas == {j \in 1 .. i : s[j].kind = "config"}
<1>1. CASE deltas = {}
  BY <1>1 DEF ConfigAt
<1>2. CASE deltas # {}
  <2>1. i \in Nat /\ deltas \subseteq Nat /\ \A j \in deltas : j <= i
    BY DEF Stream
  <2> HIDE DEF deltas
  <2>2. Max(deltas) \in deltas
    BY <1>2, <2>1, GreatestNat
  <2>3. Max(deltas) \in DOMAIN s /\ s[Max(deltas)].kind = "config"
    BY <2>2 DEF deltas, Stream
  <2>4. s[Max(deltas)].value \in Values
    BY <2>3, EventFacts, Positions DEF Stream
  <2> QED
    BY <1>2, <2>4 DEF ConfigAt, deltas
<1> QED
  BY <1>1, <1>2

\* The deltas that precede the i-th event of a copy, the tail being what it is.
DeltaOf(first, s, i, tail) ==
  IF tail = ConfigAt(first, s, i) THEN <<>> ELSE <<Delta(ConfigAt(first, s, i), s[i].n)>>
ExtendStep(first, s, i, done) ==
  IF i \in Conversation(s)
    THEN [events |-> done.events \o DeltaOf(first, s, i, done.tail) \o <<s[i]>>,
          tail |-> ConfigAt(first, s, i)]
    ELSE done
Extending(f, first, s, E) ==
  /\ f \in [0 .. Len(s) -> [events : Seq(E), tail : Values]]
  /\ f[0] = [events |-> <<>>, tail |-> first]
  /\ \A i \in 1 .. Len(s) : f[i] = ExtendStep(first, s, i, f[i - 1])
  /\ Extended(first, s) = f[Len(s)].events

LEMMA ExtendStepTyped ==
  ASSUME NEW first \in Values, NEW s \in Stream, NEW E, NEW i \in 1 .. Len(s),
         i \in Conversation(s) => s[i] \in E /\ \A v \in Values : Delta(v, s[i].n) \in E,
         NEW done \in [events : Seq(E), tail : Values]
  PROVE  ExtendStep(first, s, i, done) \in [events : Seq(E), tail : Values]
<1>1. CASE i \in Conversation(s)
  <2>1. ConfigAt(first, s, i) \in Values
    BY ConfigAtTyped DEF Stream
  <2>2. DeltaOf(first, s, i, done.tail) \in Seq(E)
    <3>1. Delta(ConfigAt(first, s, i), s[i].n) \in E
      BY <1>1, <2>1
    <3> QED
      BY <3>1 DEF DeltaOf
  <2> DEFINE d == DeltaOf(first, s, i, done.tail)
  <2>3. done.events \o d \in Seq(E)
    BY <2>2
  <2>4. (done.events \o d) \o <<s[i]>> \in Seq(E)
    <3> HIDE DEF d
    <3> QED
      BY <1>1, <2>3
  <2> QED
    BY <1>1, <2>1, <2>4 DEF ExtendStep
<1>2. CASE i \notin Conversation(s)
  BY <1>2 DEF ExtendStep
<1> QED
  BY <1>1, <1>2

LEMMA ExtendedDefined ==
  ASSUME NEW first \in Values, NEW s \in Stream, NEW E,
         \A i \in Conversation(s) : s[i] \in E /\ \A v \in Values : Delta(v, s[i].n) \in E
  PROVE  \E f : Extending(f, first, s, E)
<1> DEFINE n == Len(s)
           A == [events : Seq(E), tail : Values]
           start == [events |-> <<>>, tail |-> first]
           step == [p \in (1 .. n) \X A |-> ExtendStep(first, s, p[1], p[2])]
           body(g, i) == IF i = 0 THEN start ELSE ExtendStep(first, s, i, g[i - 1])
           P == CHOOSE g : g = [i \in 0 .. n |-> body(g, i)]
<1>1. n \in Nat /\ start \in A
  BY DEF Stream
<1>2. \A i \in 1 .. n, v \in A : step[<<i, v>>] = ExtendStep(first, s, i, v)
  OBVIOUS
<1>3. IsStep(step, n, A)
  <2> HIDE DEF step, A
  <2>1. \A i \in 1 .. n, v \in A : ExtendStep(first, s, i, v) \in A
    BY ExtendStepTyped DEF A
  <2> QED
    BY <1>2, <2>1 DEF IsStep
<1> HIDE DEF step, A
<1>4. PICK f : Made(f, n, A, start, step)
  BY <1>1, <1>3, RecursionExists
<1>5. ASSUME NEW i \in 0 .. n PROVE f[i] = body(f, i)
  <2>1. CASE i = 0
    BY <1>4, <2>1 DEF Made
  <2>2. CASE i # 0
    <3>1. i \in 1 .. n /\ i - 1 \in 0 .. n
      BY <1>1, <2>2
    <3>2. f[i] = step[<<i, f[i - 1]>>] /\ f[i - 1] \in A
      BY <1>4, <3>1 DEF Made
    <3> QED
      BY <1>2, <2>2, <3>1, <3>2
  <2> QED
    BY <2>1, <2>2
<1>6. f = [i \in 0 .. n |-> body(f, i)]
  <2> HIDE DEF body
  <2>1. f = [i \in 0 .. n |-> f[i]]
    BY <1>4 DEF Made
  <2> QED
    BY <1>5, <2>1
<1>7. Extended(first, s) = P[n].events
  BY DEF Extended, ExtendStep, DeltaOf
<1>8. P = [i \in 0 .. n |-> body(P, i)]
  <2> HIDE DEF body
  <2> QED
    BY <1>6
<1> HIDE DEF P
<1>9. P[0] = start /\ \A i \in 1 .. n : P[i] = ExtendStep(first, s, i, P[i - 1])
  <2>1. \A i \in 0 .. n : P[i] = body(P, i)
    <3> HIDE DEF body
    <3> QED
      BY <1>8
  <2> HIDE DEF start
  <2>2. 0 \in 0 .. n /\ \A i \in 1 .. n : i \in 0 .. n /\ i # 0
    BY <1>1
  <2> QED
    BY <2>1, <2>2
<1>10. Made(P, n, A, start, step)
  <2>1. \A i \in 1 .. n : P[i - 1] \in A => P[i] = step[<<i, P[i - 1]>>]
    BY <1>2, <1>9
  <2>2. P = [i \in 0 .. n |-> P[i]]
    <3> HIDE DEF body
    <3> QED
      BY <1>8
  <2> HIDE DEF start
  <2> QED
    BY <1>1, <1>3, <1>9, <2>1, <2>2, MadeAlike
<1> QED
  BY <1>7, <1>9, <1>10 DEF Made, Extending, n, A

-----------------------------------------------------------------------------
(* Compaction.                                                             *)

LEMMA TurnsCounted ==
  ASSUME NEW s \in Stream
  PROVE  TurnCount(s) \in Nat /\ \A i \in 0 .. Len(s) : TurnOf(s, i) \in Nat
<1>1. ASSUME NEW i \in 0 .. Len(s) PROVE TurnOf(s, i) \in Nat
  <2> DEFINE first == FirstOf(Conversation(s))
             opened == {j \in first + 1 .. i : s[j].kind = "turn"}
  <2>1. first \in Nat /\ i \in Int
    BY Positions, FirstAmong DEF Stream
  <2> HIDE DEF first
  <2>2. IsFiniteSet(first + 1 .. i)
    BY <2>1, FS_Interval
  <2>3. IsFiniteSet(opened)
    BY <2>2, FS_Subset
  <2>4. Cardinality(opened) \in Nat
    BY <2>3, FS_CardinalityType
  <2> QED
    BY <2>4 DEF TurnOf, first
<1>2. Len(s) \in 0 .. Len(s)
  BY DEF Stream
<1> QED
  BY <1>1, <1>2 DEF TurnCount

\* Ranges that are not inverted, and streams whose overlays have such.
TurnRange == {r \in [from : Nat, to : Nat] : r.from <= r.to}
WellRanged(s) == \A i \in Overlays(s) : s[i].from <= s[i].to
Rule == [range : TurnRange, policy : SUBSET AllPolicies]

LEMMA OverlayFacts ==
  ASSUME NEW s \in Stream, NEW i \in Overlays(s)
  PROVE  /\ i \in DOMAIN s /\ s[i] \in Event /\ s[i].kind = "overlay"
         /\ s[i].from \in Nat /\ s[i].to \in Nat /\ s[i].policy \subseteq AllPolicies
BY EventFacts, Positions DEF Overlays, Where, Stream

LEMMA RuleLists_Rules ==
  ASSUME NEW s \in Stream, NEW r \in Ranges(s)
  PROVE  r \in TurnRange
BY TurnsCounted DEF Ranges, UncheckedRanges, TurnRange

\* What one growth of a range does.
LEMMA GrownRange ==
  ASSUME NEW s \in Stream, WellRanged(s), NEW r \in TurnRange
  PROVE  /\ Grown(s, r) \in TurnRange
         /\ Grown(s, r).from <= r.from /\ r.to <= Grown(s, r).to
         /\ \A i \in Touched(s, r) : Grown(s, r).from <= s[i].from /\ s[i].to <= Grown(s, r).to
         /\ Grown(s, r).from = r.from \/ \E i \in Touched(s, r) : Grown(s, r).from = s[i].from
         /\ Grown(s, r).to = r.to \/ \E i \in Touched(s, r) : Grown(s, r).to = s[i].to
<1> DEFINE T == Touched(s, r)
           F == {r.from} \cup {s[i].from : i \in T}
           U == {r.to} \cup {s[i].to : i \in T}
<1>1. \A i \in T : i \in DOMAIN s /\ i \in Overlays(s) /\ s[i].from \in Nat /\ s[i].to \in Nat
  BY OverlayFacts DEF Touched
<1>2. r.from \in Nat /\ r.to \in Nat /\ r.from <= r.to
  BY DEF TurnRange
<1>3. Grown(s, r) = [from |-> Min(F), to |-> Max(U)]
  BY DEF Grown
<1> HIDE DEF T
<1>4. F \subseteq Nat /\ U \subseteq Nat /\ F # {} /\ U # {}
  BY <1>1, <1>2
<1>5. PICK b \in Nat : \A y \in U : y <= b
  <2> DEFINE f == [i \in 1 .. Len(s) |-> IF i \in T THEN s[i].to ELSE 0]
  <2>1. Len(s) \in Nat /\ \A i \in 1 .. Len(s) : f[i] \in Nat
    BY <1>1 DEF Stream
  <2> HIDE DEF f
  <2>2. PICK a \in Nat : \A i \in 1 .. Len(s) : f[i] <= a
    BY <2>1, BoundedValues
  <2> USE DEF f
  <2>3. \A i \in T : s[i].to <= a
    BY <1>1, <2>2 DEF Stream
  <2>4. \A y \in U : y <= a + r.to
    BY <1>1, <1>2, <2>2, <2>3
  <2>5. a + r.to \in Nat
    BY <1>2, <2>2
  <2> HIDE DEF f, U
  <2> QED
    BY <2>4, <2>5
<1>6. Min(F) \in F /\ \A y \in F : Min(F) <= y
  <2> HIDE DEF F
  <2> QED
    BY <1>4, LeastNat
<1>7. Max(U) \in U /\ \A y \in U : y <= Max(U)
  <2> HIDE DEF U
  <2> QED
    BY <1>4, <1>5, GreatestNat
<1> DEFINE lo == Min(F)
           hi == Max(U)
<1>8. lo \in Nat /\ hi \in Nat /\ lo <= r.from /\ r.to <= hi
  BY <1>4, <1>6, <1>7
<1>9. \A i \in T : lo <= s[i].from /\ s[i].to <= hi
  BY <1>6, <1>7
<1>10. (lo = r.from \/ \E i \in T : lo = s[i].from) /\ (hi = r.to \/ \E i \in T : hi = s[i].to)
  BY <1>6, <1>7
<1> HIDE DEF lo, hi, F, U
<1>11. lo <= hi
  BY <1>2, <1>8
<1>12. Grown(s, r) = [from |-> lo, to |-> hi]
  BY <1>3 DEF lo, hi
<1>13. Grown(s, r) \in TurnRange /\ Grown(s, r).from = lo /\ Grown(s, r).to = hi
  BY <1>8, <1>11, <1>12 DEF TurnRange
<1> QED
  BY <1>8, <1>9, <1>10, <1>13 DEF T

\* The steps of the growth.
Growing(f, s, range) ==
  /\ f \in [0 .. Cardinality(Overlays(s)) -> TurnRange]
  /\ f[0] = range
  /\ \A k \in 1 .. Cardinality(Overlays(s)) : f[k] = Grown(s, f[k - 1])
  /\ SummaryRange(s, range) = f[Cardinality(Overlays(s))]

LEMMA OverlaysFinite ==
  ASSUME NEW s \in Stream
  PROVE  IsFiniteSet(Overlays(s)) /\ Cardinality(Overlays(s)) \in Nat
<1>1. Overlays(s) \subseteq 1 .. Len(s) /\ Len(s) \in Nat
  BY Positions DEF Stream
<1>2. IsFiniteSet(1 .. Len(s))
  BY <1>1, FS_Interval
<1>3. IsFiniteSet(Overlays(s))
  BY <1>1, <1>2, FS_Subset
<1> QED
  BY <1>3, FS_CardinalityType

LEMMA GrowthDefined ==
  ASSUME NEW s \in Stream, WellRanged(s), NEW range \in TurnRange
  PROVE  \E f : Growing(f, s, range)
<1> DEFINE n == Cardinality(Overlays(s))
           step == [p \in (1 .. n) \X TurnRange |-> Grown(s, p[2])]
           body(g, i) == IF i = 0 THEN range ELSE Grown(s, g[i - 1])
           P == CHOOSE g : g = [i \in 0 .. n |-> body(g, i)]
<1>1. n \in Nat
  BY OverlaysFinite
<1>2. \A i \in 1 .. n, v \in TurnRange : step[<<i, v>>] = Grown(s, v)
  OBVIOUS
<1>3. IsStep(step, n, TurnRange)
  <2> HIDE DEF step
  <2>1. \A v \in TurnRange : Grown(s, v) \in TurnRange
    BY GrownRange
  <2> QED
    BY <1>2, <2>1 DEF IsStep
<1> HIDE DEF step, n
<1>4. PICK f : Made(f, n, TurnRange, range, step)
  BY <1>1, <1>3, RecursionExists
<1>5. ASSUME NEW i \in 0 .. n PROVE f[i] = body(f, i)
  <2>1. CASE i = 0
    BY <1>4, <2>1 DEF Made
  <2>2. CASE i # 0
    <3>1. i \in 1 .. n /\ i - 1 \in 0 .. n
      BY <1>1, <2>2
    <3>2. f[i] = step[<<i, f[i - 1]>>] /\ f[i - 1] \in TurnRange
      BY <1>4, <3>1 DEF Made
    <3> QED
      BY <1>2, <2>2, <3>1, <3>2
  <2> QED
    BY <2>1, <2>2
<1>6. f = [i \in 0 .. n |-> body(f, i)]
  <2> HIDE DEF body
  <2>1. f = [i \in 0 .. n |-> f[i]]
    BY <1>4 DEF Made
  <2> QED
    BY <1>5, <2>1
<1>7. SummaryRange(s, range) = P[n]
  BY DEF SummaryRange, n
<1>8. P = [i \in 0 .. n |-> body(P, i)]
  <2> HIDE DEF body
  <2> QED
    BY <1>6
<1> HIDE DEF P
<1>9. P[0] = range /\ \A i \in 1 .. n : P[i] = Grown(s, P[i - 1])
  <2>1. \A i \in 0 .. n : P[i] = body(P, i)
    <3> HIDE DEF body
    <3> QED
      BY <1>8
  <2>2. 0 \in 0 .. n /\ \A i \in 1 .. n : i \in 0 .. n /\ i # 0
    BY <1>1
  <2> QED
    BY <2>1, <2>2
<1>10. Made(P, n, TurnRange, range, step)
  <2>1. \A i \in 1 .. n : P[i - 1] \in TurnRange => P[i] = step[<<i, P[i - 1]>>]
    BY <1>2, <1>9
  <2>2. P = [i \in 0 .. n |-> P[i]]
    <3> HIDE DEF body
    <3> QED
      BY <1>8
  <2> QED
    BY <1>1, <1>3, <1>9, <2>1, <2>2, MadeAlike
<1> QED
  BY <1>7, <1>9, <1>10 DEF Made, Growing, n

\* The overlays a command adds, one after the other.
NewRange(before, rule) ==
  IF "summary" \in rule.policy THEN SummaryRange(before, rule.range) ELSE rule.range
NewOverlayOf(s, n, before, rule) ==
  Overlay(NewRange(before, rule), rule.policy,
          Stamps(s, NewRange(before, rule).from, NewRange(before, rule).to), n)
CompactStep(s, n, before, rule) == Append(before, NewOverlayOf(s, n, before, rule))
Compacting(f, s, rules, n) ==
  /\ f \in [0 .. Len(rules) -> {t \in Stream : WellRanged(t)}]
  /\ f[0] = s
  /\ \A k \in 1 .. Len(rules) : f[k] = CompactStep(s, n, f[k - 1], rules[k])
  /\ Compacted(s, rules, n) = f[Len(rules)]

LEMMA CompactStepTyped ==
  ASSUME NEW s \in Stream, NEW n \in Nat, NEW before \in Stream, WellRanged(before), NEW rule \in Rule
  PROVE  LET e == NewOverlayOf(s, n, before, rule)
             t == CompactStep(s, n, before, rule)
         IN  /\ NewRange(before, rule) \in TurnRange
             /\ e \in Event /\ e.kind = "overlay" /\ e.n = n /\ e.from <= e.to
             /\ e.from = NewRange(before, rule).from /\ e.to = NewRange(before, rule).to
             /\ e.policy = rule.policy
             /\ e.of = Stamps(s, NewRange(before, rule).from, NewRange(before, rule).to)
             /\ t \in Stream /\ WellRanged(t)
<1> DEFINE e == NewOverlayOf(s, n, before, rule)
           t == CompactStep(s, n, before, rule)
           range == NewRange(before, rule)
           of == Stamps(s, range.from, range.to)
<1>1. range \in TurnRange
  <2>1. CASE "summary" \in rule.policy
    <3>1. rule.range \in TurnRange
      BY DEF Rule
    <3>2. PICK f : Growing(f, before, rule.range)
      BY <3>1, GrowthDefined
    <3>3. Cardinality(Overlays(before)) \in 0 .. Cardinality(Overlays(before))
      BY OverlaysFinite
    <3>4. SummaryRange(before, rule.range) \in TurnRange
      BY <3>2, <3>3 DEF Growing
    <3> QED
      BY <2>1, <3>4 DEF NewRange
  <2>2. CASE "summary" \notin rule.policy
    BY <2>2 DEF NewRange, Rule
  <2> QED
    BY <2>1, <2>2
<1> HIDE DEF range
<1>2. of \in SUBSET Nat
  <2>1. \A i \in Conversation(s) : s[i].n \in Nat
    BY Positions, EventFacts DEF Stream
  <2> QED
    BY <2>1 DEF Stamps
<1>3. e = Overlay(range, rule.policy, of, n)
  BY DEF NewOverlayOf, range
<1> HIDE DEF of, e
<1>4. /\ e \in Event /\ e.kind = "overlay" /\ e.n = n /\ e.from = range.from /\ e.to = range.to
      /\ e.policy = rule.policy /\ e.of = of
  <2>1. rule.policy \in SUBSET AllPolicies /\ range \in [from : Nat, to : Nat]
    BY <1>1 DEF Rule, TurnRange
  <2> QED
    BY <1>2, <1>3, <2>1, NewOverlay
<1>5. e.from <= e.to
  BY <1>1, <1>4 DEF TurnRange
<1>6. t = Append(before, e)
  BY DEF CompactStep, e
<1> HIDE DEF t
<1>7. t \in Stream /\ Len(t) = Len(before) + 1 /\ Len(before) \in Nat
  BY <1>4, <1>6 DEF Stream
<1>8. ASSUME NEW i \in Overlays(t) PROVE t[i].from <= t[i].to
  <2>1. i \in DOMAIN t /\ t[i].kind = "overlay"
    BY <1>7, OverlayFacts
  <2>2. CASE i = Len(before) + 1
    BY <1>5, <1>6, <2>2 DEF Stream
  <2>3. CASE i # Len(before) + 1
    <3>1. i \in DOMAIN before /\ t[i] = before[i]
      BY <1>4, <1>6, <1>7, <2>1, <2>3 DEF Stream
    <3>2. i \in Overlays(before)
      BY <2>1, <3>1 DEF Overlays, Where
    <3> QED
      BY <3>1, <3>2 DEF WellRanged
  <2> QED
    BY <2>2, <2>3
<1>9. t \in Stream /\ WellRanged(t)
  BY <1>7, <1>8 DEF WellRanged
<1> QED
  BY <1>1, <1>4, <1>5, <1>9 DEF of, e, t, range

LEMMA CompactionDefined ==
  ASSUME NEW s \in Stream, WellRanged(s), NEW n \in Nat, NEW rules \in Seq(Rule)
  PROVE  \E f : Compacting(f, s, rules, n)
<1> DEFINE m == Len(rules)
           A == {t \in Stream : WellRanged(t)}
           step == [p \in (1 .. m) \X A |-> CompactStep(s, n, p[2], rules[p[1]])]
           body(g, i) == IF i = 0 THEN s ELSE CompactStep(s, n, g[i - 1], rules[i])
           P == CHOOSE g : g = [i \in 0 .. m |-> body(g, i)]
<1>1. m \in Nat /\ s \in A /\ \A i \in 1 .. m : rules[i] \in Rule
  OBVIOUS
<1>2. \A i \in 1 .. m, v \in A : step[<<i, v>>] = CompactStep(s, n, v, rules[i])
  OBVIOUS
<1>3. IsStep(step, m, A)
  <2> HIDE DEF step
  <2>1. ASSUME NEW v \in A, NEW i \in 1 .. m PROVE CompactStep(s, n, v, rules[i]) \in A
    <3>1. v \in Stream /\ WellRanged(v) /\ rules[i] \in Rule
      BY <1>1
    <3>2. CompactStep(s, n, v, rules[i]) \in Stream /\ WellRanged(CompactStep(s, n, v, rules[i]))
      BY <3>1, CompactStepTyped
    <3> QED
      BY <3>2
  <2> HIDE DEF A, m
  <2> QED
    BY <1>2, <2>1 DEF IsStep
<1> HIDE DEF step, m, A
<1>4. PICK f : Made(f, m, A, s, step)
  BY <1>1, <1>3, RecursionExists
<1>5. ASSUME NEW i \in 0 .. m PROVE f[i] = body(f, i)
  <2>1. CASE i = 0
    BY <1>4, <2>1 DEF Made
  <2>2. CASE i # 0
    <3>1. i \in 1 .. m /\ i - 1 \in 0 .. m
      BY <1>1, <2>2
    <3>2. f[i] = step[<<i, f[i - 1]>>] /\ f[i - 1] \in A
      BY <1>4, <3>1 DEF Made
    <3> QED
      BY <1>2, <2>2, <3>1, <3>2
  <2> QED
    BY <2>1, <2>2
<1>6. f = [i \in 0 .. m |-> body(f, i)]
  <2> HIDE DEF body
  <2>1. f = [i \in 0 .. m |-> f[i]]
    BY <1>4 DEF Made
  <2> QED
    BY <1>5, <2>1
<1>7. Compacted(s, rules, n) = P[m]
  BY DEF Compacted, CompactStep, NewOverlayOf, NewRange, m
<1>8. P = [i \in 0 .. m |-> body(P, i)]
  <2> HIDE DEF body
  <2> QED
    BY <1>6
<1> HIDE DEF P
<1>9. P[0] = s /\ \A i \in 1 .. m : P[i] = CompactStep(s, n, P[i - 1], rules[i])
  <2>1. \A i \in 0 .. m : P[i] = body(P, i)
    <3> HIDE DEF body
    <3> QED
      BY <1>8
  <2>2. 0 \in 0 .. m /\ \A i \in 1 .. m : i \in 0 .. m /\ i # 0
    BY <1>1
  <2> QED
    BY <2>1, <2>2
<1>10. Made(P, m, A, s, step)
  <2>1. \A i \in 1 .. m : P[i - 1] \in A => P[i] = step[<<i, P[i - 1]>>]
    BY <1>2, <1>9
  <2>2. P = [i \in 0 .. m |-> P[i]]
    <3> HIDE DEF body
    <3> QED
      BY <1>8
  <2> QED
    BY <1>1, <1>3, <1>9, <2>1, <2>2, MadeAlike
<1> QED
  BY <1>7, <1>9, <1>10 DEF Made, Compacting, m, A

-----------------------------------------------------------------------------
(* Type correctness.                                                       *)

LEMMA PastGrows ==
  ASSUME NEW c \in Nat
  PROVE  Past(c) \subseteq Past(c + 1) /\ Past(c) \subseteq Event
<1>1. SUFFICES ASSUME NEW e \in Past(c) PROVE e \in Past(c + 1)
  BY DEF Past
<1>2. e \in Event /\ e.n < c /\ e.n \in Nat
  BY EventFacts DEF Past
<1>3. ASSUME e.kind \in Identified PROVE e.id < c /\ e.id \in Nat
  BY <1>2, <1>3, EventFacts DEF Past
<1> QED
  BY <1>2, <1>3 DEF Past

LEMMA PastStream ==
  ASSUME NEW c \in Nat, NEW s \in Seq(Past(c))
  PROVE  s \in Seq(Past(c + 1)) /\ s \in Stream /\ WellRanged(s)
<1>1. s \in Seq(Past(c + 1)) /\ s \in Stream
  BY PastGrows, SeqWithin DEF Stream
<1>2. \A i \in DOMAIN s : s[i] \in Past(c)
  OBVIOUS
<1> QED
  BY <1>1, <1>2 DEF WellRanged, Overlays, Where, Past

LEMMA CurrentTyped ==
  ASSUME NEW E, E \subseteq Event, NEW s \in Seq(E)
  PROVE  CurrentTurn(s) \in Seq(E)
<1>1. s \in Stream
  BY SeqWithin DEF Stream
<1>2. LastOf(Where(s, {"turn"})) \in 0 .. Len(s)
  BY <1>1, Positions, LastAmong DEF Stream
<1> DEFINE l == LastOf(Where(s, {"turn"}))
<1> HIDE DEF l
<1>3. SubSeq(s, l + 1, Len(s)) \in Seq(E)
  BY <1>2 DEF l
<1> QED
  BY <1>3 DEF CurrentTurn, l

LEMMA IdsPast ==
  ASSUME NEW c \in Nat, NEW s \in Seq(Past(c)), NEW kind \in Identified, NEW id \in Ids(s, kind)
  PROVE  id \in Nat /\ id < c
<1>1. PICK i \in DOMAIN s : s[i].kind = kind /\ id = s[i].id
  BY DEF Ids, Where
<1>2. s[i] \in Past(c)
  OBVIOUS
<1> QED
  BY <1>1, <1>2, EventFacts DEF Past

LEMMA FilteredTyped ==
  ASSUME NEW E, stream \in Seq(E), NEW filtered \in Filtered
  PROVE  filtered \in Seq(E)
<1>1. ASSUME NEW kept PROVE Retained(stream, kept) \in Seq(E)
  BY PickTyped DEF Retained
<1>2. CASE \E w \in Windows : filtered = Timely(stream, w)
  BY <1>1, <1>2 DEF Timely
<1>3. CASE \E counts \in TurnCounts : filtered = FirstAndLastTurns(stream, counts[1], counts[2])
  BY <1>1, <1>3 DEF FirstAndLastTurns
<1> QED
  BY <1>2, <1>3 DEF Filtered

LEMMA RulesTyped ==
  ASSUME stream \in Stream, NEW rules \in RuleLists
  PROVE  rules \in Seq(Rule)
<1> DEFINE R == [range : Ranges(stream), policy : Policies]
<1>1. R \subseteq Rule
  BY RuleLists_Rules, ConstantsAssumption DEF Rule
<1>2. (\E r \in R : rules = <<r>>) \/ \E r1, r2 \in R : rules = <<r1, r2>>
  BY DEF RuleLists
<1> HIDE DEF R
<1>3. \A r1, r2 \in Rule : <<r1>> \in Seq(Rule) /\ <<r1, r2>> \in Seq(Rule)
  OBVIOUS
<1> QED
  BY <1>1, <1>2, <1>3

\* What the events in progress are typed by.
Progress ==
  /\ base \in Values /\ phase \in {"idle", "request", "stream", "tools"}
  /\ moved \in BOOLEAN /\ clock \in 1 .. MaxClock /\ stream \in Seq(Past(clock))

LEMMA InitProgress == Init => Progress
<1> SUFFICES ASSUME Init PROVE Progress
  OBVIOUS
<1>1. 1 \in 1 .. MaxClock
  BY ConstantsAssumption
<1>2. stream \in Seq(Past(clock))
  BY DEF Init
<1> QED
  BY <1>1, <1>2 DEF Init, Progress

\* The clock ticks, or the stream is made of what it was made of.
LEMMA ProgressTicks ==
  ASSUME Progress, base' \in Values, phase' \in {"idle", "request", "stream", "tools"},
         moved' \in BOOLEAN, clock < MaxClock, clock' = clock + 1, stream' \in Seq(Past(clock + 1))
  PROVE  Progress'
<1>1. clock + 1 \in 1 .. MaxClock
  BY ConstantsAssumption DEF Progress
<1> QED
  BY <1>1 DEF Progress

LEMMA ProgressEdits ==
  ASSUME Progress, base' \in Values, phase' \in {"idle", "request", "stream", "tools"},
         moved' \in BOOLEAN, clock' = clock, stream' \in Seq(Past(clock))
  PROVE  Progress'
BY DEF Progress

LEMMA ClockFacts == Progress => clock \in Nat /\ clock >= 1 /\ Closed(Past(clock)) /\ Closed(Past(clock + 1))
<1>1. Progress => clock \in Nat /\ clock >= 1
  BY ConstantsAssumption DEF Progress
<1> QED
  BY <1>1, PastClosed

LEMMA NewPast ==
  ASSUME NEW c \in Nat
  PROVE  /\ Turn(c) \in Past(c + 1) /\ Ask(c) \in Past(c + 1)
         /\ \A kind \in {"say", "think"} : Told(kind, c) \in Past(c + 1)
         /\ \A kind \in Identified, id \in Nat : id <= c => Paired(kind, id, c) \in Past(c + 1)
         /\ \A value \in Values, n \in Nat : n <= c => Delta(value, n) \in Past(c + 1)
<1>1. c < c + 1
  OBVIOUS
<1>2. Turn(c) \in Past(c + 1) /\ Ask(c) \in Past(c + 1)
  <2>1. Turn(c) \in Event /\ Turn(c).kind = "turn" /\ Turn(c).n = c
    BY NewEvents
  <2>2. Ask(c) \in Event /\ Ask(c).kind = "ask" /\ Ask(c).n = c
    BY NewEvents
  <2> QED
    BY <1>1, <2>1, <2>2 DEF Past, Identified
<1>3. ASSUME NEW kind \in {"say", "think"} PROVE Told(kind, c) \in Past(c + 1)
  <2>1. Told(kind, c) \in Event /\ Told(kind, c).kind = kind /\ Told(kind, c).n = c
    BY NewEvents
  <2> QED
    BY <1>1, <2>1 DEF Past, Identified
<1>4. ASSUME NEW kind \in Identified, NEW id \in Nat, id <= c PROVE Paired(kind, id, c) \in Past(c + 1)
  <2> DEFINE e == Paired(kind, id, c)
  <2>1. e \in Event /\ e.kind = kind /\ e.n = c /\ e.id = id
    BY NewEvents
  <2> HIDE DEF e
  <2>2. id < c + 1
    BY <1>4
  <2>3. e \in Past(c + 1)
    BY <1>1, <2>1, <2>2 DEF Past, Identified
  <2> QED
    BY <2>3 DEF e
<1>5. ASSUME NEW value \in Values, NEW n \in Nat, n <= c PROVE Delta(value, n) \in Past(c + 1)
  <2> DEFINE e == Delta(value, n)
  <2>1. e \in Event /\ e.kind = "config" /\ e.n = n
    BY NewEvents
  <2> HIDE DEF e
  <2>2. n < c + 1
    BY <1>5
  <2>3. e \in Past(c + 1)
    BY <2>1, <2>2 DEF Past, Identified
  <2> QED
    BY <2>3 DEF e
<1> QED
  BY <1>2, <1>3, <1>4, <1>5

LEMMA TrimmedTyped ==
  ASSUME NEW E, NEW s \in Seq(E), NEW trim \in {"none", "replay_turn", "pop_request"}
  PROVE  Trimmed(s, trim) \in Seq(E)
<1>1. ASSUME NEW t \in Seq(E) PROVE TrailingTurnTrimmed(t) \in Seq(E)
  BY PickTyped DEF TrailingTurnTrimmed
<1>2. ChatRequestTrimmed(s) \in Seq(E)
  BY PickTyped DEF ChatRequestTrimmed
<1>3. RequestPopped(s) \in Seq(E)
  BY PickTyped DEF RequestPopped
<1>4. CASE trim = "none"
  <2>1. Trimmed(s, trim) = s
    BY <1>4 DEF Trimmed
  <2> QED
    BY <2>1
<1>5. CASE trim = "replay_turn"
  <2>1. Trimmed(s, trim) = TrailingTurnTrimmed(ChatRequestTrimmed(s))
    BY <1>5 DEF Trimmed
  <2> QED
    BY <1>1, <1>2, <2>1
<1>6. CASE trim = "pop_request"
  <2>1. Trimmed(s, trim) = TrailingTurnTrimmed(RequestPopped(s))
    BY <1>6 DEF Trimmed
  <2> QED
    BY <1>1, <1>3, <2>1
<1> QED
  BY <1>4, <1>5, <1>6

LEMMA PushTyped ==
  ASSUME Progress, NEW e \in Past(clock + 1), NEW then \in {"request", "stream", "tools"}, Push(e, then)
  PROVE  Progress'
<1>1. stream \in Seq(Past(clock + 1))
  BY ClockFacts, PastStream DEF Progress
<1>2. stream' \in Seq(Past(clock + 1))
  BY <1>1 DEF Push
<1> QED
  BY <1>2, ProgressTicks DEF Push, Progress

LEMMA QueryTyped ==
  ASSUME Progress, NEW trim \in {"none", "replay_turn", "pop_request"}, Query(trim)
  PROVE  Progress'
<1>1. Sanitized(stream) \in Seq(Past(clock))
  BY ClockFacts, SanitizedTyped DEF Progress
<1> DEFINE t == Trimmed(Sanitized(stream), trim)
<1>2. t \in Seq(Past(clock))
  BY <1>1, TrimmedTyped
<1>3. stream' = t \o <<Turn(clock), Ask(clock)>>
  BY DEF Query, StartTurn
<1> HIDE DEF t
<1>4. t \in Seq(Past(clock + 1)) /\ Turn(clock) \in Past(clock + 1) /\ Ask(clock) \in Past(clock + 1)
  BY <1>2, ClockFacts, PastStream, NewPast
<1>5. stream' \in Seq(Past(clock + 1))
  BY <1>3, <1>4
<1>6. moved' \in BOOLEAN
  BY DEF Query, Displaced, Progress
<1> QED
  BY <1>5, <1>6, ProgressTicks DEF Query, Progress

LEMMA ToolResultsTyped == ASSUME Progress, ToolResults PROVE Progress'
<1> DEFINE current == CurrentTurn(stream)
           S == {i \in Where(current, {"call"}) : current[i].id \in Unanswered}
           calls == Pick(current, S)
           results == [k \in DOMAIN calls |-> Paired("result", calls[k].id, clock)]
<1>1. current \in Seq(Past(clock))
  BY ClockFacts, CurrentTyped DEF Progress, Closed
<1>2. calls \in Seq(Past(clock)) /\ IsPlaced(calls, current, S)
  BY <1>1, PickPlaces
<1>3. ASSUME NEW k \in DOMAIN calls PROVE calls[k].kind = "call" /\ calls[k] \in Past(clock)
  <2> HIDE DEF calls
  <2>1. PICK place : PlacedAt(place, calls, current, S)
    BY <1>2 DEF IsPlaced
  <2>2. k \in 1 .. Len(calls)
    BY <1>2
  <2>3. place[k] \in S /\ calls[k] = current[place[k]]
    BY <2>1, <2>2 DEF PlacedAt
  <2> QED
    BY <1>2, <2>3 DEF Where
<1>4. stream' = stream \o results
  BY DEF ToolResults
<1> HIDE DEF calls
<1>5. ASSUME NEW k \in DOMAIN calls PROVE Paired("result", calls[k].id, clock) \in Past(clock + 1)
  <2>1. calls[k].id \in Nat /\ calls[k].id < clock
    BY <1>3, EventFacts DEF Past, Identified
  <2> QED
    BY <2>1, ClockFacts, NewPast DEF Identified
<1>6. results \in Seq(Past(clock + 1))
  <2>1. DOMAIN calls = 1 .. Len(calls) /\ Len(calls) \in Nat
    BY <1>2
  <2> QED
    BY <1>5, <2>1
<1> HIDE DEF results
<1>7. stream \in Seq(Past(clock + 1))
  BY ClockFacts, PastStream DEF Progress
<1>8. stream' \in Seq(Past(clock + 1))
  BY <1>4, <1>6, <1>7
<1> QED
  BY <1>8, ProgressTicks DEF ToolResults, Progress

LEMMA CompactTyped == ASSUME Progress, Compact PROVE Progress'
<1>1. stream \in Stream /\ WellRanged(stream) /\ clock \in Nat
  BY ClockFacts, PastStream DEF Progress
<1>2. PICK rules \in RuleLists : stream' = Compacted(stream, rules, clock)
  BY DEF Compact
<1>3. rules \in Seq(Rule)
  BY <1>1, RulesTyped
<1>4. PICK f : Compacting(f, stream, rules, clock)
  BY <1>1, <1>3, CompactionDefined
<1> DEFINE T == {k \in 0 .. Len(rules) : f[k] \in Seq(Past(clock + 1))}
<1>5. Len(rules) \in Nat
  BY <1>3
<1>6. 0 \in T
  BY <1>4, <1>5, ClockFacts, PastStream DEF Compacting, Progress
<1>7. ASSUME NEW k \in 0 .. Len(rules) - 1, k \in T PROVE k + 1 \in T
  <2>1. k + 1 \in 1 .. Len(rules) /\ (k + 1) - 1 = k /\ k \in 0 .. Len(rules)
    BY <1>5
  <2>2. f[k + 1] = CompactStep(stream, clock, f[k], rules[k + 1])
    BY <1>4, <2>1 DEF Compacting
  <2>3. f[k] \in Stream /\ WellRanged(f[k]) /\ rules[k + 1] \in Rule
    BY <1>3, <1>4, <2>1 DEF Compacting
  <2> DEFINE before == f[k]
             rule == rules[k + 1]
             e == NewOverlayOf(stream, clock, before, rule)
  <2>8. before \in Stream /\ WellRanged(before) /\ rule \in Rule
    BY <2>3
  <2> HIDE DEF before, rule
  <2>4. e \in Event /\ e.kind = "overlay" /\ e.n = clock /\ e.from <= e.to
    BY <1>1, <2>8, CompactStepTyped
  <2>5. f[k + 1] = Append(f[k], e)
    BY <2>2 DEF CompactStep, before, rule
  <2> HIDE DEF e
  <2>6. e \in Past(clock + 1)
    BY <1>1, <2>4 DEF Past, Identified
  <2>7. f[k + 1] \in Seq(Past(clock + 1))
    BY <1>7, <2>5, <2>6
  <2> QED
    BY <2>1, <2>7
<1> HIDE DEF T
<1>8. Len(rules) \in T
  BY <1>5, <1>6, <1>7, InductionUpTo
<1>9. stream' \in Seq(Past(clock + 1))
  BY <1>2, <1>4, <1>8 DEF Compacting, T
<1> QED
  BY <1>9, ProgressTicks DEF Compact, Progress

LEMMA ForkTyped == ASSUME Progress, Fork PROVE Progress'
<1>1. PICK filtered \in Filtered : stream' = Extended(base, Sanitized(filtered))
  BY DEF Fork, Copies
<1> DEFINE copy == Sanitized(filtered)
<1>2. copy \in Seq(Past(clock))
  BY ClockFacts, FilteredTyped, SanitizedTyped DEF Progress
<1>3. copy \in Stream /\ base \in Values
  BY <1>2, ClockFacts, PastStream DEF Progress
<1> HIDE DEF copy
<1>4. ASSUME NEW i \in Conversation(copy)
      PROVE  copy[i] \in Past(clock) /\ \A v \in Values : Delta(v, copy[i].n) \in Past(clock)
  <2>1. copy[i] \in Past(clock)
    BY <1>2 DEF Conversation
  <2>2. copy[i].n \in Nat /\ copy[i].n < clock
    BY <2>1, EventFacts DEF Past
  <2>3. clock - 1 \in Nat /\ (clock - 1) + 1 = clock /\ copy[i].n <= clock - 1
    BY <2>2, ClockFacts
  <2>4. \A v \in Values : Delta(v, copy[i].n) \in Past((clock - 1) + 1)
    BY <2>2, <2>3, NewPast
  <2> QED
    BY <2>1, <2>3, <2>4
<1>5. PICK f : Extending(f, base, copy, Past(clock))
  BY <1>3, <1>4, ExtendedDefined
<1>6. Len(copy) \in 0 .. Len(copy)
  BY <1>3 DEF Stream
<1>7. Extended(base, copy) \in Seq(Past(clock))
  BY <1>5, <1>6 DEF Extending
<1>8. stream' \in Seq(Past(clock))
  BY <1>1, <1>7 DEF copy
<1> QED
  BY <1>8, ProgressEdits DEF Fork, Progress

LEMMA NextTyped == ASSUME Progress, [Next]_vars PROVE Progress'
<1>0. /\ clock \in Nat /\ clock >= 1 /\ Closed(Past(clock)) /\ stream \in Seq(Past(clock))
      /\ stream \in Seq(Past(clock + 1)) /\ stream \in Stream
      /\ base \in Values /\ phase \in {"idle", "request", "stream", "tools"} /\ moved \in BOOLEAN
  BY ClockFacts, PastStream DEF Progress
<1>1. ASSUME NEW trim \in {"none", "replay_turn", "pop_request"}, Query(trim) PROVE Progress'
  BY <1>1, QueryTyped
<1>2. CASE Content
  <2>1. PICK part \in Parts : Push(Told(part, clock), "stream")
    BY <1>2 DEF Content
  <2>2. Told(part, clock) \in Past(clock + 1)
    BY <1>0, NewPast, ConstantsAssumption
  <2> QED
    BY <2>1, <2>2, PushTyped
<1>3. CASE CallTool
  <2>1. Paired("call", clock, clock) \in Past(clock + 1)
    BY <1>0, NewPast DEF Identified
  <2> QED
    BY <1>3, <2>1, PushTyped DEF CallTool
<1>4. CASE Reply
  <2>1. Ask(clock) \in Past(clock + 1)
    BY <1>0, NewPast
  <2> QED
    BY <1>4, <2>1, PushTyped DEF Reply
<1>5. ASSUME NEW id, id \in Unanswered, NEW kind \in Identified, Push(Paired(kind, id, clock), "tools")
      PROVE  Progress'
  <2>1. CurrentTurn(stream) \in Seq(Past(clock))
    BY <1>0, CurrentTyped DEF Closed
  <2>2. id \in Ids(CurrentTurn(stream), "call")
    BY <1>5 DEF Unanswered
  <2>3. id \in Nat /\ id < clock
    BY <1>0, <2>1, <2>2, IdsPast DEF Identified
  <2>4. Paired(kind, id, clock) \in Past(clock + 1)
    BY <1>0, <2>3, NewPast
  <2> QED
    BY <1>5, <2>4, PushTyped
<1>6. CASE Question
  BY <1>5, <1>6 DEF Question, Identified
<1>7. CASE Answer
  BY <1>5, <1>7 DEF Answer, Identified
<1>8. CASE ToolResults
  BY <1>8, ToolResultsTyped
<1>9. CASE Refused
  <2>1. stream' \in Seq(Past(clock))
    BY <1>0, <1>9, PickTyped DEF Refused, ResponsesPopped
  <2> QED
    BY <1>0, <1>9, <2>1, ProgressEdits DEF Refused
<1>10. CASE Cycle
  <2>1. stream' \in Seq(Past(clock))
    BY <1>0, <1>10, SanitizedTyped DEF Cycle
  <2>2. moved' \in BOOLEAN
    BY <1>0, <1>10 DEF Cycle, Displaced
  <2> QED
    BY <1>0, <1>10, <2>1, <2>2, ProgressEdits DEF Cycle
<1>11. CASE End
  BY <1>0, <1>11, ProgressEdits DEF End
<1>12. ASSUME NEW value \in Values, Configure(value) PROVE Progress'
  <2>1. CASE stream' = stream
    BY <1>0, <1>12, <2>1, ProgressEdits DEF Configure
  <2>2. CASE stream' # stream
    <3>1. stream' = Append(stream, Delta(value, clock))
      BY <1>12, <2>2 DEF Configure, WithDelta
    <3>2. Delta(value, clock) \in Past(clock + 1)
      BY <1>0, NewPast
    <3>3. stream' \in Seq(Past(clock + 1))
      BY <1>0, <3>1, <3>2
    <3> QED
      BY <1>0, <1>12, <2>2, <3>3, ProgressTicks DEF Configure
  <2> QED
    BY <2>1, <2>2
<1>13. ASSUME NEW removed, Reset(removed) PROVE Progress'
  <2>1. stream' \in Seq(Past(clock))
    BY <1>0, <1>13, PickTyped DEF Reset
  <2>2. moved' \in BOOLEAN
    BY <1>0, <1>13 DEF Reset
  <2> QED
    BY <1>0, <1>13, <2>1, <2>2, ProgressEdits DEF Reset
<1>14. CASE Compact
  BY <1>14, CompactTyped
<1>15. CASE Fork
  BY <1>15, ForkTyped
<1>16. CASE ForkConfigOnly
  <2>1. Len(stream) \in 0 .. Len(stream)
    BY <1>0
  <2>2. base' \in Values
    BY <1>0, <1>16, <2>1, ConfigAtTyped DEF ForkConfigOnly
  <2>3. <<>> \in Seq(Past(clock))
    OBVIOUS
  <2> QED
    BY <1>0, <1>16, <2>2, <2>3, ProgressEdits DEF ForkConfigOnly
<1>17. CASE UNCHANGED vars
  BY <1>17 DEF vars, Progress
<1> QED
  BY <1>1, <1>2, <1>3, <1>4, <1>6, <1>7, <1>8, <1>9, <1>10, <1>11, <1>12, <1>13, <1>14, <1>15,
     <1>16, <1>17 DEF Next

\* Every event of the stream is one the program makes, with a stamp and an id
\* from the past, and no overlay's range is inverted: through every edit.
THEOREM TypeCorrect == Spec => []TypeOK
<1>1. Spec => []Progress
  <2>1. Progress /\ [Next]_vars => Progress'
    BY NextTyped
  <2> QED
    BY <2>1, InitProgress, PTL DEF Spec
<1>2. Progress => TypeOK
  BY TypeAsPast DEF Progress
<1> QED
  BY <1>1, <1>2, PTL

-----------------------------------------------------------------------------
(* Edits that write several events for one.                                *)

\* The q-th event of the i-th part.
At(at, i, q) == at[i - 1] + q

Parted(n, seqs, at, t) ==
  /\ \A i \in 1 .. n : \A q \in 1 .. Len(seqs[i]) :
       At(at, i, q) \in DOMAIN t /\ t[At(at, i, q)] = seqs[i][q]
  /\ \A i, j \in 1 .. n : i < j =>
       \A q \in 1 .. Len(seqs[i]), r \in 1 .. Len(seqs[j]) : At(at, i, q) < At(at, j, r)
  /\ \A i \in 1 .. n : \A q, r \in 1 .. Len(seqs[i]) :
       At(at, i, q) < At(at, i, r) <=> q < r
  /\ \A p \in DOMAIN t : \E i \in 1 .. n : \E q \in 1 .. Len(seqs[i]) : p = At(at, i, q)

LEMMA PartsAt ==
  ASSUME NEW n \in Nat, NEW seqs, NEW at, NEW E, NEW t \in Seq(E), LaidOut(at, seqs, n, t),
         \A i \in 1 .. n : Len(seqs[i]) \in Nat
  PROVE  Parted(n, seqs, at, t)
<1>1. ASSUME NEW i \in 1 .. n
      PROVE  /\ at[i] = at[i - 1] + Len(seqs[i]) /\ at[i] \in Nat /\ at[i - 1] \in Nat
             /\ at[i] <= Len(t) /\ Len(t) \in Nat
  <2>1. i \in 0 .. n /\ i - 1 \in 0 .. n /\ n \in 0 .. n /\ i <= n
    OBVIOUS
  <2>2. at[i] <= at[n] /\ at[i] \in Nat /\ at[i - 1] \in Nat /\ at[n] = Len(t)
    BY <2>1 DEF LaidOut
  <2>3. at[i] = at[i - 1] + Len(seqs[i])
    BY DEF LaidOut
  <2> QED
    BY <2>2, <2>3
<1>2. ASSUME NEW i \in 1 .. n, NEW q \in 1 .. Len(seqs[i])
      PROVE  At(at, i, q) \in DOMAIN t /\ t[At(at, i, q)] = seqs[i][q]
  <2> DEFINE a == at[i - 1]
             b == at[i]
             c == Len(seqs[i])
  <2>1. b = a + c /\ a \in Nat /\ b \in Nat /\ b <= Len(t) /\ c \in Nat /\ q \in 1 .. c /\ Len(t) \in Nat
    BY <1>1
  <2>2. t[a + q] = seqs[i][q]
    BY DEF LaidOut
  <2> HIDE DEF a, b, c
  <2>3. a + q \in 1 .. Len(t)
    BY <2>1
  <2> QED
    BY <2>2, <2>3 DEF At, a
<1>3. ASSUME NEW i \in 1 .. n, NEW j \in 1 .. n, i < j, NEW q \in 1 .. Len(seqs[i]), NEW r \in 1 .. Len(seqs[j])
      PROVE  At(at, i, q) < At(at, j, r)
  <2> DEFINE a == at[i - 1]
             b == at[i]
             c == Len(seqs[i])
             d == at[j - 1]
  <2>1. b = a + c /\ a \in Nat /\ b \in Nat /\ c \in Nat /\ q \in 1 .. c
    BY <1>1
  <2>2. i \in 0 .. n /\ j - 1 \in 0 .. n /\ i <= j - 1
    BY <1>3
  <2>3. b <= d /\ d \in Nat
    BY <1>1, <2>2 DEF LaidOut
  <2>4. r \in Nat /\ r >= 1
    BY <1>1
  <2> HIDE DEF a, b, c, d
  <2>5. a + q < d + r
    BY <2>1, <2>3, <2>4
  <2> QED
    BY <2>5 DEF At, a, d
<1>4. ASSUME NEW i \in 1 .. n, NEW q \in 1 .. Len(seqs[i]), NEW r \in 1 .. Len(seqs[i])
      PROVE  At(at, i, q) < At(at, i, r) <=> q < r
  <2> DEFINE a == at[i - 1]
  <2>1. a \in Nat /\ q \in Nat /\ r \in Nat
    BY <1>1
  <2> HIDE DEF a
  <2>2. a + q < a + r <=> q < r
    BY <2>1
  <2> QED
    BY <2>2 DEF At, a
<1>5. ASSUME NEW p \in DOMAIN t
      PROVE  \E i \in 1 .. n : \E q \in 1 .. Len(seqs[i]) : p = At(at, i, q)
  <2>1. p \in 1 .. Len(t)
    OBVIOUS
  <2>2. PICK i \in 1 .. n : p \in at[i - 1] + 1 .. at[i]
    BY <2>1 DEF LaidOut
  <2> DEFINE a == at[i - 1]
             b == at[i]
             c == Len(seqs[i])
  <2>3. b = a + c /\ a \in Nat /\ b \in Nat /\ p \in a + 1 .. b /\ c \in Nat
    BY <1>1, <2>2
  <2> HIDE DEF a, b, c
  <2>4. p - a \in 1 .. c /\ p = a + (p - a)
    BY <2>3
  <2>5. p = At(at, i, p - a) /\ p - a \in 1 .. Len(seqs[i])
    BY <2>4 DEF At, a, c
  <2> QED
    BY <2>5
<1> QED
  BY <1>2, <1>3, <1>4, <1>5 DEF Parted

LEMMA PartsPlaced ==
  ASSUME NEW n \in Nat, NEW seqs, NEW at, NEW t \in Stream, LaidOut(at, seqs, n, t),
         \A i \in 1 .. n : Len(seqs[i]) \in Nat
  PROVE  /\ \A i \in 1 .. n : \A q \in 1 .. Len(seqs[i]) :
              At(at, i, q) \in DOMAIN t /\ t[At(at, i, q)] = seqs[i][q]
         /\ \A i, j \in 1 .. n : i < j =>
              \A q \in 1 .. Len(seqs[i]), r \in 1 .. Len(seqs[j]) : At(at, i, q) < At(at, j, r)
         /\ \A i \in 1 .. n : \A q, r \in 1 .. Len(seqs[i]) :
              At(at, i, q) < At(at, i, r) <=> q < r
         /\ \A p \in DOMAIN t : \E i \in 1 .. n : \E q \in 1 .. Len(seqs[i]) : p = At(at, i, q)
<1>1. t \in Seq(Event)
  BY DEF Stream
<1>2. Parted(n, seqs, at, t)
  BY <1>1, PartsAt
<1> QED
  BY <1>2 DEF Parted

\* One event of some of the parts is an old one.
LEMMA PartsEmbed ==
  ASSUME NEW s \in Stream, NEW seqs, NEW at, NEW t \in Stream, LaidOut(at, seqs, Len(s), t),
         \A i \in DOMAIN s : Len(seqs[i]) \in Nat,
         NEW K, K \subseteq DOMAIN s, NEW pos,
         \A i \in K : pos[i] \in 1 .. Len(seqs[i]) /\ seqs[i][pos[i]] = s[i]
  PROVE  Embeds([i \in K |-> At(at, i, pos[i])], s, K, t)
<1> DEFINE m == [i \in K |-> At(at, i, pos[i])]
<1>1. DOMAIN s = 1 .. Len(s) /\ Len(s) \in Nat
  BY Positions DEF Stream
<1>2. \A i \in K : m[i] \in DOMAIN t /\ t[m[i]] = s[i]
  BY <1>1, PartsPlaced
<1>3. \A i, j \in K : i < j => m[i] < m[j]
  BY <1>1, PartsPlaced
<1> QED
  BY <1>2, <1>3 DEF Embeds

\* The answer given to an open call.
Open(s, i) == s[i].kind = "call" /\ s[i].id \notin Ids(s, "result")
AnswerTo(s, i) == Paired("result", s[i].id, s[i].n)

\* CallsAnswered keeps every event; what is new stands right behind its call.
Answers(m, s, t) ==
  /\ Embeds(m, s, DOMAIN s, t)
  /\ \A p \in Added(m, DOMAIN s, t) : \E i \in DOMAIN s : Open(s, i) /\ p = m[i] + 1
  /\ \A i \in DOMAIN s : Open(s, i) =>
       m[i] + 1 \in Added(m, DOMAIN s, t) /\ t[m[i] + 1] = AnswerTo(s, i)

LEMMA CallsAnsweredEmbeds ==
  ASSUME NEW s \in Stream
  PROVE  CallsAnswered(s) \in Stream /\ \E m : Answers(m, s, CallsAnswered(s))
<1> DEFINE part(i) == IF Open(s, i) THEN <<s[i], AnswerTo(s, i)>> ELSE <<s[i]>>
           parts == [i \in DOMAIN s |-> part(i)]
           t == CallsAnswered(s)
<1>1. DOMAIN s = 1 .. Len(s) /\ Len(s) \in Nat
  BY Positions DEF Stream
<1>2. ASSUME NEW i \in DOMAIN s
      PROVE  /\ part(i) \in Seq(Event)
             /\ Len(part(i)) = (IF Open(s, i) THEN 2 ELSE 1)
             /\ part(i)[1] = s[i] /\ (Open(s, i) => part(i)[2] = AnswerTo(s, i))
  <2>1. s[i] \in Event
    BY Positions DEF Stream
  <2>2. CASE Open(s, i)
    <3>1. s[i].id \in Nat /\ s[i].n \in Nat
      BY <2>1, <2>2, EventFacts DEF Open, Identified
    <3>2. AnswerTo(s, i) \in Event
      BY <3>1, NewEvents DEF AnswerTo, Identified
    <3> QED
      BY <2>1, <2>2, <3>2
  <2>3. CASE ~Open(s, i)
    BY <2>1, <2>3
  <2> QED
    BY <2>2, <2>3
<1>3. t = FlattenSeq(parts)
  BY DEF CallsAnswered, Open, AnswerTo
<1> HIDE DEF part, t
<1>4. parts \in Seq(Seq(Event)) /\ Len(parts) = Len(s)
  BY <1>1, <1>2
<1>5. ASSUME NEW i \in DOMAIN s
      PROVE  /\ Len(parts[i]) \in Nat /\ Len(parts[i]) = (IF Open(s, i) THEN 2 ELSE 1)
             /\ parts[i][1] = s[i] /\ (Open(s, i) => parts[i][2] = AnswerTo(s, i))
  BY <1>2
<1> HIDE DEF parts
<1>6. t \in Stream
  BY <1>3, <1>4, FlattenPlaces DEF Stream
<1>7. PICK at : LaidOut(at, parts, Len(s), t)
  BY <1>3, <1>4, FlattenPlaces
<1> DEFINE one == [i \in DOMAIN s |-> 1]
           m == [i \in DOMAIN s |-> At(at, i, one[i])]
<1>8. Embeds(m, s, DOMAIN s, t)
  <2>1. \A i \in DOMAIN s : one[i] \in 1 .. Len(parts[i]) /\ parts[i][one[i]] = s[i]
    BY <1>5
  <2> HIDE DEF one
  <2> QED
    BY <1>5, <1>6, <1>7, <2>1, PartsEmbed
<1>9. ASSUME NEW i \in DOMAIN s, NEW q \in 1 .. Len(parts[i]), q # 1
      PROVE  Open(s, i) /\ q = 2 /\ At(at, i, q) = m[i] + 1
  <2>1. Open(s, i) /\ q = 2
    BY <1>5, <1>9
  <2>2. at[i - 1] \in Nat
    BY <1>1, <1>7 DEF LaidOut
  <2> DEFINE a == at[i - 1]
  <2>3. m[i] = a + 1 /\ At(at, i, 2) = a + 2 /\ a \in Nat
    BY <2>2 DEF At
  <2> HIDE DEF a, m
  <2> QED
    BY <2>1, <2>3
<1>10. ASSUME NEW p \in Added(m, DOMAIN s, t) PROVE \E i \in DOMAIN s : Open(s, i) /\ p = m[i] + 1
  <2>1. p \in DOMAIN t /\ \A i \in DOMAIN s : m[i] # p
    BY DEF Added
  <2>2. PICK i \in DOMAIN s : \E q \in 1 .. Len(parts[i]) : p = At(at, i, q)
    BY <1>1, <1>5, <1>6, <1>7, <2>1, PartsPlaced
  <2>3. PICK q \in 1 .. Len(parts[i]) : p = At(at, i, q)
    BY <2>2
  <2>4. q # 1
    BY <2>1, <2>3
  <2> QED
    BY <1>9, <2>3, <2>4
<1>11. ASSUME NEW i \in DOMAIN s, Open(s, i)
       PROVE  m[i] + 1 \in Added(m, DOMAIN s, t) /\ t[m[i] + 1] = AnswerTo(s, i)
  <2>1. 1 \in 1 .. Len(parts[i]) /\ 2 \in 1 .. Len(parts[i]) /\ parts[i][2] = AnswerTo(s, i)
    BY <1>5, <1>11
  <2>2. At(at, i, 2) = m[i] + 1
    BY <1>9, <2>1
  <2>3. At(at, i, 2) \in DOMAIN t /\ t[At(at, i, 2)] = AnswerTo(s, i)
    BY <1>1, <1>5, <1>6, <1>7, <2>1, PartsPlaced
  <2>4. ASSUME NEW j \in DOMAIN s PROVE m[j] # At(at, i, 2)
    <3>1. 1 \in 1 .. Len(parts[j])
      BY <1>5
    <3>2. j < i => At(at, j, 1) < At(at, i, 2)
      BY <1>1, <1>5, <1>6, <1>7, <2>1, <3>1, PartsPlaced
    <3>3. i < j => At(at, i, 2) < At(at, j, 1)
      BY <1>1, <1>5, <1>6, <1>7, <2>1, <3>1, PartsPlaced
    <3>4. At(at, i, 1) < At(at, i, 2)
      BY <1>1, <1>5, <1>6, <1>7, <2>1, PartsPlaced
    <3>5. m[j] = At(at, j, 1) /\ At(at, j, 1) \in Nat /\ At(at, i, 2) \in Nat
      <4>1. At(at, j, 1) \in DOMAIN t
        BY <1>1, <1>5, <1>6, <1>7, <3>1, PartsPlaced
      <4> QED
        BY <1>6, <2>3, <4>1, Positions DEF Stream
    <3>6. j < i \/ i < j \/ i = j
      BY <1>1
    <3> HIDE DEF m
    <3> QED
      BY <3>2, <3>3, <3>4, <3>5, <3>6
  <2> QED
    BY <2>2, <2>3, <2>4 DEF Added
<1>12. Answers(m, s, t)
  BY <1>8, <1>10, <1>11 DEF Answers
<1> QED
  BY <1>6, <1>12 DEF t

\* A copy keeps every conversation event, each behind at most one delta of its own.
Copied(m, s, t) ==
  /\ Embeds(m, s, Conversation(s), t)
  /\ \A p \in Added(m, Conversation(s), t) :
       t[p].kind = "config" /\ \E i \in Conversation(s) : m[i] = p + 1 /\ t[p].n = s[i].n

LEMMA ExtendedEmbeds ==
  ASSUME NEW first \in Values, NEW s \in Stream
  PROVE  Extended(first, s) \in Stream /\ \E m : Copied(m, s, Extended(first, s))
<1> DEFINE K == Conversation(s)
           t == Extended(first, s)
           n == Len(s)
<1>1. DOMAIN s = 1 .. n /\ n \in Nat /\ K \subseteq 1 .. n /\ \A i \in 1 .. n : s[i] \in Event
  BY Positions DEF Stream
<1>2. ASSUME NEW i \in 1 .. n PROVE s[i].n \in Nat /\ \A v \in Values : Delta(v, s[i].n) \in Event
  BY <1>1, EventFacts, NewEvents
<1>3. PICK f : Extending(f, first, s, Event)
  BY <1>1, <1>2, ExtendedDefined
<1> DEFINE d(i) == DeltaOf(first, s, i, f[i - 1].tail)
           part(i) == IF i \in K THEN d(i) \o <<s[i]>> ELSE <<>>
           parts == [i \in 1 .. n |-> part(i)]
           g == [i \in 0 .. n |-> f[i].events]
           at == [i \in 0 .. n |-> Len(f[i].events)]
<1>4. /\ \A i \in 0 .. n : f[i].events \in Seq(Event) /\ f[i].tail \in Values
      /\ f[0].events = <<>>
      /\ \A i \in 1 .. n : f[i] = ExtendStep(first, s, i, f[i - 1])
      /\ t = f[n].events
  BY <1>3 DEF Extending
<1> HIDE DEF t
<1>5. ASSUME NEW i \in 1 .. n
      PROVE  /\ d(i) \in Seq(Event) /\ Len(d(i)) \in {0, 1}
             /\ Len(d(i)) = 1 => d(i)[1].kind = "config" /\ d(i)[1].n = s[i].n
  <2>1. CASE d(i) = <<>>
    BY <2>1
  <2>2. CASE d(i) = <<Delta(ConfigAt(first, s, i), s[i].n)>>
    <3>1. ConfigAt(first, s, i) \in Values
      BY <1>1, ConfigAtTyped
    <3> DEFINE e == Delta(ConfigAt(first, s, i), s[i].n)
    <3>2. e \in Event /\ e.kind = "config" /\ e.n = s[i].n
      BY <1>2, <3>1, NewEvents
    <3> HIDE DEF e
    <3>3. d(i) = <<e>>
      BY <2>2 DEF e
    <3> HIDE DEF d
    <3> QED
      BY <3>2, <3>3
  <2> QED
    BY <2>1, <2>2 DEF DeltaOf
<1> HIDE DEF d
<1>6. ASSUME NEW i \in 1 .. n
      PROVE  /\ part(i) \in Seq(Event)
             /\ i \in K => /\ Len(part(i)) = Len(d(i)) + 1 /\ part(i)[Len(part(i))] = s[i]
                           /\ \A q \in 1 .. Len(d(i)) : part(i)[q] = d(i)[q]
             /\ i \notin K => part(i) = <<>>
  <2>1. CASE i \in K
    <3> DEFINE u == d(i)
    <3>1. u \in Seq(Event) /\ s[i] \in Event
      BY <1>1, <1>5
    <3> HIDE DEF u
    <3>2. part(i) = u \o <<s[i]>>
      BY <2>1 DEF u
    <3> HIDE DEF part
    <3>3. part(i) \in Seq(Event) /\ Len(part(i)) = Len(u) + 1 /\ part(i)[Len(u) + 1] = s[i]
          /\ \A q \in 1 .. Len(u) : part(i)[q] = u[q]
      BY <3>1, <3>2
    <3> QED
      BY <2>1, <3>3 DEF u
  <2>2. CASE i \notin K
    BY <2>2
  <2> QED
    BY <2>1, <2>2
<1> HIDE DEF part
<1>7. ASSUME NEW i \in 1 .. n PROVE f[i].events = f[i - 1].events \o part(i)
  <2>0. i - 1 \in 0 .. n
    BY <1>1
  <2> DEFINE u == f[i - 1].events
             v == d(i)
  <2>1. u \in Seq(Event) /\ v \in Seq(Event) /\ s[i] \in Event
    BY <1>1, <1>4, <1>5, <2>0
  <2>2. f[i] = ExtendStep(first, s, i, f[i - 1])
    BY <1>4
  <2>3. CASE i \in K
    <3> DEFINE w == u \o v \o <<s[i]>>
    <3>4. f[i] = [events |-> w, tail |-> ConfigAt(first, s, i)]
      BY <2>2, <2>3 DEF ExtendStep, d
    <3> HIDE DEF w
    <3>5. f[i].events = w
      BY <3>4
    <3>1. f[i].events = u \o v \o <<s[i]>>
      BY <3>5 DEF w
    <3>2. part(i) = v \o <<s[i]>>
      BY <2>3 DEF part
    <3> HIDE DEF u, v
    <3>3. (u \o v) \o <<s[i]>> = u \o (v \o <<s[i]>>)
      BY <2>1
    <3> QED
      BY <3>1, <3>2, <3>3 DEF u
  <2>4. CASE i \notin K
    <3>1. f[i].events = u
      BY <2>2, <2>4 DEF ExtendStep
    <3>2. part(i) = <<>>
      BY <1>6, <2>4
    <3> HIDE DEF u
    <3>3. u = u \o <<>>
      BY <2>1
    <3> QED
      BY <3>1, <3>2, <3>3 DEF u
  <2> QED
    BY <2>3, <2>4
<1>8. Grows(g, at, parts, n)
  <2>1. \A i \in 0 .. n : at[i] \in Nat /\ Len(g[i]) = at[i]
    BY <1>4
  <2>2. at[0] = 0
    BY <1>1, <1>4
  <2>3. ASSUME NEW i \in 1 .. n
        PROVE  /\ Len(parts[i]) \in Nat /\ at[i] = at[i - 1] + Len(parts[i])
               /\ \A p \in 1 .. at[i - 1] : g[i][p] = g[i - 1][p]
               /\ \A q \in 1 .. Len(parts[i]) : g[i][at[i - 1] + q] = parts[i][q]
    <3>0. i - 1 \in 0 .. n /\ i \in 0 .. n
      BY <1>1
    <3> DEFINE u == f[i - 1].events
               v == part(i)
    <3>1. u \in Seq(Event) /\ v \in Seq(Event)
      BY <1>4, <1>6, <3>0
    <3>2. f[i].events = u \o v
      BY <1>7
    <3>3. at[i - 1] = Len(u) /\ at[i] = Len(f[i].events) /\ parts[i] = v /\ g[i] = f[i].events /\ g[i - 1] = u
      BY <3>0
    <3> HIDE DEF u, v, at, g, parts
    <3>4. \A w \in Seq(Event) : w = u \o v =>
             /\ Len(w) = Len(u) + Len(v) /\ Len(v) \in Nat
             /\ \A p \in 1 .. Len(u) : w[p] = u[p]
             /\ \A q \in 1 .. Len(v) : w[Len(u) + q] = v[q]
      BY <3>1
    <3>5. u \o v \in Seq(Event)
      BY <3>1
    <3> QED
      BY <3>2, <3>3, <3>4, <3>5
  <2> HIDE DEF at, g, parts
  <2> QED
    BY <2>1, <2>2, <2>3 DEF Grows
<1>9. LaidOut(at, parts, n, t)
  <2>1. g[n] = t
    BY <1>1, <1>4
  <2> HIDE DEF at, g, parts
  <2>2. LaidOut(at, parts, n, g[n])
    BY <1>1, <1>8, PartsLaidOut
  <2> QED
    BY <2>1, <2>2
<1>10. t \in Stream
  BY <1>1, <1>4 DEF Stream
<1> HIDE DEF at, g
<1>11. ASSUME NEW i \in 1 .. n
       PROVE  /\ Len(parts[i]) \in Nat
              /\ i \in K => /\ Len(parts[i]) = Len(d(i)) + 1 /\ parts[i][Len(parts[i])] = s[i]
                            /\ \A q \in 1 .. Len(d(i)) : parts[i][q] = d(i)[q]
              /\ i \notin K => parts[i] = <<>>
  BY <1>6
<1> HIDE DEF parts
<1> DEFINE pos == [i \in K |-> Len(parts[i])]
           m == [i \in K |-> At(at, i, pos[i])]
<1>12. ASSUME NEW i \in K PROVE pos[i] \in 1 .. Len(parts[i]) /\ parts[i][pos[i]] = s[i]
  BY <1>1, <1>5, <1>11
<1>13. Embeds(m, s, K, t)
  <2> HIDE DEF pos
  <2>1. \A i \in DOMAIN s : Len(parts[i]) \in Nat
    BY <1>1, <1>11
  <2>2. K \subseteq DOMAIN s
    BY <1>1
  <2>3. \A i \in K : pos[i] \in 1 .. Len(parts[i]) /\ parts[i][pos[i]] = s[i]
    BY <1>12
  <2> HIDE DEF K
  <2> QED
    BY <1>9, <1>10, <2>1, <2>2, <2>3, PartsEmbed
<1>14. ASSUME NEW p \in Added(m, K, t)
       PROVE  t[p].kind = "config" /\ \E i \in K : m[i] = p + 1 /\ t[p].n = s[i].n
  <2>1. p \in DOMAIN t /\ \A i \in K : m[i] # p
    BY DEF Added
  <2>2. PICK i \in 1 .. n : \E q \in 1 .. Len(parts[i]) : p = At(at, i, q)
    BY <1>1, <1>9, <1>10, <1>11, <2>1, PartsPlaced
  <2>3. PICK q \in 1 .. Len(parts[i]) : p = At(at, i, q)
    BY <2>2
  <2>4. i \in K
    BY <1>11, <2>3
  <2>5. q # Len(parts[i])
    BY <2>1, <2>3, <2>4
  <2>6. q = 1 /\ Len(d(i)) = 1 /\ Len(parts[i]) = 2
    <3>1. Len(parts[i]) = Len(d(i)) + 1
      BY <1>11, <2>4
    <3>2. Len(d(i)) \in {0, 1}
      BY <1>5
    <3>3. q \in 1 .. Len(parts[i])
      BY <2>3
    <3> DEFINE k == Len(parts[i])
               l == Len(d(i))
    <3>4. k = l + 1 /\ l \in {0, 1} /\ q \in 1 .. k /\ q # k
      BY <2>5, <3>1, <3>2, <3>3
    <3> HIDE DEF k, l
    <3>5. q = 1 /\ l = 1 /\ k = 2
      BY <3>4
    <3> QED
      BY <3>5 DEF k, l
  <2>7. t[p] = d(i)[1]
    BY <1>1, <1>9, <1>10, <1>11, <2>3, <2>4, <2>6, PartsPlaced
  <2> DEFINE a == at[i - 1]
  <2>8. a \in Nat
    BY <1>1, <1>9 DEF LaidOut
  <2>9. p = a + 1 /\ m[i] = a + 2
    BY <2>3, <2>4, <2>6 DEF At
  <2> HIDE DEF a, m
  <2>10. m[i] = p + 1
    BY <2>8, <2>9
  <2> QED
    BY <1>5, <2>4, <2>6, <2>7, <2>10
<1>15. Copied(m, s, t)
  <2> HIDE DEF m
  <2> QED
    BY <1>13, <1>14 DEF Copied
<1> QED
  BY <1>10, <1>15 DEF t

\* What is appended.
LEMMA ConcatEmbeds ==
  ASSUME NEW s \in Stream, NEW u \in Stream
  PROVE  LET m == [i \in DOMAIN s |-> i] IN
         /\ s \o u \in Stream /\ Len(s \o u) = Len(s) + Len(u)
         /\ Embeds(m, s, DOMAIN s, s \o u)
         /\ \A p \in Added(m, DOMAIN s, s \o u) :
              p - Len(s) \in DOMAIN u /\ p \in Len(s) + 1 .. Len(s) + Len(u) /\ (s \o u)[p] = u[p - Len(s)]
<1> DEFINE m == [i \in DOMAIN s |-> i]
           t == s \o u
<1>1. /\ t \in Stream /\ Len(t) = Len(s) + Len(u) /\ Len(s) \in Nat /\ Len(u) \in Nat
      /\ \A i \in 1 .. Len(s) : t[i] = s[i]
      /\ \A i \in Len(s) + 1 .. Len(s) + Len(u) : t[i] = u[i - Len(s)]
  BY Concatenated DEF Stream
<1> HIDE DEF t
<1>2. DOMAIN s = 1 .. Len(s) /\ DOMAIN t = 1 .. Len(s) + Len(u) /\ DOMAIN u = 1 .. Len(u)
  BY <1>1 DEF Stream
<1>3. Embeds(m, s, DOMAIN s, t)
  BY <1>1, <1>2 DEF Embeds
<1>4. ASSUME NEW p \in Added(m, DOMAIN s, t)
      PROVE  p - Len(s) \in DOMAIN u /\ p \in Len(s) + 1 .. Len(s) + Len(u) /\ t[p] = u[p - Len(s)]
  <2>1. p \in 1 .. Len(s) + Len(u) /\ p \notin 1 .. Len(s)
    BY <1>2 DEF Added
  <2>2. p \in Len(s) + 1 .. Len(s) + Len(u) /\ p - Len(s) \in 1 .. Len(u)
    BY <1>1, <2>1
  <2> QED
    BY <1>1, <1>2, <2>2
<1> QED
  BY <1>1, <1>3, <1>4 DEF t

-----------------------------------------------------------------------------
(* Summaries do not cut each other.                                        *)

Summaries(s) == {i \in Overlays(s) : "summary" \in s[i].policy}
Apart(o1, o2) ==
  \/ o1.to < o2.from \/ o2.to < o1.from
  \/ o2.from <= o1.from /\ o1.to <= o2.to
Nested(s) == \A i, j \in Summaries(s) : i < j => Apart(s[i], s[j])

LEMMA NestedIsSummariesNest == SummariesNest <=> Nested(stream)
BY DEF SummariesNest, Nested, Summaries, Apart

\* Edits that keep some events in order and add no overlay.
LEMMA NestedKept ==
  ASSUME NEW s \in Stream, NEW t \in Stream, NEW K, NEW m, Embeds(m, s, K, t),
         \A p \in Added(m, K, t) : t[p].kind # "overlay", Nested(s)
  PROVE  Nested(t)
<1>1. SUFFICES ASSUME NEW p \in Summaries(t), NEW q \in Summaries(t), p < q PROVE Apart(t[p], t[q])
  BY DEF Nested
<1>2. ASSUME NEW r \in Summaries(t) PROVE \E i \in K : m[i] = r /\ i \in Summaries(s) /\ t[r] = s[i]
  <2>1. r \in DOMAIN t /\ t[r].kind = "overlay" /\ "summary" \in t[r].policy
    BY DEF Summaries, Overlays, Where
  <2>2. PICK i \in K : m[i] = r
    BY <2>1 DEF Added
  <2>3. i \in DOMAIN s /\ s[i] = t[r]
    BY <2>2 DEF Embeds
  <2> QED
    BY <2>1, <2>2, <2>3 DEF Summaries, Overlays, Where
<1>3. PICK i \in K : m[i] = p /\ i \in Summaries(s) /\ t[p] = s[i]
  BY <1>2
<1>4. PICK j \in K : m[j] = q /\ j \in Summaries(s) /\ t[q] = s[j]
  BY <1>2
<1>5. i < j
  BY <1>1, <1>3, <1>4, EmbeddedOrder
<1> QED
  BY <1>3, <1>4, <1>5 DEF Nested

LEMMA NestedPick == ASSUME NEW s \in Stream, Nested(s), NEW S PROVE Nested(Pick(s, S)) /\ Pick(s, S) \in Stream
<1>1. Pick(s, S) \in Stream
  BY PickEmbeds
<1>2. PICK m : Embeds(m, s, S \cap DOMAIN s, Pick(s, S)) /\ Added(m, S \cap DOMAIN s, Pick(s, S)) = {}
  BY PickEmbeds
<1> QED
  BY <1>1, <1>2, NestedKept

LEMMA NestedConcat ==
  ASSUME NEW s \in Stream, NEW u \in Stream, Nested(s), \A i \in DOMAIN u : u[i].kind # "overlay"
  PROVE  Nested(s \o u) /\ s \o u \in Stream
<1> DEFINE m == [i \in DOMAIN s |-> i]
           t == s \o u
<1>1. t \in Stream /\ Embeds(m, s, DOMAIN s, t) /\ \A p \in Added(m, DOMAIN s, t) : t[p].kind # "overlay"
  BY ConcatEmbeds
<1> HIDE DEF m, t
<1>2. Nested(t)
  BY <1>1, NestedKept
<1> QED
  BY <1>1, <1>2 DEF t

LEMMA NestedSanitized == ASSUME NEW s \in Stream, Nested(s) PROVE Nested(Sanitized(s))
<1> DEFINE a == LeadingDropped(s)
           b == OrphansRemoved(a, "result", "call")
           c == CallsAnswered(b)
           d == OrphansRemoved(c, "answer", "question")
           e == OrphansRemoved(d, "question", "answer")
           f == TrailingTurnTrimmed(e)
           g == TurnStartsNormalized(f)
<1>1. Nested(a) /\ a \in Stream
  BY NestedPick DEF LeadingDropped
<1> HIDE DEF a
<1>2. Nested(b) /\ b \in Stream
  BY <1>1, NestedPick DEF OrphansRemoved
<1> HIDE DEF b
<1>3. Nested(c) /\ c \in Stream
  <2>1. c \in Stream
    BY <1>2, CallsAnsweredEmbeds
  <2>2. PICK m : Answers(m, b, c)
    BY <1>2, CallsAnsweredEmbeds
  <2> HIDE DEF c
  <2>3. ASSUME NEW p \in Added(m, DOMAIN b, c) PROVE c[p].kind # "overlay"
    <3>1. PICK i \in DOMAIN b : Open(b, i) /\ p = m[i] + 1
      BY <2>2 DEF Answers
    <3>2. c[p] = AnswerTo(b, i)
      BY <2>2, <3>1 DEF Answers
    <3> QED
      BY <3>2 DEF AnswerTo, Paired
  <2>4. Embeds(m, b, DOMAIN b, c)
    BY <2>2 DEF Answers
  <2> QED
    BY <1>2, <2>1, <2>3, <2>4, NestedKept
<1> HIDE DEF c
<1>4. Nested(d) /\ d \in Stream
  BY <1>3, NestedPick DEF OrphansRemoved
<1> HIDE DEF d
<1>5. Nested(e) /\ e \in Stream
  BY <1>4, NestedPick DEF OrphansRemoved
<1> HIDE DEF e
<1>6. Nested(f) /\ f \in Stream
  BY <1>5, NestedPick DEF TrailingTurnTrimmed
<1> HIDE DEF f
<1>7. Nested(g)
  <2> DEFINE ask == FirstOf(Where(f, {"ask"}))
             leading == {i \in Where(f, {"turn"}) : i < ask}
             place == IF ask = 0 THEN 1 ELSE ask
             stamp == IF IsGlobal(f[place]) THEN 0 ELSE f[place].n
             turn == Turn(stamp)
  <2>1. CASE g = f
    BY <1>6, <2>1
  <2>2. CASE g = Pick(f, DOMAIN f \ (leading \ {LastOf(leading)}))
    BY <1>6, <2>2, NestedPick
  <2>3. CASE Conversation(f) # Where(f, {"turn"}) /\ g = InsertAt(f, place, turn)
    <3>1. place \in DOMAIN f
      BY <1>6, <2>3, InsertionPlace
    <3>2. f[place] \in Event
      BY <1>6, <3>1, Positions DEF Stream
    <3>3. stamp \in Nat
      BY <3>2, EventFacts
    <3>4. turn \in Event /\ turn.kind = "turn"
      BY <3>3, NewEvents
    <3>5. place \in Nat /\ place >= 1 /\ place <= Len(f) + 1
      BY <1>6, <3>1, Positions DEF Stream
    <3> HIDE DEF place, turn, g
    <3> DEFINE m == [i \in DOMAIN f |-> IF i < place THEN i ELSE i + 1]
    <3>6. g \in Stream /\ Embeds(m, f, DOMAIN f, g) /\ Added(m, DOMAIN f, g) = {place} /\ g[place] = turn
      BY <1>6, <2>3, <3>4, <3>5, InsertEmbeds
    <3> HIDE DEF m
    <3> QED
      BY <1>6, <3>4, <3>6, NestedKept
  <2>4. \/ g = f
        \/ g = Pick(f, DOMAIN f \ (leading \ {LastOf(leading)}))
        \/ Conversation(f) # Where(f, {"turn"}) /\ g = InsertAt(f, place, turn)
    BY DEF TurnStartsNormalized
  <2> HIDE DEF g
  <2> QED
    BY <2>1, <2>2, <2>3, <2>4
<1> QED
  BY <1>7 DEF Sanitized, a, b, c, d, e, f, g

\* A range is grown until it touches nothing that reaches out of it.
LEMMA Touching ==
  ASSUME NEW s \in Stream, WellRanged(s), NEW r \in TurnRange
  PROVE  /\ Touched(s, r) \subseteq Touched(s, Grown(s, r))
         /\ Touched(s, Grown(s, r)) = Touched(s, r) => Grown(s, Grown(s, r)) = Grown(s, r)
         /\ IsFiniteSet(Touched(s, r)) /\ Cardinality(Touched(s, r)) \in Nat
         /\ Cardinality(Touched(s, r)) <= Cardinality(Overlays(s))
<1> DEFINE g == Grown(s, r)
           h == Grown(s, g)
<1>1. /\ g \in TurnRange /\ g.from <= r.from /\ r.to <= g.to
      /\ \A i \in Touched(s, r) : g.from <= s[i].from /\ s[i].to <= g.to
  BY GrownRange
<1> HIDE DEF g
<1>2. /\ h \in TurnRange /\ h.from <= g.from /\ g.to <= h.to
      /\ h.from = g.from \/ \E i \in Touched(s, g) : h.from = s[i].from
      /\ h.to = g.to \/ \E i \in Touched(s, g) : h.to = s[i].to
  BY <1>1, GrownRange
<1> HIDE DEF h
<1>3. r.from \in Nat /\ r.to \in Nat /\ g.from \in Nat /\ g.to \in Nat /\ h.from \in Nat /\ h.to \in Nat
  BY <1>1, <1>2 DEF TurnRange
<1>4. ASSUME NEW i \in Touched(s, r) PROVE i \in Touched(s, g)
  <2>1. i \in Overlays(s) /\ "summary" \in s[i].policy /\ r.from <= s[i].to /\ s[i].from <= r.to
    BY DEF Touched
  <2>2. s[i].from \in Nat /\ s[i].to \in Nat
    BY <2>1, OverlayFacts
  <2>3. g.from <= s[i].to /\ s[i].from <= g.to
    BY <1>1, <1>3, <2>1, <2>2
  <2> QED
    BY <2>1, <2>3 DEF Touched
<1>5. ASSUME Touched(s, g) = Touched(s, r) PROVE h = g
  <2>1. h.from = g.from
    <3>1. CASE \E i \in Touched(s, g) : h.from = s[i].from
      <4>1. PICK i \in Touched(s, r) : h.from = s[i].from
        BY <1>5, <3>1
      <4>2. g.from <= h.from
        BY <1>1, <4>1
      <4> QED
        BY <1>2, <1>3, <4>2
    <3> QED
      BY <1>2, <3>1
  <2>2. h.to = g.to
    <3>1. CASE \E i \in Touched(s, g) : h.to = s[i].to
      <4>1. PICK i \in Touched(s, r) : h.to = s[i].to
        BY <1>5, <3>1
      <4>2. h.to <= g.to
        BY <1>1, <4>1
      <4> QED
        BY <1>2, <1>3, <4>2
    <3> QED
      BY <1>2, <3>1
  <2> QED
    BY <1>1, <1>2, <2>1, <2>2 DEF TurnRange
<1>6. /\ IsFiniteSet(Touched(s, r)) /\ Cardinality(Touched(s, r)) \in Nat
      /\ Cardinality(Touched(s, r)) <= Cardinality(Overlays(s))
  <2>1. Touched(s, r) \subseteq Overlays(s)
    BY DEF Touched
  <2>2. IsFiniteSet(Touched(s, r)) /\ Cardinality(Touched(s, r)) <= Cardinality(Overlays(s))
    BY <2>1, OverlaysFinite, FS_Subset
  <2> QED
    BY <2>2, FS_CardinalityType
<1> QED
  BY <1>4, <1>5, <1>6 DEF g, h

LEMMA SummaryRangeFixed ==
  ASSUME NEW s \in Stream, WellRanged(s), NEW range \in TurnRange
  PROVE  LET r == SummaryRange(s, range) IN
         r \in TurnRange /\ \A i \in Touched(s, r) : r.from <= s[i].from /\ s[i].to <= r.to
<1> DEFINE n == Cardinality(Overlays(s))
           r == SummaryRange(s, range)
<1>1. PICK f : Growing(f, s, range)
  BY GrowthDefined
<1>2. /\ n \in Nat /\ \A k \in 0 .. n : f[k] \in TurnRange
      /\ \A k \in 1 .. n : f[k] = Grown(s, f[k - 1])
      /\ r = f[n]
  BY <1>1, OverlaysFinite DEF Growing
<1> HIDE DEF n, r
<1> DEFINE Fixed(x) == Grown(s, x) = x
           T == {k \in 0 .. n : Fixed(f[k]) \/ Cardinality(Touched(s, f[k])) >= k + 1}
<1>3. 0 \in T
  <2> DEFINE x == f[0]
  <2>0. 0 \in 0 .. n /\ x \in TurnRange
    BY <1>2
  <2> HIDE DEF x
  <2>1. CASE Touched(s, x) = {}
    <3>1. Grown(s, x) \in TurnRange /\ Grown(s, x).from = x.from /\ Grown(s, x).to = x.to
      BY <2>0, <2>1, GrownRange
    <3>2. Fixed(x)
      BY <2>0, <3>1 DEF TurnRange
    <3> QED
      BY <2>0, <3>2 DEF x
  <2>2. CASE Touched(s, x) # {}
    <3>1. IsFiniteSet(Touched(s, x)) /\ Cardinality(Touched(s, x)) \in Nat
      BY <2>0, Touching
    <3>2. Cardinality(Touched(s, x)) # 0
      BY <2>2, <3>1, FS_EmptySet
    <3>3. Cardinality(Touched(s, x)) >= 0 + 1
      BY <3>1, <3>2
    <3> QED
      BY <2>0, <3>3 DEF x
  <2> QED
    BY <2>1, <2>2
<1>4. ASSUME NEW k \in 0 .. n - 1, k \in T PROVE k + 1 \in T
  <2> DEFINE x == f[k]
             y == f[k + 1]
  <2>1. k \in Nat /\ k + 1 \in 1 .. n /\ k + 1 \in 0 .. n /\ (k + 1) - 1 = k /\ k \in 0 .. n
    BY <1>2
  <2>2. x \in TurnRange /\ y \in TurnRange /\ y = Grown(s, x)
    BY <1>2, <2>1
  <2>3. Fixed(x) \/ Cardinality(Touched(s, x)) >= k + 1
    BY <1>4
  <2>4. Fixed(y) \/ Cardinality(Touched(s, y)) >= (k + 1) + 1 => k + 1 \in T
    BY <2>1
  <2> HIDE DEF x, y, T
  <2>5. CASE Fixed(x)
    BY <2>2, <2>4, <2>5
  <2>6. CASE Cardinality(Touched(s, x)) >= k + 1 /\ Touched(s, y) = Touched(s, x)
    <3>1. Fixed(y)
      BY <2>2, <2>6, Touching
    <3> QED
      BY <2>4, <3>1
  <2>7. CASE Cardinality(Touched(s, x)) >= k + 1 /\ Touched(s, y) # Touched(s, x)
    <3>1. /\ Touched(s, x) \subseteq Touched(s, y) /\ IsFiniteSet(Touched(s, y))
          /\ Cardinality(Touched(s, x)) \in Nat /\ Cardinality(Touched(s, y)) \in Nat
      BY <2>2, Touching
    <3>2. /\ Cardinality(Touched(s, x)) <= Cardinality(Touched(s, y))
          /\ Cardinality(Touched(s, x)) # Cardinality(Touched(s, y))
      BY <2>7, <3>1, FS_Subset
    <3>3. Cardinality(Touched(s, y)) >= (k + 1) + 1
      BY <2>1, <2>7, <3>1, <3>2
    <3> QED
      BY <2>4, <3>3
  <2> QED
    BY <2>3, <2>5, <2>6, <2>7
<1> HIDE DEF T
<1>5. n \in T
  BY <1>2, <1>3, <1>4, InductionUpTo
<1>6. r \in TurnRange
  BY <1>2
<1>7. Fixed(r)
  <2>1. Fixed(r) \/ Cardinality(Touched(s, r)) >= n + 1
    BY <1>2, <1>5 DEF T
  <2>2. Cardinality(Touched(s, r)) \in Nat /\ Cardinality(Touched(s, r)) <= n
    BY <1>6, Touching DEF n
  <2>3. ~(Cardinality(Touched(s, r)) >= n + 1)
    BY <1>2, <2>2
  <2> QED
    BY <2>1, <2>3
<1>8. \A i \in Touched(s, r) : r.from <= s[i].from /\ s[i].to <= r.to
  BY <1>6, <1>7, GrownRange
<1> QED
  BY <1>6, <1>8 DEF r

LEMMA CompactStepNests ==
  ASSUME NEW s \in Stream, NEW n \in Nat, NEW before \in Stream, WellRanged(before), Nested(before),
         NEW rule \in Rule
  PROVE  Nested(CompactStep(s, n, before, rule))
<1> DEFINE e == NewOverlayOf(s, n, before, rule)
           range == NewRange(before, rule)
           t == CompactStep(s, n, before, rule)
<1>1. /\ range \in TurnRange /\ e \in Event /\ e.kind = "overlay"
      /\ e.from = range.from /\ e.to = range.to /\ e.policy = rule.policy /\ t \in Stream
  BY CompactStepTyped
<1>2. t = Append(before, e)
  BY DEF CompactStep
<1>3. /\ Len(t) = Len(before) + 1 /\ Len(before) \in Nat
      /\ \A i \in 1 .. Len(before) : t[i] = before[i]
      /\ t[Len(before) + 1] = e
  BY <1>1, <1>2 DEF Stream
<1>4. ASSUME "summary" \in rule.policy, NEW i \in Summaries(before)
      PROVE  Apart(before[i], e)
  <2>1. range = SummaryRange(before, rule.range) /\ rule.range \in TurnRange
    BY <1>4 DEF NewRange, Rule
  <2>2. i \in Touched(before, range) => range.from <= before[i].from /\ before[i].to <= range.to
    BY <2>1, SummaryRangeFixed
  <2>3. i \in Overlays(before) /\ "summary" \in before[i].policy
    BY DEF Summaries
  <2>4. before[i].from \in Nat /\ before[i].to \in Nat /\ range.from \in Nat /\ range.to \in Nat
    BY <1>1, <2>3, OverlayFacts DEF TurnRange
  <2>5. i \notin Touched(before, range) => ~(range.from <= before[i].to /\ before[i].from <= range.to)
    BY <2>3 DEF Touched
  <2> HIDE DEF e, range
  <2> QED
    BY <1>1, <2>2, <2>4, <2>5 DEF Apart
<1> HIDE DEF e, range, t
<1>5. ASSUME NEW i \in Summaries(t) PROVE i \in 1 .. Len(before) + 1 /\ t[i].kind = "overlay" /\ "summary" \in t[i].policy
  BY <1>1, <1>3, Positions DEF Summaries, Overlays, Where, Stream
<1>6. ASSUME NEW i \in Summaries(t), i # Len(before) + 1 PROVE i \in Summaries(before) /\ t[i] = before[i] /\ i \in 1 .. Len(before)
  <2>1. i \in 1 .. Len(before)
    BY <1>3, <1>5, <1>6
  <2>2. i \in DOMAIN before /\ before[i] = t[i]
    BY <1>3, <2>1 DEF Stream
  <2> QED
    BY <1>5, <2>1, <2>2 DEF Summaries, Overlays, Where
<1>7. SUFFICES ASSUME NEW i \in Summaries(t), NEW j \in Summaries(t), i < j PROVE Apart(t[i], t[j])
  BY DEF Nested, t
<1>8. i # Len(before) + 1
  BY <1>3, <1>5, <1>7
<1>9. CASE j = Len(before) + 1
  <2>1. "summary" \in rule.policy /\ t[j] = e
    BY <1>1, <1>3, <1>5, <1>9
  <2> QED
    BY <1>4, <1>6, <1>8, <2>1
<1>10. CASE j # Len(before) + 1
  BY <1>6, <1>7, <1>8, <1>10 DEF Nested
<1> QED
  BY <1>9, <1>10

LEMMA CompactNests ==
  ASSUME NEW s \in Stream, WellRanged(s), Nested(s), NEW n \in Nat, NEW rules \in Seq(Rule)
  PROVE  Nested(Compacted(s, rules, n))
<1>1. PICK f : Compacting(f, s, rules, n)
  BY CompactionDefined
<1> DEFINE T == {k \in 0 .. Len(rules) : Nested(f[k])}
<1>2. Len(rules) \in Nat
  OBVIOUS
<1>3. 0 \in T
  BY <1>1, <1>2 DEF Compacting
<1>4. ASSUME NEW k \in 0 .. Len(rules) - 1, k \in T PROVE k + 1 \in T
  <2>1. k + 1 \in 1 .. Len(rules) /\ k + 1 \in 0 .. Len(rules) /\ (k + 1) - 1 = k /\ k \in 0 .. Len(rules)
    BY <1>2
  <2>2. f[k + 1] = CompactStep(s, n, f[k], rules[k + 1])
    BY <1>1, <2>1 DEF Compacting
  <2> DEFINE before == f[k]
             rule == rules[k + 1]
  <2>3. before \in Stream /\ WellRanged(before) /\ Nested(before) /\ rule \in Rule
    BY <1>1, <1>4, <2>1 DEF Compacting
  <2> HIDE DEF before, rule
  <2>4. Nested(CompactStep(s, n, before, rule))
    BY <2>3, CompactStepNests
  <2> QED
    BY <2>1, <2>2, <2>4 DEF before, rule
<1> HIDE DEF T
<1>5. Len(rules) \in T
  BY <1>2, <1>3, <1>4, InductionUpTo
<1> QED
  BY <1>1, <1>5 DEF T, Compacting

LEMMA NestedTrimmed ==
  ASSUME NEW s \in Stream, Nested(s), NEW trim \in {"none", "replay_turn", "pop_request"}
  PROVE  Nested(Trimmed(s, trim)) /\ Trimmed(s, trim) \in Stream
<1>1. ASSUME NEW t \in Stream, Nested(t)
      PROVE  Nested(TrailingTurnTrimmed(t)) /\ TrailingTurnTrimmed(t) \in Stream
  BY <1>1, NestedPick DEF TrailingTurnTrimmed
<1>2. Nested(ChatRequestTrimmed(s)) /\ ChatRequestTrimmed(s) \in Stream
  BY NestedPick DEF ChatRequestTrimmed
<1>3. Nested(RequestPopped(s)) /\ RequestPopped(s) \in Stream
  BY NestedPick DEF RequestPopped
<1>4. CASE trim = "none"
  <2>1. Trimmed(s, trim) = s
    BY <1>4 DEF Trimmed
  <2> QED
    BY <2>1
<1>5. CASE trim = "replay_turn"
  <2>1. Trimmed(s, trim) = TrailingTurnTrimmed(ChatRequestTrimmed(s))
    BY <1>5 DEF Trimmed
  <2> QED
    BY <1>1, <1>2, <2>1
<1>6. CASE trim = "pop_request"
  <2>1. Trimmed(s, trim) = TrailingTurnTrimmed(RequestPopped(s))
    BY <1>6 DEF Trimmed
  <2> QED
    BY <1>1, <1>3, <2>1
<1> QED
  BY <1>4, <1>5, <1>6

LEMMA NestedPush ==
  ASSUME stream \in Stream, Nested(stream), NEW e \in Event, e.kind # "overlay", NEW then, Push(e, then)
  PROVE  Nested(stream')
<1>1. stream' = stream \o <<e>>
  BY DEF Push, Stream
<1>2. <<e>> \in Stream /\ \A i \in DOMAIN <<e>> : <<e>>[i].kind # "overlay"
  BY DEF Stream
<1> QED
  BY <1>1, <1>2, NestedConcat

LEMMA NextNests == ASSUME Progress, Progress', Nested(stream), [Next]_vars PROVE Nested(stream')
<1>0. /\ clock \in Nat /\ clock >= 1 /\ Closed(Past(clock)) /\ stream \in Seq(Past(clock))
      /\ stream \in Stream /\ WellRanged(stream) /\ base \in Values
  BY ClockFacts, PastStream DEF Progress
<1>20. \A trim : /\ Nested(Sanitized(stream)) /\ Sanitized(stream) \in Stream
  BY <1>0, NestedSanitized, SanitizedTyped, PastStream
<1>1. ASSUME NEW trim \in {"none", "replay_turn", "pop_request"}, Query(trim) PROVE Nested(stream')
  <2> DEFINE t == Trimmed(Sanitized(stream), trim)
             u == <<Turn(clock), Ask(clock)>>
  <2>1. Nested(t) /\ t \in Stream
    BY <1>20, NestedTrimmed
  <2>2. stream' = t \o u
    BY <1>1 DEF Query, StartTurn
  <2>3. Turn(clock) \in Event /\ Turn(clock).kind = "turn" /\ Ask(clock) \in Event /\ Ask(clock).kind = "ask"
    BY <1>0, NewEvents
  <2>4. u \in Stream /\ \A i \in DOMAIN u : u[i].kind # "overlay"
    BY <2>3 DEF Stream
  <2> HIDE DEF t, u
  <2> QED
    BY <2>1, <2>2, <2>4, NestedConcat
<1>2. CASE Content
  <2>1. PICK part \in Parts : Push(Told(part, clock), "stream")
    BY <1>2 DEF Content
  <2>2. Told(part, clock) \in Event /\ Told(part, clock).kind # "overlay"
    BY <1>0, NewEvents, ConstantsAssumption
  <2> QED
    BY <1>0, <2>1, <2>2, NestedPush
<1>3. CASE CallTool
  <2>1. Paired("call", clock, clock) \in Event /\ Paired("call", clock, clock).kind = "call"
    BY <1>0, NewEvents DEF Identified
  <2> QED
    BY <1>0, <1>3, <2>1, NestedPush DEF CallTool
<1>4. CASE Reply
  <2>1. Ask(clock) \in Event /\ Ask(clock).kind = "ask"
    BY <1>0, NewEvents
  <2> QED
    BY <1>0, <1>4, <2>1, NestedPush DEF Reply
<1>5. ASSUME NEW id, id \in Unanswered, NEW kind \in Identified, Push(Paired(kind, id, clock), "tools")
      PROVE  Nested(stream')
  <2>1. CurrentTurn(stream) \in Seq(Past(clock))
    BY <1>0, CurrentTyped DEF Closed
  <2>2. id \in Ids(CurrentTurn(stream), "call")
    BY <1>5 DEF Unanswered
  <2>3. id \in Nat /\ id < clock
    BY <1>0, <2>1, <2>2, IdsPast DEF Identified
  <2>4. Paired(kind, id, clock) \in Event /\ Paired(kind, id, clock).kind = kind
    BY <1>0, <2>3, NewEvents
  <2> QED
    BY <1>0, <1>5, <2>4, NestedPush DEF Identified
<1>6. CASE Question
  BY <1>5, <1>6 DEF Question, Identified
<1>7. CASE Answer
  BY <1>5, <1>7 DEF Answer, Identified
<1>8. CASE ToolResults
  <2> DEFINE calls == Pick(CurrentTurn(stream), {i \in Where(CurrentTurn(stream), {"call"}) : CurrentTurn(stream)[i].id \in Unanswered})
             u == [k \in DOMAIN calls |-> Paired("result", calls[k].id, clock)]
  <2>1. stream' = stream \o u
    BY <1>8 DEF ToolResults
  <2>2. CurrentTurn(stream) \in Stream
    BY <1>0, CurrentTyped DEF Stream
  <2>3. calls \in Stream
    BY <2>2, PickTyped DEF Stream
  <2>4. DOMAIN calls = 1 .. Len(calls) /\ Len(calls) \in Nat
    BY <2>3 DEF Stream
  <2> HIDE DEF calls
  <2>5. stream' \in Stream
    <3>1. clock' \in Nat
      BY <1>0, <1>8 DEF ToolResults
    <3>2. stream' \in Seq(Past(clock'))
      BY DEF Progress
    <3> QED
      BY <3>1, <3>2, PastGrows, SeqWithin DEF Stream
  <2>6. \A k \in DOMAIN u : u[k].kind # "overlay"
    BY DEF Paired
  <2>7. u \in Stream
    <3>1. ASSUME NEW k \in DOMAIN calls PROVE u[k] \in Event
      <4>1. u \in Seq({u[l] : l \in DOMAIN calls})
        BY <2>4
      <4>2. Len(stream) \in Nat /\ Len(u) = Len(calls)
        BY <1>0, <2>4 DEF Stream
      <4>3. Len(stream) + k \in DOMAIN stream' /\ stream'[Len(stream) + k] = u[k]
        <5> HIDE DEF u
        <5> DEFINE E == Event \cup {u[j] : j \in DOMAIN calls}
        <5>1. stream \in Seq(E) /\ u \in Seq(E)
          BY <1>0, <4>1, SeqWithin DEF Stream
        <5> HIDE DEF E
        <5>2. /\ stream' \in Seq(E) /\ Len(stream') = Len(stream) + Len(u)
              /\ \A i \in Len(stream) + 1 .. Len(stream) + Len(u) : stream'[i] = u[i - Len(stream)]
          BY <2>1, <5>1, Concatenated
        <5>3. Len(stream) + k \in Len(stream) + 1 .. Len(stream) + Len(u) /\ (Len(stream) + k) - Len(stream) = k
          BY <2>4, <4>2
        <5> QED
          BY <4>2, <5>2, <5>3
      <4> QED
        BY <2>5, <4>3, Positions DEF Stream
    <3> QED
      BY <2>4, <3>1 DEF Stream
  <2> HIDE DEF u
  <2> QED
    BY <1>0, <2>1, <2>6, <2>7, NestedConcat
<1>9. CASE Refused
  BY <1>0, <1>9, NestedPick DEF Refused, ResponsesPopped
<1>10. CASE Cycle
  BY <1>10, <1>20 DEF Cycle
<1>11. CASE UNCHANGED stream
  BY <1>11
<1>12. ASSUME NEW value \in Values, Configure(value) PROVE Nested(stream')
  <2>1. CASE stream' # stream
    <3>1. stream' = Append(stream, Delta(value, clock))
      BY <1>12, <2>1 DEF Configure, WithDelta
    <3> DEFINE e == Delta(value, clock)
    <3>2. e \in Event /\ e.kind = "config"
      BY <1>0, NewEvents
    <3> HIDE DEF e
    <3>3. stream' = stream \o <<e>>
      BY <1>0, <3>1 DEF e, Stream
    <3>4. <<e>> \in Stream /\ \A i \in DOMAIN <<e>> : <<e>>[i].kind # "overlay"
      BY <3>2 DEF Stream
    <3> QED
      BY <1>0, <3>3, <3>4, NestedConcat
  <2> QED
    BY <2>1
<1>13. ASSUME NEW removed, Reset(removed) PROVE Nested(stream')
  BY <1>0, <1>13, NestedPick DEF Reset
<1>14. CASE Compact
  BY <1>0, <1>14, RulesTyped, CompactNests DEF Compact
<1>15. CASE Fork
  <2>1. PICK filtered \in Filtered : stream' = Extended(base, Sanitized(filtered))
    BY <1>15 DEF Fork, Copies
  <2> DEFINE copy == Sanitized(filtered)
             t == Extended(base, copy)
  <2>2. copy \in Stream
    BY <1>0, FilteredTyped, SanitizedTyped, PastStream
  <2> HIDE DEF copy
  <2>3. t \in Stream
    BY <1>0, <2>2, ExtendedEmbeds
  <2>4. PICK m : Copied(m, copy, t)
    BY <1>0, <2>2, ExtendedEmbeds
  <2> HIDE DEF t
  <2>5. ASSUME NEW p \in Summaries(t) PROVE FALSE
    <3>1. p \in DOMAIN t /\ t[p].kind = "overlay"
      BY DEF Summaries, Overlays, Where
    <3>2. p \notin Added(m, Conversation(copy), t)
      BY <2>4, <3>1 DEF Copied
    <3>3. PICK i \in Conversation(copy) : m[i] = p
      BY <3>1, <3>2 DEF Added
    <3>4. t[p] = copy[i]
      BY <2>4, <3>3 DEF Copied, Embeds
    <3> QED
      BY <3>1, <3>4 DEF Conversation, IsGlobal
  <2> QED
    BY <2>1, <2>5 DEF Nested, t, copy
<1>16. CASE ForkConfigOnly
  BY <1>16 DEF ForkConfigOnly, Nested, Summaries, Overlays, Where
<1> QED
  BY <1>1, <1>2, <1>3, <1>4, <1>6, <1>7, <1>8, <1>9, <1>10, <1>11, <1>12, <1>13, <1>14, <1>15,
     <1>16 DEF Next, End, vars

\* No summary cuts an earlier one: the growth of a range ends where it touches
\* no summary that reaches out of it, after at most as many rounds as there are
\* overlays, and no other edit turns two overlays around.
THEOREM LaterSummariesCover == Spec => []SummariesNest
<1>1. Init => Nested(stream)
  BY DEF Init, Nested, Summaries, Overlays, Where
<1>2. Progress /\ Nested(stream) /\ [Next]_vars => (Progress /\ Nested(stream))'
  BY NextTyped, NextNests
<1>3. Spec => [](Progress /\ Nested(stream))
  BY <1>1, <1>2, InitProgress, PTL DEF Spec
<1> QED
  BY <1>3, NestedIsSummariesNest, PTL

-----------------------------------------------------------------------------
(* A fork keeps the configuration of each event.                           *)

LEMMA Appended ==
  ASSUME NEW E, NEW s \in Seq(E), NEW e \in E
  PROVE  /\ Append(s, e) \in Seq(E) /\ Len(Append(s, e)) = Len(s) + 1 /\ Len(s) \in Nat
         /\ DOMAIN Append(s, e) = 1 .. Len(s) + 1 /\ DOMAIN s = 1 .. Len(s)
         /\ \A i \in 1 .. Len(s) : Append(s, e)[i] = s[i]
         /\ Append(s, e)[Len(s) + 1] = e
OBVIOUS

\* The configuration depends on what comes before.
LEMMA ConfigOfPrefix ==
  ASSUME NEW first, NEW s, NEW t, NEW k \in Nat, \A i \in 1 .. k : s[i] = t[i]
  PROVE  ConfigAt(first, s, k) = ConfigAt(first, t, k)
<1> DEFINE A == {j \in 1 .. k : s[j].kind = "config"}
           B == {j \in 1 .. k : t[j].kind = "config"}
<1>1. A = B
  OBVIOUS
<1>2. CASE A = {}
  BY <1>1, <1>2 DEF ConfigAt
<1>3. CASE A # {}
  <2>1. A \subseteq Nat /\ \A j \in A : j <= k
    OBVIOUS
  <2>2. Max(A) \in A
    <3> HIDE DEF A
    <3> QED
      BY <1>3, <2>1, GreatestNat
  <2>3. s[Max(A)] = t[Max(A)]
    BY <2>2
  <2> QED
    BY <1>1, <1>3, <2>3 DEF ConfigAt
<1> QED
  BY <1>2, <1>3

LEMMA ConfigOfAppend ==
  ASSUME NEW first, NEW s \in Stream, NEW e \in Event
  PROVE  ConfigAt(first, Append(s, e), Len(s) + 1) =
           IF e.kind = "config" THEN e.value ELSE ConfigAt(first, s, Len(s))
<1> DEFINE t == Append(s, e)
           l == Len(s)
           A == {j \in 1 .. l + 1 : t[j].kind = "config"}
           B == {j \in 1 .. l : s[j].kind = "config"}
<1>1. l \in Nat /\ t[l + 1] = e /\ \A i \in 1 .. l : t[i] = s[i]
  BY Appended DEF Stream
<1> HIDE DEF t, l
<1>2. CASE e.kind = "config"
  <2>1. l + 1 \in A
    BY <1>1, <1>2
  <2>2. A \subseteq Nat /\ A # {} /\ \A j \in A : j <= l + 1
    BY <1>1, <2>1
  <2> HIDE DEF A
  <2> DEFINE b == l + 1
             c == Max(A)
  <2>5. b \in Nat /\ \A j \in A : j <= b
    BY <1>1, <2>2
  <2> HIDE DEF b
  <2>3. c \in A /\ \A j \in A : j <= c
    BY <2>2, <2>5, GreatestNat
  <2> HIDE DEF c
  <2>6. b <= c /\ c <= b /\ c \in Nat
    BY <2>1, <2>2, <2>3, <2>5 DEF b
  <2>4. Max(A) = l + 1
    BY <2>5, <2>6 DEF b, c
  <2> QED
    BY <1>1, <1>2, <2>2, <2>4 DEF ConfigAt, A, t, l
<1>3. CASE e.kind # "config"
  <2>1. A = B
    <3>1. ASSUME NEW j \in 1 .. l + 1 PROVE j \in A <=> j \in B
      <4>1. CASE j = l + 1
        <5>1. l + 1 \notin A /\ l + 1 \notin B
          BY <1>1, <1>3
        <5> QED
          BY <4>1, <5>1
      <4>2. CASE j # l + 1
        BY <1>1, <4>2
      <4> QED
        BY <4>1, <4>2
    <3>2. A \subseteq 1 .. l + 1 /\ B \subseteq 1 .. l + 1
      BY <1>1
    <3> HIDE DEF A, B
    <3> QED
      BY <3>1, <3>2
  <2>2. CASE A = {}
    BY <1>3, <2>1, <2>2 DEF ConfigAt, t, l
  <2>3. CASE A # {}
    <3>1. B \subseteq Nat /\ B # {} /\ \A j \in B : j <= l
      BY <1>1, <2>1, <2>3
    <3>2. Max(B) \in B
      <4> HIDE DEF A, B
      <4> QED
        BY <1>1, <3>1, GreatestNat
    <3>3. t[Max(B)] = s[Max(B)]
      BY <1>1, <3>2
    <3> QED
      BY <1>3, <2>1, <2>3, <3>3 DEF ConfigAt, t, l
  <2> QED
    BY <2>2, <2>3
<1> QED
  BY <1>2, <1>3

\* The conversation events with their configurations.
Tagged(first, s) == [i \in DOMAIN s |-> [event |-> s[i], config |-> ConfigAt(first, s, i)]]
ConfiguredFrom(first, s) == Pick(Tagged(first, s), Conversation(s))
Tag == [event : Event, config : Values]

LEMMA TaggedTyped ==
  ASSUME NEW first \in Values, NEW s \in Stream
  PROVE  Tagged(first, s) \in Seq(Tag) /\ Len(Tagged(first, s)) = Len(s)
<1>1. DOMAIN s = 1 .. Len(s) /\ Len(s) \in Nat
  BY Positions DEF Stream
<1>2. ASSUME NEW i \in DOMAIN s PROVE [event |-> s[i], config |-> ConfigAt(first, s, i)] \in Tag
  <2>1. i \in 0 .. Len(s)
    BY <1>1
  <2>2. s[i] \in Event /\ ConfigAt(first, s, i) \in Values
    BY <2>1, Positions, ConfigAtTyped DEF Stream
  <2> QED
    BY <2>2 DEF Tag
<1> DEFINE g(i) == [event |-> s[i], config |-> ConfigAt(first, s, i)]
<1>3. Tagged(first, s) = [i \in 1 .. Len(s) |-> g(i)]
  BY <1>1 DEF Tagged
<1>4. \A i \in 1 .. Len(s) : g(i) \in Tag
  BY <1>1, <1>2
<1> HIDE DEF g
<1> QED
  BY <1>1, <1>3, <1>4

LEMMA ConfiguredAppend ==
  ASSUME NEW first \in Values, NEW s \in Stream, NEW e \in Event
  PROVE  ConfiguredFrom(first, Append(s, e)) =
           IF IsGlobal(e) THEN ConfiguredFrom(first, s)
           ELSE Append(ConfiguredFrom(first, s), [event |-> e, config |-> ConfigAt(first, s, Len(s))])
<1> DEFINE t == Append(s, e)
           l == Len(s)
           last == [event |-> e, config |-> ConfigAt(first, t, l + 1)]
<1>1. /\ l \in Nat /\ t \in Stream /\ Len(t) = l + 1 /\ t[l + 1] = e
      /\ \A i \in 1 .. l : t[i] = s[i]
      /\ DOMAIN t = 1 .. l + 1 /\ DOMAIN s = 1 .. l
  BY Appended DEF Stream
<1> HIDE DEF t, l
<1>2. Tagged(first, s) \in Seq(Tag) /\ Len(Tagged(first, s)) = l
  BY TaggedTyped DEF l
<1>3. Tagged(first, t) \in Seq(Tag) /\ Len(Tagged(first, t)) = l + 1
  BY <1>1, TaggedTyped
<1>4. \A i \in 1 .. l : Tagged(first, t)[i] = Tagged(first, s)[i]
  <2>1. SUFFICES ASSUME NEW i \in 1 .. l PROVE Tagged(first, t)[i] = Tagged(first, s)[i]
    OBVIOUS
  <2>2. i \in Nat /\ \A j \in 1 .. i : t[j] = s[j]
    BY <1>1
  <2>3. ConfigAt(first, t, i) = ConfigAt(first, s, i)
    BY <2>2, ConfigOfPrefix
  <2>4. i \in DOMAIN t /\ i \in DOMAIN s /\ t[i] = s[i]
    BY <1>1
  <2> QED
    BY <2>3, <2>4 DEF Tagged
<1>5. Tagged(first, t)[l + 1] = last
  BY <1>1 DEF Tagged
<1>6. last \in Tag
  <2>1. l + 1 \in 0 .. Len(t)
    BY <1>1
  <2> QED
    BY <1>1, <2>1, ConfigAtTyped DEF Tag
<1> HIDE DEF last
<1>7. Tagged(first, t) = Append(Tagged(first, s), last)
  <2> DEFINE a == Tagged(first, s)
             b == Tagged(first, t)
  <2>1. /\ a \in Seq(Tag) /\ Len(a) = l /\ b \in Seq(Tag) /\ Len(b) = l + 1
        /\ \A i \in 1 .. l : b[i] = a[i]
        /\ b[l + 1] = last
    BY <1>2, <1>3, <1>4, <1>5
  <2> HIDE DEF a, b
  <2>2. b = Append(a, last)
    BY <1>1, <1>6, <2>1
  <2> QED
    BY <2>2 DEF a, b
<1>8. \A i \in 1 .. l : i \in Conversation(s) <=> i \in Conversation(t)
  BY <1>1 DEF Conversation
<1>9. l + 1 \in Conversation(t) <=> ~IsGlobal(e)
  BY <1>1 DEF Conversation
<1>10. ConfiguredFrom(first, t) =
         IF l + 1 \in Conversation(t) THEN Append(ConfiguredFrom(first, s), last)
         ELSE ConfiguredFrom(first, s)
  <2> DEFINE a == Tagged(first, s)
  <2>1. Pick(Append(a, last), Conversation(t)) =
          IF Len(a) + 1 \in Conversation(t) THEN Append(Pick(a, Conversation(s)), last)
          ELSE Pick(a, Conversation(s))
    <3> HIDE DEF a
    <3>1. a \in Seq(Tag) /\ \A i \in 1 .. Len(a) : i \in Conversation(s) <=> i \in Conversation(t)
      BY <1>2, <1>8 DEF a
    <3> QED
      BY <1>6, <3>1, PickAppend
  <2> QED
    BY <1>2, <1>7, <2>1 DEF ConfiguredFrom
<1>11. ~IsGlobal(e) => last = [event |-> e, config |-> ConfigAt(first, s, l)]
  <2>1. ConfigAt(first, t, l + 1) = IF e.kind = "config" THEN e.value ELSE ConfigAt(first, s, l)
    BY ConfigOfAppend DEF t, l
  <2> QED
    BY <2>1 DEF IsGlobal, last
<1> QED
  BY <1>9, <1>10, <1>11 DEF t, l

\* What a copy is after k events, and what it is copied from.
LEMMA PrefixAppend ==
  ASSUME NEW E, NEW s \in Seq(E), NEW k \in 0 .. Len(s) - 1
  PROVE  /\ SubSeq(s, 1, k) \in Seq(E) /\ Len(SubSeq(s, 1, k)) = k
         /\ SubSeq(s, 1, k + 1) = Append(SubSeq(s, 1, k), s[k + 1])
         /\ \A i \in 1 .. k : SubSeq(s, 1, k)[i] = s[i]
OBVIOUS

LEMMA ForkConfigured ==
  ASSUME NEW first \in Values, NEW s \in Stream
  PROVE  ConfiguredFrom(first, Extended(first, s)) = ConfiguredFrom(first, s)
<1> DEFINE n == Len(s)
           prefix(k) == SubSeq(s, 1, k)
<1>1. DOMAIN s = 1 .. n /\ n \in Nat /\ \A i \in 1 .. n : s[i] \in Event
  BY Positions DEF Stream
<1>2. ASSUME NEW i \in 1 .. n PROVE s[i].n \in Nat /\ \A v \in Values : Delta(v, s[i].n) \in Event
  BY <1>1, EventFacts, NewEvents
<1>3. PICK f : Extending(f, first, s, Event)
  <2>1. \A i \in Conversation(s) : s[i] \in Event /\ \A v \in Values : Delta(v, s[i].n) \in Event
    BY <1>1, <1>2 DEF Conversation
  <2> QED
    BY <2>1, ExtendedDefined
<1>4. /\ \A k \in 0 .. n : f[k].events \in Seq(Event) /\ f[k].tail \in Values
      /\ f[0] = [events |-> <<>>, tail |-> first]
      /\ \A i \in 1 .. n : f[i] = ExtendStep(first, s, i, f[i - 1])
      /\ Extended(first, s) = f[n].events
  BY <1>3 DEF Extending
<1> DEFINE Like(k) == /\ ConfiguredFrom(first, f[k].events) = ConfiguredFrom(first, prefix(k))
                      /\ f[k].tail = ConfigAt(first, f[k].events, Len(f[k].events))
           T == {k \in 0 .. n : Like(k)}
<1>5. 0 \in T
  <2>1. prefix(0) = <<>> /\ f[0].events = <<>> /\ f[0].tail = first
    BY <1>1, <1>4 DEF Stream
  <2>2. ConfigAt(first, <<>>, Len(<<>>)) = first
    BY DEF ConfigAt
  <2> HIDE DEF prefix
  <2>3. Like(0)
    BY <2>1, <2>2
  <2> QED
    BY <1>1, <2>3
<1>6. ASSUME NEW k \in 0 .. n - 1, k \in T PROVE k + 1 \in T
  <2> DEFINE i == k + 1
             e == s[i]
             u == f[k].events
             w == f[i].events
             p == prefix(k)
             now == ConfigAt(first, s, i)
             delta == Delta(now, e.n)
  <2>1. i \in 1 .. n /\ i \in 0 .. n /\ i - 1 = k /\ k \in 0 .. n /\ k \in Nat
    BY <1>1
  <2>2. e \in Event /\ u \in Stream /\ f[k].tail \in Values
    BY <1>1, <1>4, <2>1 DEF Stream
  <2>3. p \in Stream /\ Len(p) = k /\ prefix(i) = Append(p, e) /\ \A j \in 1 .. k : p[j] = s[j]
    BY <1>1, PrefixAppend DEF Stream
  <2>4. ConfiguredFrom(first, u) = ConfiguredFrom(first, p) /\ f[k].tail = ConfigAt(first, u, Len(u))
    BY <1>6
  <2>5. f[i] = ExtendStep(first, s, i, f[k])
    BY <1>4, <2>1
  <2>6. i \in Conversation(s) <=> ~IsGlobal(e)
    BY <1>1, <2>1 DEF Conversation
  <2>7. now \in Values
    BY <2>1, ConfigAtTyped
  <2>8. now = IF e.kind = "config" THEN e.value ELSE ConfigAt(first, p, k)
    <3>1. /\ Append(p, e)[k + 1] = e /\ \A j \in 1 .. k : Append(p, e)[j] = p[j]
      BY <2>2, <2>3, Appended DEF Stream
    <3>2. \A j \in 1 .. i : Append(p, e)[j] = s[j]
      <4>1. SUFFICES ASSUME NEW j \in 1 .. i PROVE Append(p, e)[j] = s[j]
        OBVIOUS
      <4>2. CASE j = k + 1
        BY <3>1, <4>2
      <4>3. CASE j # k + 1
        <5>1. j \in 1 .. k
          BY <2>1, <4>3
        <5> QED
          BY <2>3, <3>1, <5>1
      <4> QED
        BY <4>2, <4>3
    <3>3. i \in Nat
      BY <2>1
    <3> DEFINE q == Append(p, e)
    <3> HIDE DEF q, p, e, i
    <3>4. now = ConfigAt(first, q, i)
      BY <3>2, <3>3, ConfigOfPrefix DEF q
    <3>5. ConfigAt(first, q, Len(p) + 1) = IF e.kind = "config" THEN e.value ELSE ConfigAt(first, p, Len(p))
      BY <2>2, <2>3, ConfigOfAppend DEF q
    <3> QED
      BY <2>3, <3>4, <3>5 DEF i
  <2>9. ConfiguredFrom(first, prefix(i)) =
          IF IsGlobal(e) THEN ConfiguredFrom(first, p)
          ELSE Append(ConfiguredFrom(first, p), [event |-> e, config |-> ConfigAt(first, p, k)])
    <3> HIDE DEF p, e, i, prefix
    <3> QED
      BY <2>2, <2>3, ConfiguredAppend
  <2>10. CASE IsGlobal(e)
    <3>1. f[i] = f[k]
      BY <2>5, <2>6, <2>10 DEF ExtendStep
    <3>2. Like(i)
      <4> HIDE DEF p, e, i, prefix
      <4> QED
        BY <2>4, <2>9, <2>10, <3>1
    <3> QED
      BY <2>1, <3>2
  <2>11. CASE ~IsGlobal(e)
    <3>0. e.kind # "config"
      BY <2>11 DEF IsGlobal
    <3>1. w = u \o DeltaOf(first, s, i, f[k].tail) \o <<e>> /\ f[i].tail = now
      <4> DEFINE x == u \o DeltaOf(first, s, i, f[k].tail) \o <<e>>
      <4>1. f[i] = [events |-> x, tail |-> now]
        BY <2>5, <2>6, <2>11 DEF ExtendStep
      <4> HIDE DEF x, now, i
      <4>2. f[i].events = x /\ f[i].tail = now
        BY <4>1
      <4> QED
        BY <4>2 DEF x
    <3>2. PICK y \in Stream : /\ w = Append(y, e) /\ ConfiguredFrom(first, y) = ConfiguredFrom(first, u)
                              /\ ConfigAt(first, y, Len(y)) = now
      <4>1. CASE f[k].tail = now
        <5>1. DeltaOf(first, s, i, f[k].tail) = <<>>
          BY <4>1 DEF DeltaOf
        <5> HIDE DEF u, e, i, now, w
        <5>2. u \o <<>> = u /\ u \o <<e>> = Append(u, e)
          BY <2>2 DEF Stream
        <5>3. w = Append(u, e)
          BY <3>1, <5>1, <5>2
        <5> QED
          BY <2>2, <2>4, <4>1, <5>3
      <4>2. CASE f[k].tail # now
        <5>1. DeltaOf(first, s, i, f[k].tail) = <<delta>>
          BY <4>2 DEF DeltaOf
        <5>2. delta \in Event /\ delta.kind = "config" /\ delta.value = now
          BY <1>2, <2>1, <2>7, NewEvents
        <5> DEFINE y == Append(u, delta)
        <5> HIDE DEF u, e, i, now, w, delta
        <5>3. y \in Stream /\ Len(y) = Len(u) + 1
          BY <2>2, <5>2, Appended DEF Stream
        <5>4. u \o <<delta>> = y
          BY <2>2, <5>2 DEF Stream
        <5>5. ConfiguredFrom(first, y) = ConfiguredFrom(first, u)
          BY <2>2, <5>2, ConfiguredAppend DEF IsGlobal
        <5>6. ConfigAt(first, y, Len(y)) = now
          BY <2>2, <5>2, <5>3, ConfigOfAppend
        <5> HIDE DEF y
        <5>7. y \o <<e>> = Append(y, e)
          BY <2>2, <5>3 DEF Stream
        <5>8. w = Append(y, e)
          BY <3>1, <5>1, <5>4, <5>7
        <5> QED
          BY <5>3, <5>5, <5>6, <5>8
      <4> QED
        BY <4>1, <4>2
    <3> HIDE DEF u, e, i, now, w, p, prefix
    <3>3. ConfiguredFrom(first, w) = Append(ConfiguredFrom(first, y), [event |-> e, config |-> now])
      BY <2>2, <2>11, <3>2, ConfiguredAppend
    <3>4. ConfiguredFrom(first, prefix(i)) = Append(ConfiguredFrom(first, p), [event |-> e, config |-> now])
      BY <2>8, <2>9, <2>11, <3>0
    <3>5. ConfigAt(first, w, Len(w)) = now
      <4>1. ConfigAt(first, Append(y, e), Len(y) + 1) = now
        BY <2>2, <3>0, <3>2, ConfigOfAppend
      <4>2. Len(Append(y, e)) = Len(y) + 1
        BY <2>2, Appended DEF Stream
      <4> QED
        BY <3>2, <4>1, <4>2
    <3>6. Like(i)
      BY <2>4, <3>1, <3>2, <3>3, <3>4, <3>5 DEF w
    <3>7. i \in T
      BY <2>1, <3>6
    <3> QED
      BY <3>7 DEF i
  <2> QED
    BY <2>10, <2>11
<1> HIDE DEF T
<1>7. n \in T
  BY <1>1, <1>5, <1>6, InductionUpTo
<1>8. prefix(n) = s
  BY <1>1 DEF Stream
<1> HIDE DEF prefix
<1> QED
  BY <1>4, <1>7, <1>8 DEF T

\* A fork has each event under the configuration it was made under: the deltas
\* it writes are those the tail of what is already written lacks.
THEOREM ForksKeepConfig == Spec => []ForkKeepsConfig
<1>1. Progress => ForkKeepsConfig
  <2>1. SUFFICES ASSUME Progress, NEW copy \in Copies
               PROVE  Configured(Extended(base, copy)) = Configured(copy)
    BY DEF ForkKeepsConfig
  <2>2. /\ clock \in Nat /\ Closed(Past(clock)) /\ stream \in Seq(Past(clock)) /\ base \in Values
    BY <2>1, ClockFacts DEF Progress
  <2>3. copy \in Stream
    BY <2>2, FilteredTyped, SanitizedTyped, PastStream DEF Copies
  <2>4. ConfiguredFrom(base, Extended(base, copy)) = ConfiguredFrom(base, copy)
    BY <2>2, <2>3, ForkConfigured
  <2> QED
    BY <2>4 DEF Configured, ConfiguredFrom, Tagged
<1>2. Spec => []Progress
  <2>1. Progress /\ [Next]_vars => Progress'
    BY NextTyped
  <2> QED
    BY <2>1, InitProgress, PTL DEF Spec
<1> QED
  BY <1>1, <1>2, PTL

-----------------------------------------------------------------------------
(* How a conversation begins.                                              *)

Turns(s) == Where(s, {"turn"})
Asks(s) == Where(s, {"ask"})

\* No event of the conversation is before its first TurnStart.
Started(s) == \A i \in Conversation(s) : \E j \in Turns(s) : j <= i

\* If there is a request, only TurnStarts are before the first one.
Led(s) == Asks(s) = {} \/ \A i \in Conversation(s) : i \in Turns(s) \/ \E a \in Asks(s) : a <= i

\* A TurnStart and a request come first.
Opening(s) ==
  \E c, d \in Conversation(s) :
    /\ c \in Turns(s) /\ d \in Asks(s) /\ c < d
    /\ \A i \in Conversation(s) : i = c \/ i >= d

LEMMA Placement ==
  ASSUME NEW s \in Stream
  PROVE  /\ Turns(s) \subseteq Conversation(s) /\ Asks(s) \subseteq Conversation(s)
         /\ Turns(s) \cap Asks(s) = {}
         /\ \A i \in Conversation(s) : i \in DOMAIN s /\ i \in 1 .. Len(s) /\ i \in Nat /\ s[i] \in Event
         /\ Conversation(s) \subseteq 1 .. Len(s) /\ Conversation(s) \subseteq Nat /\ Len(s) \in Nat
         /\ \A i : i \in Turns(s) <=> i \in DOMAIN s /\ s[i].kind = "turn"
         /\ \A i : i \in Asks(s) <=> i \in DOMAIN s /\ s[i].kind = "ask"
         /\ \A i : i \in Conversation(s) <=> i \in DOMAIN s /\ s[i].kind \notin {"config", "overlay"}
<1>1. DOMAIN s = 1 .. Len(s) /\ Len(s) \in Nat
  BY Positions DEF Stream
<1> QED
  BY <1>1, Positions DEF Turns, Asks, Where, Conversation, IsGlobal, Stream

\* What an embedding makes of them.
LEMMA EmbeddedKinds ==
  ASSUME NEW s \in Stream, NEW t \in Stream, NEW K, NEW m, Embeds(m, s, K, t)
  PROVE  /\ \A i \in K : /\ i \in DOMAIN s /\ m[i] \in DOMAIN t /\ t[m[i]] = s[i]
                         /\ i \in Conversation(s) <=> m[i] \in Conversation(t)
                         /\ i \in Turns(s) <=> m[i] \in Turns(t)
                         /\ i \in Asks(s) <=> m[i] \in Asks(t)
                         /\ \A kinds : i \in Where(s, kinds) <=> m[i] \in Where(t, kinds)
         /\ \A p \in DOMAIN t : p \in Added(m, K, t) \/ \E i \in K : m[i] = p
<1>1. \A i \in K : i \in DOMAIN s /\ m[i] \in DOMAIN t /\ t[m[i]] = s[i]
  BY DEF Embeds
<1>2. \A i \in K : \A kinds : i \in Where(s, kinds) <=> m[i] \in Where(t, kinds)
  BY <1>1 DEF Where
<1>3. \A i \in K : i \in Conversation(s) <=> m[i] \in Conversation(t)
  BY <1>1 DEF Conversation
<1>4. \A p \in DOMAIN t : p \in Added(m, K, t) \/ \E i \in K : m[i] = p
  BY DEF Added
<1> QED
  BY <1>1, <1>2, <1>3, <1>4 DEF Turns, Asks

LEMMA StartedKept ==
  ASSUME NEW s \in Stream, NEW t \in Stream, NEW K, NEW m, Embeds(m, s, K, t), Started(s),
         \A i \in K \cap Conversation(s), j \in Turns(s) : j <= i => j \in K,
         \A p \in Added(m, K, t) \cap Conversation(t) : \E i \in K \cap Conversation(s) : m[i] <= p
  PROVE  Started(t)
<1>1. ASSUME NEW i \in K \cap Conversation(s) PROVE \E q \in Turns(t) : q <= m[i]
  <2>1. PICK j \in Turns(s) : j <= i
    BY DEF Started
  <2>2. j \in K
    BY <2>1
  <2>3. m[j] <= m[i] /\ m[j] \in Turns(t)
    BY <2>1, <2>2, EmbeddedOrder, EmbeddedKinds
  <2> QED
    BY <2>3
<1>2. SUFFICES ASSUME NEW p \in Conversation(t) PROVE \E q \in Turns(t) : q <= p
  BY DEF Started
<1>3. p \in DOMAIN t /\ p \in Nat
  BY Placement
<1>4. CASE \E i \in K : m[i] = p
  <2>1. PICK i \in K : m[i] = p
    BY <1>4
  <2>2. i \in Conversation(s)
    BY <2>1, EmbeddedKinds
  <2> QED
    BY <1>1, <2>1, <2>2
<1>5. CASE p \in Added(m, K, t)
  <2>1. PICK i \in K \cap Conversation(s) : m[i] <= p
    BY <1>5
  <2>2. PICK q \in Turns(t) : q <= m[i]
    BY <1>1
  <2>3. q \in Nat /\ m[i] \in Nat
    <3>1. m[i] \in Conversation(t)
      BY EmbeddedKinds
    <3> QED
      BY <3>1, Placement
  <2> QED
    BY <1>3, <2>1, <2>2, <2>3
<1> QED
  BY <1>3, <1>4, <1>5, EmbeddedKinds

LEMMA LedKept ==
  ASSUME NEW s \in Stream, NEW t \in Stream, NEW K, NEW m, Embeds(m, s, K, t), Led(s), Asks(s) \subseteq K,
         \A p \in Added(m, K, t) \cap Conversation(t) : p \notin Asks(t) /\ \E a \in Asks(s) : m[a] <= p
  PROVE  Led(t) /\ (Asks(s) # {} => Asks(t) # {})
<1>1. \A a \in Asks(s) : a \in K /\ m[a] \in Asks(t)
  BY EmbeddedKinds
<1>2. ASSUME NEW p \in Conversation(t), Asks(s) # {} PROVE p \in Turns(t) \/ \E b \in Asks(t) : b <= p
  <2>1. CASE \E i \in K : m[i] = p
    <3>1. PICK i \in K : m[i] = p
      BY <2>1
    <3>2. i \in Conversation(s)
      BY <3>1, EmbeddedKinds
    <3>3. CASE i \in Turns(s)
      BY <3>1, <3>3, EmbeddedKinds
    <3>4. CASE i \notin Turns(s)
      <4>1. PICK a \in Asks(s) : a <= i
        BY <1>2, <3>2, <3>4 DEF Led
      <4>2. m[a] <= m[i]
        BY <1>1, <4>1, EmbeddedOrder
      <4> QED
        BY <1>1, <3>1, <4>1, <4>2
    <3> QED
      BY <3>3, <3>4
  <2>2. CASE p \in Added(m, K, t)
    BY <1>1, <2>2
  <2>3. p \in DOMAIN t
    BY Placement
  <2> QED
    BY <2>1, <2>2, <2>3, EmbeddedKinds
<1>3. CASE Asks(s) = {}
  <2>1. SUFFICES ASSUME NEW p \in Asks(t) PROVE FALSE
    BY <1>3 DEF Led
  <2>2. p \in DOMAIN t /\ p \in Conversation(t)
    BY Placement
  <2>3. CASE p \in Added(m, K, t)
    BY <2>2, <2>3
  <2>4. CASE \E i \in K : m[i] = p
    BY <1>3, <2>4, EmbeddedKinds
  <2> QED
    BY <2>2, <2>3, <2>4, EmbeddedKinds
<1>4. CASE Asks(s) # {}
  BY <1>1, <1>2, <1>4 DEF Led
<1> QED
  BY <1>3, <1>4

LEMMA OpeningStarts == ASSUME NEW s \in Stream, Opening(s) PROVE Started(s) /\ Asks(s) # {}
<1>1. PICK c, d \in Conversation(s) :
        /\ c \in Turns(s) /\ d \in Asks(s) /\ c < d
        /\ \A i \in Conversation(s) : i = c \/ i >= d
  BY DEF Opening
<1>2. c \in Nat /\ d \in Nat /\ \A i \in Conversation(s) : i \in Nat
  BY <1>1, Placement
<1>3. \A i \in Conversation(s) : c <= i
  BY <1>1, <1>2
<1> QED
  BY <1>1, <1>3 DEF Started

\* What sanitize leaves before the TurnStarts are normalized.
BeforeNormalized(s) ==
  TrailingTurnTrimmed(OrphansRemoved(OrphansRemoved(CallsAnswered(
    OrphansRemoved(LeadingDropped(s), "result", "call")), "answer", "question"), "question", "answer"))

LEMMA SanitizedIs == ASSUME NEW s PROVE Sanitized(s) = TurnStartsNormalized(BeforeNormalized(s))
BY DEF Sanitized, BeforeNormalized

LEMMA PickOf ==
  ASSUME NEW s \in Stream, NEW K, K \subseteq DOMAIN s
  PROVE  Pick(s, K) \in Stream /\ \E m : Embeds(m, s, K, Pick(s, K)) /\ Added(m, K, Pick(s, K)) = {}
<1>1. PICK m : Embeds(m, s, K \cap DOMAIN s, Pick(s, K)) /\ Added(m, K \cap DOMAIN s, Pick(s, K)) = {}
  BY PickEmbeds
<1>2. K \cap DOMAIN s = K
  OBVIOUS
<1>3. Embeds(m, s, K, Pick(s, K)) /\ Added(m, K, Pick(s, K)) = {}
  BY <1>1, <1>2
<1>4. Pick(s, K) \in Stream
  BY PickEmbeds
<1> QED
  BY <1>3, <1>4

\* An orphan is never a request, and a call, a question or a result alone.
LEMMA OrphansRemovedEmbeds ==
  ASSUME NEW s \in Stream, NEW kind \in Identified, NEW partner
  PROVE  LET K == {i \in DOMAIN s : s[i].kind = kind => s[i].id \in Ids(s, partner)}
             t == OrphansRemoved(s, kind, partner)
         IN  /\ t \in Stream /\ \E m : Embeds(m, s, K, t) /\ Added(m, K, t) = {}
             /\ \A i \in DOMAIN s : s[i].kind # kind => i \in K
             /\ Asks(s) \subseteq K /\ Turns(s) \subseteq K
<1> DEFINE K == {i \in DOMAIN s : s[i].kind = kind => s[i].id \in Ids(s, partner)}
<1>1. OrphansRemoved(s, kind, partner) = Pick(s, K)
  BY DEF OrphansRemoved
<1>2. K \cap DOMAIN s = K /\ \A i \in DOMAIN s : s[i].kind # kind => i \in K
  OBVIOUS
<1>3. Asks(s) \subseteq K /\ Turns(s) \subseteq K
  BY DEF Asks, Turns, Where, Identified
<1> DEFINE t == OrphansRemoved(s, kind, partner)
<1>4. t = Pick(s, K)
  BY <1>1
<1> HIDE DEF K, t
<1>5. t \in Stream /\ \E m : Embeds(m, s, K, t) /\ Added(m, K, t) = {}
  BY <1>2, <1>4, PickOf
<1> QED
  BY <1>2, <1>3, <1>5 DEF K, t

LEMMA LedOrphansRemoved ==
  ASSUME NEW s \in Stream, Led(s), NEW kind \in Identified, NEW partner
  PROVE  LET t == OrphansRemoved(s, kind, partner) IN
         t \in Stream /\ Led(t) /\ (Asks(s) # {} => Asks(t) # {})
<1> DEFINE t == OrphansRemoved(s, kind, partner)
           K == {i \in DOMAIN s : s[i].kind = kind => s[i].id \in Ids(s, partner)}
<1>1. t \in Stream /\ Asks(s) \subseteq K
  BY OrphansRemovedEmbeds
<1>2. PICK m : Embeds(m, s, K, t) /\ Added(m, K, t) = {}
  BY OrphansRemovedEmbeds
<1> HIDE DEF K, t
<1>3. Led(t) /\ (Asks(s) # {} => Asks(t) # {})
  BY <1>1, <1>2, LedKept
<1> QED
  BY <1>1, <1>3 DEF t

LEMMA LeadingDroppedLed ==
  ASSUME NEW s \in Stream
  PROVE  LET t == LeadingDropped(s)
             ask == FirstOf(Asks(s))
             K == {i \in DOMAIN s : i >= ask \/ IsGlobal(s[i]) \/ s[i].kind = "turn"}
         IN  /\ t \in Stream /\ Led(t) /\ (Asks(s) # {} => Asks(t) # {})
             /\ \E m : Embeds(m, s, K, t) /\ Added(m, K, t) = {}
             /\ Asks(s) \subseteq K
<1> DEFINE t == LeadingDropped(s)
           ask == FirstOf(Asks(s))
           K == {i \in DOMAIN s : i >= ask \/ IsGlobal(s[i]) \/ s[i].kind = "turn"}
<1>1. t = Pick(s, K) /\ K \cap DOMAIN s = K
  BY DEF LeadingDropped, Asks
<1>2. /\ Asks(s) # {} => ask \in Asks(s)
      /\ \A a \in Asks(s) : ask <= a /\ a \in Nat /\ a \in DOMAIN s
      /\ ask \in Nat
  <2>1. Asks(s) \subseteq 1 .. Len(s) /\ Len(s) \in Nat
    BY Placement
  <2>2. ask \in 0 .. Len(s) /\ (Asks(s) # {} => ask \in Asks(s)) /\ \A a \in Asks(s) : ask <= a
    BY <2>1, FirstAmong
  <2>3. \A a \in Asks(s) : a \in Nat /\ a \in DOMAIN s
    BY Placement
  <2> QED
    BY <2>1, <2>2, <2>3
<1> HIDE DEF t, ask
<1>3. Asks(s) \subseteq K
  BY <1>2
<1>4. t \in Stream /\ \E m : Embeds(m, s, K, t) /\ Added(m, K, t) = {}
  <2> HIDE DEF K
  <2> QED
    BY <1>1, PickOf
<1>5. PICK m : Embeds(m, s, K, t) /\ Added(m, K, t) = {}
  BY <1>4
<1>6. ASSUME NEW i \in K, i \in Conversation(s), Asks(s) # {} PROVE i \in Turns(s) \/ ask <= i
  <2>1. i \in Nat /\ i \in DOMAIN s
    BY <1>6, Placement
  <2> QED
    BY <1>2, <1>6, <2>1 DEF Conversation, Turns, Where
<1> HIDE DEF K
<1>7. \A a \in Asks(s) : m[a] \in Asks(t)
  BY <1>3, <1>4, <1>5, EmbeddedKinds
<1>8. Led(t)
  <2>1. CASE Asks(s) = {}
    <3>1. SUFFICES ASSUME NEW p \in Asks(t) PROVE FALSE
      BY DEF Led
    <3>2. p \in DOMAIN t
      BY <1>4, Placement
    <3>3. PICK i \in K : m[i] = p
      BY <1>4, <1>5, <3>2, EmbeddedKinds
    <3> QED
      BY <1>4, <1>5, <2>1, <3>3, EmbeddedKinds
  <2>2. CASE Asks(s) # {}
    <3>1. SUFFICES ASSUME NEW p \in Conversation(t) PROVE p \in Turns(t) \/ \E b \in Asks(t) : b <= p
      BY DEF Led
    <3>2. p \in DOMAIN t
      BY <1>4, Placement
    <3>3. PICK i \in K : m[i] = p
      BY <1>4, <1>5, <3>2, EmbeddedKinds
    <3>4. i \in Conversation(s)
      BY <1>4, <1>5, <3>1, <3>3, EmbeddedKinds
    <3>5. CASE i \in Turns(s)
      BY <1>4, <1>5, <3>3, <3>5, EmbeddedKinds
    <3>6. CASE i \notin Turns(s)
      <4>1. ask <= i /\ ask \in K
        BY <1>2, <1>3, <1>6, <2>2, <3>4, <3>6
      <4>2. m[ask] <= m[i]
        BY <1>4, <1>5, <4>1, EmbeddedOrder
      <4> QED
        BY <1>2, <1>7, <2>2, <3>3, <4>2
    <3> QED
      BY <3>5, <3>6
  <2> QED
    BY <2>1, <2>2
<1> QED
  BY <1>3, <1>4, <1>7, <1>8 DEF t, ask, K

LEMMA LedCallsAnswered ==
  ASSUME NEW s \in Stream, Led(s)
  PROVE  LET t == CallsAnswered(s) IN t \in Stream /\ Led(t) /\ (Asks(s) # {} => Asks(t) # {})
<1> DEFINE t == CallsAnswered(s)
           K == DOMAIN s
<1>1. t \in Stream
  BY CallsAnsweredEmbeds
<1>2. PICK m : Answers(m, s, t)
  BY CallsAnsweredEmbeds
<1> HIDE DEF t
<1>3. Embeds(m, s, K, t)
  BY <1>2 DEF Answers
<1>4. Asks(s) \subseteq K
  BY Placement
<1>5. CASE Asks(s) = {}
  <2>1. ASSUME NEW p \in Asks(t) PROVE FALSE
    <3>1. p \in DOMAIN t /\ t[p].kind = "ask"
      BY <1>1, Placement
    <3>2. CASE p \in Added(m, K, t)
      <4>1. PICK i \in DOMAIN s : Open(s, i) /\ p = m[i] + 1
        BY <1>2, <3>2 DEF Answers
      <4>2. t[p] = AnswerTo(s, i)
        BY <1>2, <4>1 DEF Answers
      <4> QED
        BY <3>1, <4>2 DEF AnswerTo, Paired
    <3>3. CASE \E i \in K : m[i] = p
      BY <1>1, <1>3, <1>5, <3>3, EmbeddedKinds
    <3> QED
      BY <1>1, <1>3, <3>1, <3>2, <3>3, EmbeddedKinds
  <2> QED
    BY <1>1, <1>5, <2>1 DEF Led, t
<1>6. CASE Asks(s) # {}
  <2>1. ASSUME NEW p \in Added(m, K, t) \cap Conversation(t)
        PROVE  p \notin Asks(t) /\ \E a \in Asks(s) : m[a] <= p
    <3>1. PICK i \in DOMAIN s : Open(s, i) /\ p = m[i] + 1
      BY <1>2 DEF Answers
    <3>2. t[p] = AnswerTo(s, i)
      BY <1>2, <3>1 DEF Answers
    <3>3. p \notin Asks(t)
      BY <1>1, <3>2, Placement DEF AnswerTo, Paired
    <3>4. i \in Conversation(s) /\ i \notin Turns(s)
      BY <3>1, Placement DEF Open
    <3>5. PICK a \in Asks(s) : a <= i
      BY <1>6, <3>4 DEF Led
    <3>6. m[a] <= m[i]
      BY <1>1, <1>3, <1>4, <3>1, <3>5, EmbeddedOrder
    <3>7. m[a] \in Nat /\ m[i] \in Nat
      BY <1>1, <1>3, <1>4, <3>1, <3>5, EmbeddedKinds, Positions DEF Stream
    <3>8. m[a] <= p
      BY <3>1, <3>6, <3>7
    <3> QED
      BY <3>3, <3>5, <3>8
  <2>2. Led(t) /\ (Asks(s) # {} => Asks(t) # {})
    BY <1>1, <1>3, <1>4, <2>1, LedKept
  <2> QED
    BY <1>1, <2>2 DEF t
<1> QED
  BY <1>5, <1>6

LEMMA TrailingTrimmedEmbeds ==
  ASSUME NEW s \in Stream
  PROVE  LET K == DOMAIN s \ ({LastOf(Conversation(s))} \cap Turns(s))
             t == TrailingTurnTrimmed(s)
         IN  /\ t \in Stream /\ \E m : Embeds(m, s, K, t) /\ Added(m, K, t) = {}
             /\ \A i \in DOMAIN s : i \notin K => i \in Turns(s) /\ \A j \in Conversation(s) : j <= i
             /\ \A i \in DOMAIN s : i \notin Turns(s) => i \in K
             /\ Asks(s) \subseteq K
<1> DEFINE last == LastOf(Conversation(s))
           K == DOMAIN s \ ({last} \cap Turns(s))
           t == TrailingTurnTrimmed(s)
<1>1. t = Pick(s, K) /\ K \subseteq DOMAIN s
  BY DEF TrailingTurnTrimmed, Turns
<1>2. \A j \in Conversation(s) : j <= last
  BY Placement, LastAmong
<1> HIDE DEF last, t
<1>3. t \in Stream /\ \E m : Embeds(m, s, K, t) /\ Added(m, K, t) = {}
  <2> HIDE DEF K
  <2> QED
    BY <1>1, PickOf
<1>4. \A i \in DOMAIN s : i \notin K => i \in Turns(s) /\ \A j \in Conversation(s) : j <= i
  BY <1>2
<1>5. (\A i \in DOMAIN s : i \notin Turns(s) => i \in K) /\ Asks(s) \subseteq K
  BY Placement
<1> QED
  BY <1>3, <1>4, <1>5 DEF t, last

LEMMA LedTrailingTrimmed ==
  ASSUME NEW s \in Stream, Led(s)
  PROVE  LET t == TrailingTurnTrimmed(s) IN t \in Stream /\ Led(t) /\ (Asks(s) # {} => Asks(t) # {})
<1> DEFINE t == TrailingTurnTrimmed(s)
           K == DOMAIN s \ ({LastOf(Conversation(s))} \cap Turns(s))
<1>1. t \in Stream /\ Asks(s) \subseteq K
  BY TrailingTrimmedEmbeds
<1>2. PICK m : Embeds(m, s, K, t) /\ Added(m, K, t) = {}
  BY TrailingTrimmedEmbeds
<1> HIDE DEF K, t
<1>3. Led(t) /\ (Asks(s) # {} => Asks(t) # {})
  BY <1>1, <1>2, LedKept
<1> QED
  BY <1>1, <1>3 DEF t

LEMMA BeforeNormalizedLed ==
  ASSUME NEW s \in Stream
  PROVE  LET t == BeforeNormalized(s) IN t \in Stream /\ Led(t) /\ (Asks(s) # {} => Asks(t) # {})
<1> DEFINE a == LeadingDropped(s)
           b == OrphansRemoved(a, "result", "call")
           c == CallsAnswered(b)
           d == OrphansRemoved(c, "answer", "question")
           e == OrphansRemoved(d, "question", "answer")
           f == TrailingTurnTrimmed(e)
<1>1. a \in Stream /\ Led(a) /\ (Asks(s) # {} => Asks(a) # {})
  BY LeadingDroppedLed
<1> HIDE DEF a
<1>2. b \in Stream /\ Led(b) /\ (Asks(a) # {} => Asks(b) # {})
  BY <1>1, LedOrphansRemoved DEF Identified
<1> HIDE DEF b
<1>3. c \in Stream /\ Led(c) /\ (Asks(b) # {} => Asks(c) # {})
  BY <1>2, LedCallsAnswered
<1> HIDE DEF c
<1>4. d \in Stream /\ Led(d) /\ (Asks(c) # {} => Asks(d) # {})
  BY <1>3, LedOrphansRemoved DEF Identified
<1> HIDE DEF d
<1>5. e \in Stream /\ Led(e) /\ (Asks(d) # {} => Asks(e) # {})
  BY <1>4, LedOrphansRemoved DEF Identified
<1> HIDE DEF e
<1>6. f \in Stream /\ Led(f) /\ (Asks(e) # {} => Asks(f) # {})
  BY <1>5, LedTrailingTrimmed
<1> HIDE DEF f
<1> QED
  BY <1>1, <1>2, <1>3, <1>4, <1>5, <1>6 DEF BeforeNormalized, a, b, c, d, e, f

\* What the normalization of TurnStarts does: nothing, a removal of TurnStarts
\* before the first request, or an insertion before every conversation event
\* but TurnStarts, of which there is none before a request.
Collapses(s, t) ==
  \E L \in Turns(s), a \in Asks(s) :
    LET K == DOMAIN s \ {i \in Turns(s) : i < a /\ i # L} IN
    /\ L < a /\ (\A b \in Asks(s) : a <= b) /\ \A i \in Turns(s) : i < a => i <= L
    /\ \E m : Embeds(m, s, K, t) /\ Added(m, K, t) = {}
Inserts(s, t) ==
  \E place \in DOMAIN s, stamp \in Nat :
    LET m == [i \in DOMAIN s |-> IF i < place THEN i ELSE i + 1] IN
    /\ Embeds(m, s, DOMAIN s, t) /\ Added(m, DOMAIN s, t) = {place} /\ t[place] = Turn(stamp)
    /\ stamp = 0 \/ (place \in Conversation(s) /\ stamp = s[place].n)
    /\ Asks(s) = {} => place = 1
    /\ Asks(s) # {} => /\ place \in Asks(s) /\ \A b \in Asks(s) : place <= b
                       /\ stamp = s[place].n
                       /\ \A i \in Turns(s) : i >= place

LEMMA NormalizedCases ==
  ASSUME NEW s \in Stream
  PROVE  LET t == TurnStartsNormalized(s) IN
         /\ t \in Stream
         /\ \/ t = s /\ Conversation(s) = Turns(s)
            \/ Collapses(s, t)
            \/ Inserts(s, t) /\ Conversation(s) # Turns(s)
<1> DEFINE t == TurnStartsNormalized(s)
           ask == FirstOf(Asks(s))
           leading == {i \in Turns(s) : i < ask}
           L == LastOf(leading)
           place == IF ask = 0 THEN 1 ELSE ask
           stamp == IF IsGlobal(s[place]) THEN 0 ELSE s[place].n
<1>1. /\ Asks(s) # {} => ask \in Asks(s)
      /\ Asks(s) = {} => ask = 0
      /\ \A a \in Asks(s) : ask <= a /\ a \in Nat /\ a \in DOMAIN s /\ a # 0
      /\ ask \in Nat
  <2>1. Asks(s) \subseteq 1 .. Len(s) /\ Len(s) \in Nat
    BY Placement
  <2>2. /\ ask \in 0 .. Len(s) /\ (Asks(s) # {} => ask \in Asks(s)) /\ (Asks(s) = {} => ask = 0)
        /\ \A a \in Asks(s) : ask <= a
    BY <2>1, FirstAmong
  <2>3. \A a \in Asks(s) : a \in Nat /\ a \in DOMAIN s /\ a # 0
    BY <2>1, Placement
  <2> QED
    BY <2>1, <2>2, <2>3
<1>2. /\ leading # {} => L \in leading
      /\ \A i \in leading : i <= L
  <2>1. leading \subseteq 1 .. Len(s) /\ Len(s) \in Nat
    BY Placement
  <2> HIDE DEF leading
  <2> QED
    BY <2>1, LastAmong
<1>3. CASE Conversation(s) = Turns(s)
  <2>1. Asks(s) = {}
    BY <1>3, Placement
  <2>2. leading = {}
    BY <1>1, <2>1, Placement
  <2>3. t = s
    BY <1>3, <2>2 DEF TurnStartsNormalized, Turns, Asks
  <2> QED
    BY <1>3, <2>3
<1>4. CASE Conversation(s) # Turns(s) /\ leading # {}
  <2> DEFINE K == DOMAIN s \ {i \in Turns(s) : i < ask /\ i # L}
  <2>1. t = Pick(s, DOMAIN s \ (leading \ {L}))
    BY <1>4 DEF TurnStartsNormalized, Turns, Asks
  <2>2. DOMAIN s \ (leading \ {L}) = K
    OBVIOUS
  <2>3. L \in Turns(s) /\ L < ask
    BY <1>2, <1>4
  <2>4. ask \in Asks(s) /\ (\A b \in Asks(s) : ask <= b) /\ \A i \in Turns(s) : i < ask => i <= L
    BY <1>1, <1>2, <2>3, Placement
  <2>5. t = Pick(s, K) /\ K \subseteq DOMAIN s
    BY <2>1, <2>2
  <2> HIDE DEF t, L, ask
  <2>6. t \in Stream /\ \E m : Embeds(m, s, K, t) /\ Added(m, K, t) = {}
    <3> HIDE DEF K
    <3> QED
      BY <2>5, PickOf
  <2>7. Collapses(s, t)
    BY <2>3, <2>4, <2>6 DEF Collapses
  <2> QED
    BY <2>6, <2>7 DEF t
<1>5. CASE Conversation(s) # Turns(s) /\ leading = {}
  <2>1. t = InsertAt(s, place, Turn(stamp))
    BY <1>5 DEF TurnStartsNormalized, Turns, Asks
  <2>2. place \in DOMAIN s
    BY <1>5, InsertionPlace DEF Turns, Asks
  <2>3. s[place] \in Event /\ s[place].n \in Nat
    BY <2>2, Positions, EventFacts DEF Stream
  <2>4. stamp \in Nat /\ (stamp = 0 \/ (place \in Conversation(s) /\ stamp = s[place].n))
    <3>1. CASE IsGlobal(s[place])
      <4>1. stamp = 0
        BY <3>1
      <4> QED
        BY <4>1
    <3>2. CASE ~IsGlobal(s[place])
      <4>1. stamp = s[place].n
        BY <3>2
      <4>2. place \in Conversation(s)
        BY <2>2, <3>2 DEF Conversation
      <4> HIDE DEF stamp, place
      <4> QED
        BY <2>3, <4>1, <4>2
    <3> QED
      BY <3>1, <3>2
  <2>5. Asks(s) # {} => stamp = s[place].n /\ place \in Asks(s) /\ \A b \in Asks(s) : place <= b
    <3>1. SUFFICES ASSUME Asks(s) # {}
                 PROVE  stamp = s[place].n /\ place \in Asks(s) /\ \A b \in Asks(s) : place <= b
      OBVIOUS
    <3>2. place = ask /\ ask \in Asks(s)
      BY <1>1, <3>1
    <3>3. ~IsGlobal(s[place])
      BY <3>2, Placement DEF IsGlobal
    <3> QED
      BY <1>1, <3>2, <3>3
  <2>6. Asks(s) # {} => \A i \in Turns(s) : i >= place
    <3>1. SUFFICES ASSUME Asks(s) # {}, NEW i \in Turns(s) PROVE i >= place
      OBVIOUS
    <3>2. place = ask /\ i \in Nat
      BY <1>1, <3>1, Placement
    <3> QED
      BY <1>1, <1>5, <3>2
  <2>7. Asks(s) = {} => place = 1
    BY <1>1
  <2>8. place \in Nat /\ place >= 1 /\ place <= Len(s) + 1
    BY <2>2, Positions DEF Stream
  <2>9. Turn(stamp) \in Event
    BY <2>4, NewEvents
  <2> HIDE DEF t, place, stamp
  <2> DEFINE m == [i \in DOMAIN s |-> IF i < place THEN i ELSE i + 1]
  <2>10. t \in Stream /\ Embeds(m, s, DOMAIN s, t) /\ Added(m, DOMAIN s, t) = {place} /\ t[place] = Turn(stamp)
    BY <2>1, <2>8, <2>9, InsertEmbeds
  <2>11. Inserts(s, t)
    BY <2>2, <2>4, <2>5, <2>6, <2>7, <2>10 DEF Inserts
  <2> QED
    BY <1>5, <2>10, <2>11 DEF t
<1> QED
  BY <1>3, <1>4, <1>5

LEMMA NormalizedOpens ==
  ASSUME NEW s \in Stream, Led(s)
  PROVE  LET t == TurnStartsNormalized(s) IN
         t \in Stream /\ Started(t) /\ (Asks(s) # {} => Opening(t) /\ Asks(t) # {})
<1> DEFINE t == TurnStartsNormalized(s)
<1>1. t \in Stream
  BY NormalizedCases
<1>2. \/ t = s /\ Conversation(s) = Turns(s)
      \/ Collapses(s, t)
      \/ Inserts(s, t)
  BY NormalizedCases
<1> HIDE DEF t
<1>3. CASE t = s /\ Conversation(s) = Turns(s)
  <2>1. Asks(s) = {}
    BY <1>3, Placement
  <2>2. Started(s)
    <3>1. \A i \in Conversation(s) : i \in Turns(s) /\ i <= i
      BY <1>3, Placement
    <3> QED
      BY <3>1 DEF Started
  <2> QED
    BY <1>1, <1>3, <2>1, <2>2 DEF t
<1>4. CASE Collapses(s, t)
  <2>1. PICK L \in Turns(s), a \in Asks(s) :
          /\ L < a /\ \A b \in Asks(s) : a <= b
          /\ \E m : /\ Embeds(m, s, DOMAIN s \ {i \in Turns(s) : i < a /\ i # L}, t)
                    /\ Added(m, DOMAIN s \ {i \in Turns(s) : i < a /\ i # L}, t) = {}
    BY <1>4 DEF Collapses
  <2> DEFINE K == DOMAIN s \ {i \in Turns(s) : i < a /\ i # L}
  <2>2. PICK m : Embeds(m, s, K, t) /\ Added(m, K, t) = {}
    BY <2>1
  <2>3. L \in K /\ a \in K
    BY <2>1, Placement
  <2>4. ASSUME NEW i \in K, i \in Conversation(s) PROVE i = L \/ a <= i
    <3>1. CASE i \in Turns(s)
      BY <3>1, Placement
    <3>2. CASE i \notin Turns(s)
      <4>1. PICK b \in Asks(s) : b <= i
        BY <2>4, <3>2 DEF Led
      <4>2. a <= b /\ a \in Nat /\ b \in Nat /\ i \in Nat
        BY <2>1, <2>4, Placement
      <4> QED
        BY <4>1, <4>2
    <3> QED
      BY <3>1, <3>2
  <2> HIDE DEF K
  <2>5. m[L] \in Turns(t) /\ m[a] \in Asks(t) /\ m[L] < m[a]
    BY <1>1, <2>1, <2>2, <2>3, EmbeddedOrder, EmbeddedKinds
  <2>6. ASSUME NEW p \in Conversation(t) PROVE p = m[L] \/ p >= m[a]
    <3>1. p \in DOMAIN t /\ p \in Nat
      BY <1>1, Placement
    <3>2. PICK i \in K : m[i] = p
      BY <1>1, <2>2, <3>1, EmbeddedKinds
    <3>3. i \in Conversation(s)
      BY <1>1, <2>2, <3>2, EmbeddedKinds
    <3>4. i = L \/ a <= i
      BY <2>4, <3>3
    <3>5. a <= i => m[a] <= m[i]
      BY <1>1, <2>2, <2>3, EmbeddedOrder
    <3>6. m[a] \in Nat
      BY <1>1, <2>5, Placement
    <3> QED
      BY <3>1, <3>2, <3>4, <3>5, <3>6
  <2>7. m[L] \in Conversation(t) /\ m[a] \in Conversation(t)
    BY <1>1, <2>5, Placement
  <2>8. Opening(t)
    BY <2>5, <2>6, <2>7 DEF Opening
  <2> QED
    BY <1>1, <2>8, OpeningStarts DEF t
<1>5. CASE Inserts(s, t)
  <2>1. PICK place \in DOMAIN s, stamp \in Nat :
          LET m == [i \in DOMAIN s |-> IF i < place THEN i ELSE i + 1] IN
          /\ Embeds(m, s, DOMAIN s, t) /\ Added(m, DOMAIN s, t) = {place} /\ t[place] = Turn(stamp)
          /\ Asks(s) = {} => place = 1
          /\ Asks(s) # {} => /\ place \in Asks(s) /\ \A b \in Asks(s) : place <= b
                             /\ stamp = s[place].n
                             /\ \A i \in Turns(s) : i >= place
    BY <1>5 DEF Inserts
  <2> DEFINE m == [i \in DOMAIN s |-> IF i < place THEN i ELSE i + 1]
  <2>2. Embeds(m, s, DOMAIN s, t) /\ Added(m, DOMAIN s, t) = {place}
    BY <2>1
  <2>3. place \in Turns(t) /\ place \in Nat /\ place >= 1
    <3>1. place \in DOMAIN t
      BY <2>2 DEF Added
    <3> QED
      BY <1>1, <2>1, <3>1, Placement, Positions DEF Turn, Stream
  <2>4. CASE Asks(s) = {}
    <3>1. \A p \in Conversation(t) : p \in Nat /\ p >= 1
      BY <1>1, Placement
    <3>2. Started(t)
      BY <2>1, <2>3, <2>4, <3>1 DEF Started
    <3> QED
      BY <1>1, <2>4, <3>2 DEF t
  <2>5. CASE Asks(s) # {}
    <3>1. place \in Asks(s) /\ m[place] = place + 1 /\ m[place] \in Asks(t)
      <4>1. place \in Asks(s) /\ place \in DOMAIN s
        BY <2>1, <2>5
      <4>2. m[place] = place + 1
        BY <2>3, <4>1
      <4> HIDE DEF m
      <4>3. m[place] \in Asks(t)
        BY <1>1, <2>2, <4>1, EmbeddedKinds
      <4> QED
        BY <4>1, <4>2, <4>3
    <3>2. ASSUME NEW i \in Conversation(s) PROVE i >= place
      <4>1. i \in Nat
        BY Placement
      <4>2. CASE i \in Turns(s)
        BY <2>1, <2>5, <4>2
      <4>3. CASE i \notin Turns(s)
        <5>1. PICK b \in Asks(s) : b <= i
          BY <2>5, <4>3 DEF Led
        <5>2. place <= b /\ b \in Nat
          BY <2>1, <2>5, Placement
        <5> QED
          BY <2>3, <4>1, <5>1, <5>2
      <4> QED
        BY <4>2, <4>3
    <3>3. ASSUME NEW p \in Conversation(t) PROVE p = place \/ p >= place + 1
      <4>1. p \in DOMAIN t
        BY <1>1, Placement
      <4>2. CASE p \in Added(m, DOMAIN s, t)
        BY <2>2, <4>2
      <4>3. CASE \E i \in DOMAIN s : m[i] = p
        <5>1. PICK i \in DOMAIN s : m[i] = p
          BY <4>3
        <5>2. i \in Conversation(s)
          BY <1>1, <2>2, <5>1, EmbeddedKinds
        <5>3. i >= place /\ i \in Nat
          BY <3>2, <5>2, Placement
        <5>4. p = i + 1
          BY <2>3, <5>1, <5>3
        <5> QED
          BY <2>3, <5>3, <5>4
      <4> QED
        BY <1>1, <2>2, <4>1, <4>2, <4>3, EmbeddedKinds
    <3> HIDE DEF m
    <3>4. place \in Conversation(t) /\ place + 1 \in Conversation(t) /\ place + 1 \in Asks(t) /\ place < place + 1
      BY <1>1, <2>3, <3>1, Placement
    <3>5. Opening(t)
      BY <2>3, <3>3, <3>4 DEF Opening
    <3> QED
      BY <1>1, <3>5, OpeningStarts DEF t
  <2> QED
    BY <2>4, <2>5
<1> QED
  BY <1>2, <1>3, <1>4, <1>5

\* Whatever a stream is, sanitized it begins with a TurnStart, and with a
\* request behind it if there is one.
LEMMA SanitizedOpens ==
  ASSUME NEW s \in Stream
  PROVE  LET t == Sanitized(s) IN
         t \in Stream /\ Started(t) /\ (Asks(s) # {} => Opening(t) /\ Asks(t) # {})
<1> DEFINE f == BeforeNormalized(s)
           t == TurnStartsNormalized(f)
<1>1. f \in Stream /\ Led(f) /\ (Asks(s) # {} => Asks(f) # {})
  BY BeforeNormalizedLed
<1> HIDE DEF f
<1>2. t \in Stream /\ Started(t) /\ (Asks(f) # {} => Opening(t) /\ Asks(t) # {})
  BY <1>1, NormalizedOpens
<1> HIDE DEF t
<1>3. Sanitized(s) = t
  BY SanitizedIs DEF t, f
<1> QED
  BY <1>1, <1>2, <1>3

-----------------------------------------------------------------------------
(* What the edits keep of the conversation.                                *)

\* All of it up to some event, or at least everything but text at its end.
Leading(K, s) == \A i \in K \cap Conversation(s), j \in Conversation(s) : j <= i => j \in K
Quiet(m, K, t) == \A p \in Added(m, K, t) : IsGlobal(t[p])
Shorter(s, t) == \E K, m : Embeds(m, s, K, t) /\ Quiet(m, K, t) /\ Leading(K, s)
Spoken(K, s) == \A i \in Conversation(s) : s[i].kind \notin {"say", "think"} => i \in K
Spared(s, t) == \E K, m : Embeds(m, s, K, t) /\ Quiet(m, K, t) /\ Leading(K, s) /\ Spoken(K, s)

\* A selection of an initial part of the conversation.
LEMMA PickShorter ==
  ASSUME NEW s \in Stream, NEW K, K \subseteq DOMAIN s, Leading(K, s)
  PROVE  /\ Pick(s, K) \in Stream /\ Shorter(s, Pick(s, K))
         /\ Spoken(K, s) => Spared(s, Pick(s, K))
<1>1. PICK m : Embeds(m, s, K, Pick(s, K)) /\ Added(m, K, Pick(s, K)) = {}
  BY PickOf
<1>2. Quiet(m, K, Pick(s, K))
  BY <1>1 DEF Quiet
<1>3. Pick(s, K) \in Stream
  BY PickOf
<1> QED
  BY <1>1, <1>2, <1>3 DEF Shorter, Spared

LEMMA ChatRequestTrimmedShorter ==
  ASSUME NEW s \in Stream
  PROVE  ChatRequestTrimmed(s) \in Stream /\ Shorter(s, ChatRequestTrimmed(s))
<1> DEFINE last == LastOf(Asks(s))
           K == {i \in DOMAIN s : IsGlobal(s[i]) \/ i < last}
<1>1. ChatRequestTrimmed(s) = Pick(s, K) /\ K \subseteq DOMAIN s
  BY DEF ChatRequestTrimmed, Asks
<1>2. last \in Nat
  <2>1. Asks(s) \subseteq 1 .. Len(s) /\ Len(s) \in Nat
    BY Placement
  <2> QED
    BY <2>1, LastAmong
<1> HIDE DEF last
<1>3. ASSUME NEW i \in K \cap Conversation(s), NEW j \in Conversation(s), j <= i PROVE j \in K
  <2>1. i < last /\ i \in Nat /\ j \in Nat /\ j \in DOMAIN s
    BY <1>3, Placement DEF Conversation
  <2>2. j < last
    BY <1>2, <1>3, <2>1
  <2> QED
    BY <2>1, <2>2
<1>4. Leading(K, s)
  BY <1>3 DEF Leading
<1> HIDE DEF K
<1> QED
  BY <1>1, <1>4, PickShorter

LEMMA RequestPoppedShorter ==
  ASSUME NEW s \in Stream
  PROVE  RequestPopped(s) \in Stream /\ Shorter(s, RequestPopped(s))
<1> DEFINE last == LastOf(Conversation(s))
<1>1. last \in Nat /\ \A j \in Conversation(s) : j <= last
  BY Placement, LastAmong
<1> HIDE DEF last
<1>2. ASSUME NEW R PROVE Pick(s, DOMAIN s \ ({last} \cap R)) \in Stream /\ Shorter(s, Pick(s, DOMAIN s \ ({last} \cap R)))
  <2> DEFINE K == DOMAIN s \ ({last} \cap R)
  <2>1. ASSUME NEW i \in K \cap Conversation(s), NEW j \in Conversation(s), j <= i PROVE j \in K
    <3>1. i <= last /\ i \in Nat /\ j \in Nat /\ j \in DOMAIN s
      BY <1>1, Placement
    <3>2. j = last => i = last
      BY <1>1, <2>1, <3>1
    <3> QED
      BY <3>1, <3>2
  <2>2. Leading(K, s) /\ K \subseteq DOMAIN s
    BY <2>1 DEF Leading
  <2> HIDE DEF K
  <2>3. Pick(s, K) \in Stream /\ Shorter(s, Pick(s, K))
    BY <2>2, PickShorter
  <2> QED
    BY <2>3 DEF K
<1>3. CASE EndsInRequest(s)
  <2>1. DOMAIN s \ {last} = DOMAIN s \ ({last} \cap {last})
    OBVIOUS
  <2>2. RequestPopped(s) = Pick(s, DOMAIN s \ {last})
    BY <1>3 DEF RequestPopped, last
  <2> QED
    BY <1>2, <2>1, <2>2
<1>4. CASE ~EndsInRequest(s)
  <2>1. DOMAIN s \ ({last} \cap {}) = DOMAIN s
    OBVIOUS
  <2>2. Pick(s, DOMAIN s) = s
    BY PickAll, Positions DEF Stream
  <2>3. RequestPopped(s) = s
    BY <1>4 DEF RequestPopped
  <2> QED
    BY <1>2, <2>1, <2>2, <2>3
<1> QED
  BY <1>3, <1>4

LEMMA TrailingTrimmedShorter ==
  ASSUME NEW s \in Stream
  PROVE  TrailingTurnTrimmed(s) \in Stream /\ Shorter(s, TrailingTurnTrimmed(s))
<1> DEFINE K == DOMAIN s \ ({LastOf(Conversation(s))} \cap Turns(s))
           t == TrailingTurnTrimmed(s)
<1>1. /\ t \in Stream /\ K \subseteq DOMAIN s
      /\ \A i \in DOMAIN s : i \notin K => i \in Turns(s) /\ \A j \in Conversation(s) : j <= i
  BY TrailingTrimmedEmbeds
<1>2. PICK m : Embeds(m, s, K, t) /\ Added(m, K, t) = {}
  BY TrailingTrimmedEmbeds
<1> HIDE DEF K, t
<1>3. ASSUME NEW i \in K \cap Conversation(s), NEW j \in Conversation(s), j <= i PROVE j \in K
  <2>1. SUFFICES ASSUME j \notin K PROVE FALSE
    OBVIOUS
  <2>2. j \in DOMAIN s /\ j \in Nat /\ i \in Nat
    BY Placement
  <2>3. i <= j
    BY <1>1, <2>1, <2>2
  <2>4. i = j
    BY <1>3, <2>2, <2>3
  <2> QED
    BY <2>1, <2>4
<1>4. Leading(K, s) /\ Quiet(m, K, t)
  BY <1>2, <1>3 DEF Leading, Quiet
<1> QED
  BY <1>1, <1>2, <1>4 DEF Shorter, t

LEMMA ResponsesPoppedSpared ==
  ASSUME NEW s \in Stream
  PROVE  ResponsesPopped(s) \in Stream /\ Spared(s, ResponsesPopped(s))
<1> DEFINE others == Conversation(s) \ Where(s, {"say", "think"})
           stop == LastOf(others)
           K == {i \in DOMAIN s : IsGlobal(s[i]) \/ i <= stop}
<1>1. ResponsesPopped(s) = Pick(s, K) /\ K \subseteq DOMAIN s
  BY DEF ResponsesPopped
<1>2. stop \in Nat /\ \A i \in others : i <= stop
  BY Placement, LastAmong
<1>3. /\ others \subseteq Conversation(s)
      /\ \A i \in Conversation(s) : s[i].kind \notin {"say", "think"} => i \in others
  BY DEF Where
<1> HIDE DEF stop, others
<1>4. ASSUME NEW i \in K \cap Conversation(s), NEW j \in Conversation(s), j <= i PROVE j \in K
  <2>1. i <= stop /\ i \in Nat /\ j \in Nat /\ j \in DOMAIN s
    BY <1>4, Placement DEF Conversation
  <2>2. j <= stop
    BY <1>2, <1>4, <2>1
  <2> QED
    BY <2>1, <2>2
<1>5. Leading(K, s) /\ Spoken(K, s)
  <2>1. \A i \in others : i \in K
    BY <1>2, <1>3, Placement
  <2> QED
    BY <1>3, <1>4, <2>1 DEF Leading, Spoken
<1> HIDE DEF K
<1> QED
  BY <1>1, <1>5, PickShorter

\* The overlays are not part of the conversation.
LEMMA ResetSpared ==
  ASSUME NEW s \in Stream, NEW removed, removed \subseteq Overlays(s)
  PROVE  LET t == Pick(s, DOMAIN s \ removed) IN t \in Stream /\ Spared(s, t)
<1> DEFINE K == DOMAIN s \ removed
<1>1. Conversation(s) \subseteq K
  BY DEF Conversation, Overlays, Where, IsGlobal
<1>2. Leading(K, s) /\ Spoken(K, s) /\ K \subseteq DOMAIN s
  BY <1>1 DEF Leading, Spoken
<1> HIDE DEF K
<1>3. Pick(s, K) \in Stream /\ Spared(s, Pick(s, K))
  BY <1>2, PickShorter
<1> QED
  BY <1>3 DEF K

LEMMA ExtendedSpared ==
  ASSUME NEW first \in Values, NEW s \in Stream
  PROVE  Extended(first, s) \in Stream /\ Spared(s, Extended(first, s))
<1> DEFINE t == Extended(first, s)
<1>1. t \in Stream
  BY ExtendedEmbeds
<1>2. PICK m : Copied(m, s, t)
  BY ExtendedEmbeds
<1> HIDE DEF t
<1>3. Embeds(m, s, Conversation(s), t) /\ Quiet(m, Conversation(s), t)
  BY <1>2 DEF Copied, Quiet, IsGlobal
<1>4. Leading(Conversation(s), s) /\ Spoken(Conversation(s), s)
  BY DEF Leading, Spoken
<1>5. Spared(s, t)
  BY <1>3, <1>4 DEF Spared
<1> QED
  BY <1>1, <1>5 DEF t

\* What is appended is global, or does not begin a turn.
LEMMA AppendedSpared ==
  ASSUME NEW s \in Stream, NEW u \in Stream, \A q \in DOMAIN u : IsGlobal(u[q])
  PROVE  s \o u \in Stream /\ Spared(s, s \o u)
<1> DEFINE m == [i \in DOMAIN s |-> i]
           t == s \o u
<1>1. /\ t \in Stream /\ Embeds(m, s, DOMAIN s, t)
      /\ \A p \in Added(m, DOMAIN s, t) : p - Len(s) \in DOMAIN u /\ t[p] = u[p - Len(s)]
  BY ConcatEmbeds
<1> HIDE DEF m, t
<1>2. Quiet(m, DOMAIN s, t)
  BY <1>1 DEF Quiet
<1>3. Leading(DOMAIN s, s) /\ Spoken(DOMAIN s, s)
  BY Placement DEF Leading, Spoken
<1>4. Spared(s, t)
  BY <1>1, <1>2, <1>3 DEF Spared
<1> QED
  BY <1>1, <1>4 DEF t

\* A command that compacts appends its overlays.
LEMMA CompactedAppends ==
  ASSUME NEW s \in Stream, WellRanged(s), NEW n \in Nat, NEW rules \in Seq(Rule)
  PROVE  \E u \in Stream : Compacted(s, rules, n) = s \o u /\ \A q \in DOMAIN u : u[q].kind = "overlay"
<1>1. PICK f : Compacting(f, s, rules, n)
  BY CompactionDefined
<1> DEFINE Made1(t) == \E u \in Stream : t = s \o u /\ \A q \in DOMAIN u : u[q].kind = "overlay"
           T == {k \in 0 .. Len(rules) : Made1(f[k])}
<1>2. Len(rules) \in Nat
  OBVIOUS
<1>3. 0 \in T
  <2>1. f[0] = s \o <<>> /\ <<>> \in Stream
    BY <1>1 DEF Compacting, Stream
  <2>2. DOMAIN <<>> = {}
    OBVIOUS
  <2>3. \A q \in DOMAIN <<>> : <<>>[q].kind = "overlay"
    BY <2>2
  <2>4. Made1(f[0])
    BY <2>1, <2>3, Zenon
  <2> QED
    BY <1>2, <2>4
<1>4. ASSUME NEW k \in 0 .. Len(rules) - 1, k \in T PROVE k + 1 \in T
  <2>1. k + 1 \in 1 .. Len(rules) /\ k + 1 \in 0 .. Len(rules) /\ (k + 1) - 1 = k /\ k \in 0 .. Len(rules)
    BY <1>2
  <2>2. f[k + 1] = CompactStep(s, n, f[k], rules[k + 1])
    BY <1>1, <2>1 DEF Compacting
  <2> DEFINE before == f[k]
             rule == rules[k + 1]
             e == NewOverlayOf(s, n, before, rule)
  <2>3. before \in Stream /\ WellRanged(before) /\ rule \in Rule
    BY <1>1, <1>4, <2>1 DEF Compacting
  <2>6. e \in Event /\ e.kind = "overlay"
    <3> HIDE DEF before, rule, T
    <3>1. before \in Stream
      BY <2>3
    <3>2. WellRanged(before)
      BY <2>3
    <3>3. rule \in Rule
      BY <2>3
    <3> QED
      BY <3>1, <3>2, <3>3, CompactStepTyped
  <2>4. PICK u \in Stream : before = s \o u /\ \A q \in DOMAIN u : u[q].kind = "overlay"
    BY <1>4
  <2>5. f[k + 1] = Append(before, e)
    BY <2>2 DEF CompactStep
  <2> HIDE DEF before, rule, e
  <2>7. Append(u, e) \in Stream /\ \A q \in DOMAIN Append(u, e) : Append(u, e)[q].kind = "overlay"
    BY <2>4, <2>6 DEF Stream
  <2>8. Append(s \o u, e) = s \o Append(u, e)
    <3>1. s \in Seq(Event) /\ u \in Seq(Event)
      BY DEF Stream
    <3> QED
      BY <2>6, <3>1
  <2>9. Made1(f[k + 1])
    BY <2>4, <2>5, <2>7, <2>8
  <2> QED
    BY <2>1, <2>9
<1> HIDE DEF T
<1>5. Len(rules) \in T
  BY <1>2, <1>3, <1>4, InductionUpTo
<1> QED
  BY <1>1, <1>5 DEF T, Compacting

LEMMA CompactedSpared ==
  ASSUME NEW s \in Stream, WellRanged(s), NEW n \in Nat, NEW rules \in Seq(Rule)
  PROVE  Compacted(s, rules, n) \in Stream /\ Spared(s, Compacted(s, rules, n))
<1>1. PICK u \in Stream : Compacted(s, rules, n) = s \o u /\ \A q \in DOMAIN u : u[q].kind = "overlay"
  BY CompactedAppends
<1>2. \A q \in DOMAIN u : IsGlobal(u[q])
  BY <1>1 DEF IsGlobal
<1> QED
  BY <1>1, <1>2, AppendedSpared

-----------------------------------------------------------------------------
(* Turns begin with their request.                                         *)

\* Directly behind the TurnStart at i is the request made with it.
Direct(s, i) ==
  \E k \in Asks(s) : i < k /\ s[k].n = s[i].n /\ \A l \in Conversation(s) : l <= i \/ k <= l

\* So is behind every TurnStart with anything but TurnStarts before it, except
\* the last event where the end has been cut off.
Speech(s) == Conversation(s) \ Turns(s)
Directed(s) == \A i \in Turns(s), a \in Speech(s) : a < i => Direct(s, i)
AlmostDirected(s) ==
  \A i \in Turns(s), a \in Speech(s) : a < i => Direct(s, i) \/ \A l \in Conversation(s) : l <= i

LEMMA SpeechPlaces ==
  ASSUME NEW s \in Stream
  PROVE  /\ Asks(s) \subseteq Speech(s)
         /\ \A i \in Speech(s) : i \in DOMAIN s /\ i \in Nat /\ i \in Conversation(s) /\ i \notin Turns(s)
BY Placement DEF Speech

LEMMA EmbeddedSpeech ==
  ASSUME NEW s \in Stream, NEW t \in Stream, NEW K, NEW m, Embeds(m, s, K, t), NEW i \in K
  PROVE  i \in Speech(s) <=> m[i] \in Speech(t)
BY EmbeddedKinds DEF Speech

LEMMA DirectKept ==
  ASSUME NEW s \in Stream, NEW t \in Stream, NEW K, NEW m, Embeds(m, s, K, t),
         NEW i \in K \cap Conversation(s), NEW k \in K \cap Asks(s),
         i < k, s[k].n = s[i].n, \A l \in Conversation(s) : l <= i \/ k <= l,
         \A p \in Added(m, K, t) \cap Conversation(t) : p <= m[i] \/ m[k] <= p
  PROVE  Direct(t, m[i])
<1>1. m[i] < m[k] /\ m[k] \in Asks(t) /\ t[m[k]] = s[k] /\ t[m[i]] = s[i]
  BY EmbeddedOrder, EmbeddedKinds
<1>2. ASSUME NEW p \in Conversation(t) PROVE p <= m[i] \/ m[k] <= p
  <2>1. p \in DOMAIN t
    BY Placement
  <2>2. CASE \E l \in K : m[l] = p
    <3>1. PICK l \in K : m[l] = p
      BY <2>2
    <3>2. l \in Conversation(s)
      BY <3>1, EmbeddedKinds
    <3>3. (l <= i => m[l] <= m[i]) /\ (k <= l => m[k] <= m[l])
      BY EmbeddedOrder
    <3> QED
      BY <3>1, <3>2, <3>3
  <2> QED
    BY <2>1, <2>2, EmbeddedKinds
<1> QED
  BY <1>1, <1>2 DEF Direct

\* No TurnStart and no request is new, and nothing new comes between the two.
LEMMA DirectedKept ==
  ASSUME NEW s \in Stream, NEW t \in Stream, NEW K, NEW m, Embeds(m, s, K, t),
         \A p \in Added(m, K, t) : t[p].kind \notin {"turn", "ask"},
         \A p \in Added(m, K, t) \cap Conversation(t) : \E c \in K \cap Speech(s) : m[c] < p,
         \A i \in K \cap Turns(s), a \in K \cap Speech(s) : a < i =>
           \E k \in K \cap Asks(s) :
             /\ i < k /\ s[k].n = s[i].n /\ \A l \in Conversation(s) : l <= i \/ k <= l
             /\ \A p \in Added(m, K, t) \cap Conversation(t) : p <= m[i] \/ m[k] <= p
  PROVE  Directed(t)
<1>1. SUFFICES ASSUME NEW q \in Turns(t), NEW b \in Speech(t), b < q PROVE Direct(t, q)
  BY DEF Directed
<1>2. /\ q \in DOMAIN t /\ t[q].kind = "turn" /\ q \in Nat
      /\ b \in DOMAIN t /\ b \in Nat /\ b \in Conversation(t)
  BY Placement, SpeechPlaces
<1>3. PICK i \in K : m[i] = q
  BY <1>2, EmbeddedKinds
<1>4. PICK a \in K \cap Speech(s) : m[a] <= b
  <2>1. CASE b \in Added(m, K, t)
    <3>1. PICK c \in K \cap Speech(s) : m[c] < b
      BY <1>2, <2>1
    <3>2. m[c] \in Nat
      BY EmbeddedKinds, Positions DEF Stream
    <3> QED
      BY <1>2, <3>1, <3>2
  <2>2. CASE b \notin Added(m, K, t)
    <3>1. PICK a \in K : m[a] = b
      BY <1>2, <2>2, EmbeddedKinds
    <3>2. a \in Speech(s)
      BY <3>1, EmbeddedSpeech
    <3> QED
      BY <1>2, <3>1, <3>2
  <2> QED
    BY <2>1, <2>2
<1>11. i \in Turns(s) /\ a < i
  <2>1. m[a] \in Nat /\ m[a] < m[i]
    <3>1. m[a] \in Nat
      BY EmbeddedKinds, Positions DEF Stream
    <3> QED
      BY <1>1, <1>2, <1>3, <1>4, <3>1
  <2> QED
    BY <1>3, <1>4, <2>1, EmbeddedKinds, EmbeddedOrder
<1>5. PICK k \in K \cap Asks(s) :
        /\ i < k /\ s[k].n = s[i].n /\ \A l \in Conversation(s) : l <= i \/ k <= l
        /\ \A p \in Added(m, K, t) \cap Conversation(t) : p <= m[i] \/ m[k] <= p
  BY <1>3, <1>4, <1>11
<1>6. i \in Conversation(s)
  BY <1>11, Placement
<1>7. Direct(t, m[i])
  BY <1>3, <1>5, <1>6, DirectKept
<1> QED
  BY <1>3, <1>7

LEMMA DirectedSpared ==
  ASSUME NEW s \in Stream, NEW t \in Stream, Spared(s, t), Directed(s)
  PROVE  Directed(t)
<1>0. PICK K, m : Embeds(m, s, K, t) /\ Quiet(m, K, t) /\ Leading(K, s) /\ Spoken(K, s)
  BY DEF Spared
<1>1. /\ Embeds(m, s, K, t) /\ Quiet(m, K, t)
      /\ Asks(s) \subseteq K /\ Turns(s) \subseteq K
  BY <1>0, Placement DEF Spoken
<1>2. \A p \in Added(m, K, t) : t[p].kind \notin {"turn", "ask"} /\ p \notin Conversation(t)
  BY <1>1 DEF Quiet, Conversation, IsGlobal
<1>3. ASSUME NEW i \in K \cap Turns(s), NEW a \in K \cap Speech(s), a < i
      PROVE  \E k \in K \cap Asks(s) :
               /\ i < k /\ s[k].n = s[i].n /\ \A l \in Conversation(s) : l <= i \/ k <= l
               /\ \A p \in Added(m, K, t) \cap Conversation(t) : p <= m[i] \/ m[k] <= p
  BY <1>1, <1>2, <1>3 DEF Directed, Direct
<1> QED
  BY <1>1, <1>2, <1>3, DirectedKept

\* Cut short, a TurnStart may be left at the end without its request.
LEMMA DirectedShorter ==
  ASSUME NEW s \in Stream, NEW t \in Stream, Shorter(s, t), Directed(s)
  PROVE  AlmostDirected(t)
<1>1. PICK K, m : Embeds(m, s, K, t) /\ Quiet(m, K, t) /\ Leading(K, s)
  BY DEF Shorter
<1>2. \A p \in Added(m, K, t) : t[p].kind \notin {"turn", "ask"} /\ p \notin Conversation(t)
  BY <1>1 DEF Quiet, Conversation, IsGlobal
<1>3. SUFFICES ASSUME NEW q \in Turns(t), NEW b \in Speech(t), b < q
               PROVE  Direct(t, q) \/ \A l \in Conversation(t) : l <= q
  BY DEF AlmostDirected
<1>4. q \in DOMAIN t /\ t[q].kind = "turn" /\ b \in DOMAIN t /\ b \in Conversation(t)
  BY Placement, SpeechPlaces
<1>5. PICK i \in K, a \in K : m[i] = q /\ m[a] = b
  BY <1>1, <1>2, <1>4, EmbeddedKinds
<1>6. i \in Turns(s) /\ a \in Speech(s) /\ a < i /\ i \in Conversation(s)
  BY <1>1, <1>3, <1>5, EmbeddedKinds, EmbeddedSpeech, EmbeddedOrder, Placement
<1>7. PICK k \in Asks(s) : i < k /\ s[k].n = s[i].n /\ \A l \in Conversation(s) : l <= i \/ k <= l
  BY <1>6 DEF Directed, Direct
<1>8. CASE k \in K
  <2>1. Direct(t, m[i])
    BY <1>1, <1>2, <1>5, <1>6, <1>7, <1>8, DirectKept
  <2> QED
    BY <1>5, <2>1
<1>9. CASE k \notin K
  <2>1. ASSUME NEW p \in Conversation(t) PROVE p <= q
    <3>0. p \in DOMAIN t /\ p \notin Added(m, K, t)
      BY <1>2, Placement
    <3>1. PICK l \in K : m[l] = p
      BY <1>1, <3>0, EmbeddedKinds
    <3>2. l \in Conversation(s)
      BY <1>1, <3>1, EmbeddedKinds
    <3>3. ~(k <= l)
      <4>1. k \in Conversation(s)
        BY <1>7, Placement
      <4> QED
        BY <1>1, <1>9, <3>1, <3>2, <4>1 DEF Leading
    <3>4. l <= i
      BY <1>7, <3>2, <3>3
    <3> QED
      BY <1>1, <1>5, <3>1, <3>4, EmbeddedOrder
  <2> QED
    BY <2>1
<1> QED
  BY <1>8, <1>9

\* The trim of a trailing TurnStart takes care of it.
LEMMA DirectedTrailingTrimmed ==
  ASSUME NEW s \in Stream, AlmostDirected(s)
  PROVE  Directed(TrailingTurnTrimmed(s))
<1> DEFINE K == DOMAIN s \ ({LastOf(Conversation(s))} \cap Turns(s))
           t == TrailingTurnTrimmed(s)
           last == LastOf(Conversation(s))
<1>1. /\ t \in Stream /\ Asks(s) \subseteq K
      /\ \A i \in DOMAIN s : i \notin Turns(s) => i \in K
  BY TrailingTrimmedEmbeds
<1>2. PICK m : Embeds(m, s, K, t) /\ Added(m, K, t) = {}
  BY TrailingTrimmedEmbeds
<1>3. ASSUME NEW i \in K \cap Turns(s) PROVE ~\A l \in Conversation(s) : l <= i
  <2>1. Conversation(s) # {} /\ i \in Conversation(s)
    BY Placement
  <2>2. last \in Conversation(s) /\ i <= last /\ last \in Nat /\ i \in Nat
    BY <2>1, Placement, LastAmong
  <2>3. i # last
    OBVIOUS
  <2> QED
    BY <2>2, <2>3
<1> HIDE DEF K, t, last
<1>4. ASSUME NEW i \in K \cap Turns(s), NEW a \in K \cap Speech(s), a < i
      PROVE  \E k \in K \cap Asks(s) :
               /\ i < k /\ s[k].n = s[i].n /\ \A l \in Conversation(s) : l <= i \/ k <= l
               /\ \A p \in Added(m, K, t) \cap Conversation(t) : p <= m[i] \/ m[k] <= p
  BY <1>1, <1>2, <1>3, <1>4 DEF AlmostDirected, Direct
<1>5. \A p \in Added(m, K, t) : t[p].kind \notin {"turn", "ask"}
  BY <1>2
<1>6. Directed(t)
  BY <1>1, <1>2, <1>4, <1>5, DirectedKept
<1> QED
  BY <1>6 DEF t

\* A selection with every request.
LEMMA DirectedSelected ==
  ASSUME NEW s \in Stream, NEW t \in Stream, NEW K, NEW m, Embeds(m, s, K, t), Added(m, K, t) = {},
         Asks(s) \subseteq K, Directed(s)
  PROVE  Directed(t)
<1>1. ASSUME NEW i \in K \cap Turns(s), NEW a \in K \cap Speech(s), a < i
      PROVE  \E k \in K \cap Asks(s) :
               /\ i < k /\ s[k].n = s[i].n /\ \A l \in Conversation(s) : l <= i \/ k <= l
               /\ \A p \in Added(m, K, t) \cap Conversation(t) : p <= m[i] \/ m[k] <= p
  BY <1>1 DEF Directed, Direct
<1>2. \A p \in Added(m, K, t) : t[p].kind \notin {"turn", "ask"}
  OBVIOUS
<1> QED
  BY <1>1, <1>2, DirectedKept

LEMMA DirectedOrphansRemoved ==
  ASSUME NEW s \in Stream, Directed(s), NEW kind \in Identified, NEW partner
  PROVE  LET t == OrphansRemoved(s, kind, partner) IN t \in Stream /\ Directed(t)
<1> DEFINE t == OrphansRemoved(s, kind, partner)
           K == {i \in DOMAIN s : s[i].kind = kind => s[i].id \in Ids(s, partner)}
<1>1. t \in Stream /\ Asks(s) \subseteq K
  BY OrphansRemovedEmbeds
<1>2. PICK m : Embeds(m, s, K, t) /\ Added(m, K, t) = {}
  BY OrphansRemovedEmbeds
<1> HIDE DEF K, t
<1>3. Directed(t)
  BY <1>1, <1>2, DirectedSelected
<1> QED
  BY <1>1, <1>3 DEF t

LEMMA DirectedLeadingDropped ==
  ASSUME NEW s \in Stream, Directed(s)
  PROVE  LET t == LeadingDropped(s) IN t \in Stream /\ Directed(t)
<1> DEFINE t == LeadingDropped(s)
           ask == FirstOf(Asks(s))
           K == {i \in DOMAIN s : i >= ask \/ IsGlobal(s[i]) \/ s[i].kind = "turn"}
<1>1. t \in Stream /\ Asks(s) \subseteq K
  BY LeadingDroppedLed
<1>2. PICK m : Embeds(m, s, K, t) /\ Added(m, K, t) = {}
  BY LeadingDroppedLed
<1> HIDE DEF K, t
<1>3. Directed(t)
  BY <1>1, <1>2, DirectedSelected
<1> QED
  BY <1>1, <1>3 DEF t

LEMMA DirectedCallsAnswered ==
  ASSUME NEW s \in Stream, Directed(s)
  PROVE  LET t == CallsAnswered(s) IN t \in Stream /\ Directed(t)
<1> DEFINE t == CallsAnswered(s)
<1>1. t \in Stream
  BY CallsAnsweredEmbeds
<1>2. PICK m : Answers(m, s, t)
  BY CallsAnsweredEmbeds
<1> HIDE DEF t
<1>3. Embeds(m, s, DOMAIN s, t)
  BY <1>2 DEF Answers
<1>4. ASSUME NEW p \in Added(m, DOMAIN s, t)
      PROVE  \E c \in DOMAIN s : s[c].kind = "call" /\ p = m[c] + 1 /\ t[p].kind = "result"
  <2>1. PICK c \in DOMAIN s : Open(s, c) /\ p = m[c] + 1
    BY <1>2 DEF Answers
  <2>2. t[p] = AnswerTo(s, c)
    BY <1>2, <2>1 DEF Answers
  <2> QED
    BY <2>1, <2>2 DEF Open, AnswerTo, Paired
<1>5. \A p \in Added(m, DOMAIN s, t) : t[p].kind \notin {"turn", "ask"}
  BY <1>4
<1>8. ASSUME NEW p \in Added(m, DOMAIN s, t) \cap Conversation(t)
      PROVE  \E c \in DOMAIN s \cap Speech(s) : m[c] < p
  <2>1. PICK c \in DOMAIN s : s[c].kind = "call" /\ p = m[c] + 1
    BY <1>4
  <2>2. c \in Speech(s)
    BY <2>1, Placement DEF Speech
  <2>3. m[c] \in Nat
    BY <1>1, <1>3, EmbeddedKinds, Positions DEF Stream
  <2> QED
    BY <2>1, <2>2, <2>3
<1>6. ASSUME NEW i \in DOMAIN s \cap Turns(s), NEW a \in DOMAIN s \cap Speech(s), a < i
      PROVE  \E k \in DOMAIN s \cap Asks(s) :
               /\ i < k /\ s[k].n = s[i].n /\ \A l \in Conversation(s) : l <= i \/ k <= l
               /\ \A p \in Added(m, DOMAIN s, t) \cap Conversation(t) : p <= m[i] \/ m[k] <= p
  <2>0. PICK k \in Asks(s) : i < k /\ s[k].n = s[i].n /\ \A l \in Conversation(s) : l <= i \/ k <= l
    BY <1>6 DEF Directed, Direct
  <2>1. /\ k \in DOMAIN s /\ i < k /\ s[k].n = s[i].n
        /\ \A l \in Conversation(s) : l <= i \/ k <= l
    BY <2>0, Placement
  <2>2. ASSUME NEW p \in Added(m, DOMAIN s, t) PROVE p <= m[i] \/ m[k] <= p
    <3>1. PICK c \in DOMAIN s : s[c].kind = "call" /\ p = m[c] + 1
      BY <1>4
    <3>2. c \in Conversation(s) /\ c \notin Turns(s) /\ c \notin Asks(s)
      BY <3>1, Placement
    <3>3. c <= i \/ k <= c
      BY <2>1, <3>2
    <3>4. c # i
      BY <3>2
    <3>5. c \in Nat /\ i \in Nat /\ k \in Nat
      BY <2>1, <3>2, Placement
    <3>6. c < i \/ k <= c
      BY <3>3, <3>4, <3>5
    <3>7. (c < i => m[c] < m[i]) /\ (k <= c => m[k] <= m[c])
      BY <1>1, <1>3, <2>1, EmbeddedOrder
    <3>8. m[c] \in Nat /\ m[i] \in Nat /\ m[k] \in Nat
      <4>1. m[c] \in DOMAIN t /\ m[i] \in DOMAIN t /\ m[k] \in DOMAIN t
        BY <1>3, <2>1 DEF Embeds
      <4> QED
        BY <1>1, <4>1, Positions DEF Stream
    <3> QED
      BY <3>1, <3>6, <3>7, <3>8
  <2> QED
    BY <2>1, <2>2
<1>7. Directed(t)
  BY <1>1, <1>3, <1>5, <1>6, <1>8, DirectedKept
<1> QED
  BY <1>1, <1>7 DEF t

LEMMA DirectedNormalized ==
  ASSUME NEW s \in Stream, Directed(s)
  PROVE  Directed(TurnStartsNormalized(s))
<1> DEFINE t == TurnStartsNormalized(s)
<1>1. t \in Stream /\ (t = s \/ Collapses(s, t) \/ Inserts(s, t))
  BY NormalizedCases
<1> SUFFICES Directed(t)
  OBVIOUS
<1> HIDE DEF t
<1>2. CASE Collapses(s, t)
  <2>1. PICK L \in Turns(s), a \in Asks(s) :
          \E m : /\ Embeds(m, s, DOMAIN s \ {i \in Turns(s) : i < a /\ i # L}, t)
                 /\ Added(m, DOMAIN s \ {i \in Turns(s) : i < a /\ i # L}, t) = {}
    BY <1>2 DEF Collapses
  <2> DEFINE K == DOMAIN s \ {i \in Turns(s) : i < a /\ i # L}
  <2>2. PICK m : Embeds(m, s, K, t) /\ Added(m, K, t) = {}
    BY <2>1
  <2>3. Asks(s) \subseteq K
    BY Placement
  <2> HIDE DEF K
  <2> QED
    BY <1>1, <2>2, <2>3, DirectedSelected
<1>3. CASE Inserts(s, t)
  <2>1. PICK place \in DOMAIN s, stamp \in Nat :
          LET m == [i \in DOMAIN s |-> IF i < place THEN i ELSE i + 1] IN
          /\ Embeds(m, s, DOMAIN s, t) /\ Added(m, DOMAIN s, t) = {place} /\ t[place] = Turn(stamp)
          /\ Asks(s) = {} => place = 1
          /\ Asks(s) # {} => /\ place \in Asks(s) /\ \A b \in Asks(s) : place <= b
                             /\ stamp = s[place].n
                             /\ \A i \in Turns(s) : i >= place
    BY <1>3 DEF Inserts
  <2> DEFINE m == [i \in DOMAIN s |-> IF i < place THEN i ELSE i + 1]
  <2>2. Embeds(m, s, DOMAIN s, t) /\ Added(m, DOMAIN s, t) = {place}
    BY <2>1
  <2>3. place \in Nat
    BY Positions DEF Stream
  <2>4. \A i \in DOMAIN s : i \in Nat /\ (place <= i => m[i] = i + 1) /\ (i < place => m[i] = i)
    BY <2>3, Positions DEF Stream
  <2>5. t[place].kind = "turn" /\ t[place].n = stamp
    BY <2>1 DEF Turn
  <2>17. \A i \in Turns(s) : place <= i
    <3>1. CASE Asks(s) = {}
      BY <2>1, <3>1, Placement
    <3>2. CASE Asks(s) # {}
      BY <2>1, <2>3, <3>2, Placement
    <3> QED
      BY <3>1, <3>2
  <2> HIDE DEF m
  <2>6. SUFFICES ASSUME NEW q \in Turns(t), NEW b \in Speech(t), b < q PROVE Direct(t, q)
    BY DEF Directed
  <2>7. /\ q \in DOMAIN t /\ q \in Nat /\ b \in DOMAIN t /\ b \in Conversation(t) /\ b \in Nat
        /\ b \notin Turns(t)
    BY <1>1, Placement, SpeechPlaces
  <2>8. b # place
    BY <1>1, <2>5, <2>7, Placement
  <2>9. PICK a \in DOMAIN s : m[a] = b
    BY <1>1, <2>2, <2>7, <2>8, EmbeddedKinds
  <2>10. a \in Speech(s) /\ a \in Nat
    BY <1>1, <2>2, <2>9, EmbeddedSpeech, SpeechPlaces
  <2>11. CASE q = place
    <3>1. Asks(s) # {}
      BY <2>1, <2>4, <2>6, <2>9, <2>10, <2>11, Placement
    <3>2. place \in Asks(s) /\ s[place].n = stamp
      BY <2>1, <3>1
    <3>3. m[place] = place + 1 /\ place + 1 \in Asks(t) /\ t[place + 1] = s[place]
      BY <1>1, <2>2, <2>3, <2>4, <3>2, EmbeddedKinds
    <3>4. \A l \in Conversation(t) : l <= place \/ place + 1 <= l
      BY <1>1, <2>3, Placement
    <3>5. place < place + 1
      BY <2>3
    <3> QED
      BY <2>5, <2>11, <3>2, <3>3, <3>4, <3>5 DEF Direct
  <2>12. CASE q # place
    <3>1. PICK i \in DOMAIN s : m[i] = q
      BY <1>1, <2>2, <2>7, <2>12, EmbeddedKinds
    <3>2. i \in Turns(s) /\ a < i /\ i \in Conversation(s)
      BY <1>1, <2>2, <2>6, <2>9, <3>1, EmbeddedKinds, EmbeddedOrder, Placement
    <3>3. PICK k \in Asks(s) : i < k /\ s[k].n = s[i].n /\ \A l \in Conversation(s) : l <= i \/ k <= l
      BY <2>10, <3>2 DEF Directed, Direct
    <3>4. place <= m[i]
      BY <2>3, <2>4, <2>17, <3>2
    <3>5. k \in DOMAIN s
      BY <3>3, Placement
    <3>6. \A p \in Added(m, DOMAIN s, t) \cap Conversation(t) : p <= m[i] \/ m[k] <= p
      BY <2>2, <3>4
    <3> QED
      BY <1>1, <2>2, <3>1, <3>2, <3>3, <3>5, <3>6, DirectKept
  <2> QED
    BY <2>11, <2>12
<1> QED
  BY <1>1, <1>2, <1>3

LEMMA DirectedSanitized == ASSUME NEW s \in Stream, Directed(s) PROVE Directed(Sanitized(s))
<1> DEFINE s1 == LeadingDropped(s)
           s2 == OrphansRemoved(s1, "result", "call")
           s3 == CallsAnswered(s2)
           s4 == OrphansRemoved(s3, "answer", "question")
           s5 == OrphansRemoved(s4, "question", "answer")
           s6 == TrailingTurnTrimmed(s5)
<1>1. Sanitized(s) = TurnStartsNormalized(s6)
  BY DEF Sanitized
<1>2. s1 \in Stream /\ Directed(s1)
  BY DirectedLeadingDropped
<1> HIDE DEF s1
<1>3. s2 \in Stream /\ Directed(s2)
  BY <1>2, DirectedOrphansRemoved DEF Identified
<1> HIDE DEF s2
<1>4. s3 \in Stream /\ Directed(s3)
  BY <1>3, DirectedCallsAnswered
<1> HIDE DEF s3
<1>5. s4 \in Stream /\ Directed(s4)
  BY <1>4, DirectedOrphansRemoved DEF Identified
<1> HIDE DEF s4
<1>6. s5 \in Stream /\ Directed(s5)
  BY <1>5, DirectedOrphansRemoved DEF Identified
<1> HIDE DEF s5
<1>7. s6 \in Stream /\ Directed(s6)
  BY <1>6, TrailingTrimmedShorter, DirectedTrailingTrimmed DEF AlmostDirected, Directed
<1> HIDE DEF s6
<1> QED
  BY <1>1, <1>7, DirectedNormalized

\* Appended TurnStarts have their request behind them.
LEMMA DirectedAppended ==
  ASSUME NEW s \in Stream, NEW u \in Stream, Directed(s),
         \A q \in DOMAIN u : u[q].kind = "turn" => Direct(s \o u, Len(s) + q)
  PROVE  Directed(s \o u)
<1> DEFINE m == [i \in DOMAIN s |-> i]
           t == s \o u
<1>1. /\ t \in Stream /\ Embeds(m, s, DOMAIN s, t) /\ \A i \in DOMAIN s : m[i] = i
      /\ \A p \in Added(m, DOMAIN s, t) :
           p - Len(s) \in DOMAIN u /\ p \in Len(s) + 1 .. Len(s) + Len(u) /\ t[p] = u[p - Len(s)]
  BY ConcatEmbeds
<1>2. Len(s) \in Nat /\ \A i \in DOMAIN s : i \in Nat /\ i <= Len(s)
  BY Positions DEF Stream
<1>3. \A q \in DOMAIN u : u[q].kind = "turn" => Direct(t, Len(s) + q)
  OBVIOUS
<1> HIDE DEF m, t
<1>4. SUFFICES ASSUME NEW q \in Turns(t), NEW b \in Speech(t), b < q PROVE Direct(t, q)
  BY DEF Directed, t
<1>5. q \in DOMAIN t /\ b \in DOMAIN t /\ t[q].kind = "turn" /\ q \in Nat /\ b \in Nat
  BY <1>1, Placement, SpeechPlaces
<1>6. CASE q \in Added(m, DOMAIN s, t)
  <2>1. Len(s) + (q - Len(s)) = q /\ q - Len(s) \in DOMAIN u /\ u[q - Len(s)].kind = "turn"
    <3>1. q - Len(s) \in DOMAIN u /\ t[q] = u[q - Len(s)]
      BY <1>1, <1>6
    <3>2. Len(s) + (q - Len(s)) = q
      BY <1>2, <1>5
    <3> QED
      BY <1>5, <3>1, <3>2
  <2> QED
    BY <1>3, <2>1
<1>7. CASE q \notin Added(m, DOMAIN s, t)
  <2>1. PICK i \in DOMAIN s : m[i] = q
    BY <1>1, <1>5, <1>7, EmbeddedKinds
  <2>2. i = q
    BY <1>1, <2>1
  <2>3. b \notin Added(m, DOMAIN s, t)
    <3>1. b < q /\ q <= Len(s) /\ b \in Nat /\ q \in Nat
      BY <1>2, <1>4, <1>5, <2>2
    <3>2. b \notin Len(s) + 1 .. Len(s) + Len(u)
      BY <1>2, <3>1
    <3> QED
      BY <1>1, <3>2
  <2>4. PICK a \in DOMAIN s : m[a] = b
    BY <1>1, <1>5, <2>3, EmbeddedKinds
  <2>5. i \in Turns(s) /\ a \in Speech(s) /\ a < i /\ i \in Conversation(s)
    BY <1>1, <1>4, <2>1, <2>4, EmbeddedKinds, EmbeddedSpeech, EmbeddedOrder, Placement
  <2>6. PICK k \in Asks(s) : i < k /\ s[k].n = s[i].n /\ \A l \in Conversation(s) : l <= i \/ k <= l
    BY <2>5 DEF Directed, Direct
  <2>7. k \in DOMAIN s /\ m[k] = k /\ k <= Len(s) /\ k \in Nat
    BY <1>1, <1>2, <2>6, Placement
  <2>8. \A p \in Added(m, DOMAIN s, t) \cap Conversation(t) : p <= m[i] \/ m[k] <= p
    BY <1>1, <1>2, <2>7
  <2>9. Direct(t, m[i])
    BY <1>1, <2>5, <2>6, <2>7, <2>8, DirectKept
  <2> QED
    BY <2>1, <2>9
<1> QED
  BY <1>6, <1>7

LEMMA DirectedStartTurn ==
  ASSUME NEW s \in Stream, NEW n \in Nat, Directed(s)
  PROVE  StartTurn(s, n) \in Stream /\ Directed(StartTurn(s, n))
<1> DEFINE u == <<Turn(n), Ask(n)>>
           t == s \o u
<1>1. u \in Stream /\ Len(u) = 2 /\ DOMAIN u = {1, 2} /\ u[1] = Turn(n) /\ u[2] = Ask(n)
  BY NewEvents DEF Stream
<1> HIDE DEF u
<1>2. /\ t \in Stream /\ Len(t) = Len(s) + 2 /\ Len(s) \in Nat
      /\ t[Len(s) + 1] = u[1] /\ t[Len(s) + 2] = u[2]
  <2>1. s \in Seq(Event) /\ u \in Seq(Event)
    BY <1>1 DEF Stream
  <2>2. /\ t \in Seq(Event) /\ Len(t) = Len(s) + Len(u) /\ Len(s) \in Nat
        /\ \A i \in Len(s) + 1 .. Len(s) + Len(u) : t[i] = u[i - Len(s)]
    BY <2>1, Concatenated
  <2> HIDE DEF t
  <2>3. Len(s) + 1 \in Len(s) + 1 .. Len(s) + Len(u) /\ Len(s) + 2 \in Len(s) + 1 .. Len(s) + Len(u)
    BY <1>1, <2>2
  <2>4. (Len(s) + 1) - Len(s) = 1 /\ (Len(s) + 2) - Len(s) = 2
    BY <2>2
  <2> QED
    BY <1>1, <2>2, <2>3, <2>4 DEF Stream
<1> HIDE DEF t
<1> DEFINE a == Len(s) + 1
           b == Len(s) + 2
<1>3. a \in DOMAIN t /\ b \in DOMAIN t /\ a < b /\ a \in Nat /\ b \in Nat
      /\ \A l \in DOMAIN t : l <= a \/ b <= l
  BY <1>2, Positions DEF Stream
<1>4. t[a].kind = "turn" /\ t[b].kind = "ask" /\ t[a].n = n /\ t[b].n = n
  BY <1>1, <1>2, NewEvents
<1> HIDE DEF a, b
<1>5. Direct(t, a)
  BY <1>2, <1>3, <1>4, Placement DEF Direct
<1>6. \A q \in DOMAIN u : u[q].kind = "turn" => Direct(t, Len(s) + q)
  <2>1. u[2].kind # "turn"
    BY <1>1, NewEvents
  <2> QED
    BY <1>1, <1>5, <2>1 DEF a
<1>7. Directed(t)
  BY <1>1, <1>6, DirectedAppended DEF t
<1> QED
  BY <1>2, <1>7 DEF t, u, StartTurn

\* Retain takes conversation events out, and overlays that reach them.
LEMMA RetainedEmbeds ==
  ASSUME NEW s \in Stream, NEW kept
  PROVE  LET t == Retained(s, kept) IN
         t \in Stream /\ \E K, m : /\ Embeds(m, s, K, t) /\ Added(m, K, t) = {}
                                   /\ \A i \in Conversation(s) : i \in K <=> i \in kept
<1> DEFINE removed == Conversation(s) \ kept
           gone == removed \cup {i \in Overlays(s) : s[i].to >= TurnOf(s, Min(removed))}
           t == Retained(s, kept)
<1>1. t = IF removed = {} THEN s ELSE Pick(s, DOMAIN s \ gone)
  BY DEF Retained
<1>2. CASE removed = {}
  <2> DEFINE K == DOMAIN s
  <2>1. Pick(s, K) = s
    BY PickAll, Positions DEF Stream
  <2>2. \A i \in Conversation(s) : i \in K <=> i \in kept
    BY <1>2, Placement
  <2>3. t = Pick(s, K)
    BY <1>1, <1>2, <2>1
  <2> HIDE DEF t
  <2>4. t \in Stream /\ \E m : Embeds(m, s, K, t) /\ Added(m, K, t) = {}
    BY <2>3, PickOf
  <2> QED
    BY <2>2, <2>4 DEF t
<1>3. CASE removed # {}
  <2> DEFINE K == DOMAIN s \ gone
  <2>1. \A i \in Conversation(s) : i \in K <=> i \in kept
    <3>1. \A i \in Conversation(s) : i \notin Overlays(s) /\ i \in DOMAIN s
      BY DEF Conversation, Overlays, Where, IsGlobal
    <3> QED
      BY <3>1
  <2>2. t = Pick(s, K) /\ K \subseteq DOMAIN s
    BY <1>1, <1>3
  <2> HIDE DEF t, K
  <2>4. t \in Stream /\ \E m : Embeds(m, s, K, t) /\ Added(m, K, t) = {}
    BY <2>2, PickOf
  <2> QED
    BY <2>1, <2>4 DEF t
<1> QED
  BY <1>2, <1>3

\* The filters keep a TurnStart and its request together.
LEMMA DirectedRetained ==
  ASSUME NEW s \in Stream, NEW kept, Directed(s),
         \A i \in Turns(s), k \in Asks(s) :
           /\ i < k /\ s[k].n = s[i].n /\ (\A l \in Conversation(s) : l <= i \/ k <= l)
           /\ i \in kept
           => k \in kept
  PROVE  Directed(Retained(s, kept))
<1> DEFINE t == Retained(s, kept)
<1>1. t \in Stream
  BY RetainedEmbeds
<1>2. PICK K, m : /\ Embeds(m, s, K, t) /\ Added(m, K, t) = {}
                  /\ \A i \in Conversation(s) : i \in K <=> i \in kept
  BY RetainedEmbeds
<1> HIDE DEF t
<1>3. ASSUME NEW i \in K \cap Turns(s), NEW a \in K \cap Speech(s), a < i
      PROVE  \E k \in K \cap Asks(s) :
               /\ i < k /\ s[k].n = s[i].n /\ \A l \in Conversation(s) : l <= i \/ k <= l
               /\ \A p \in Added(m, K, t) \cap Conversation(t) : p <= m[i] \/ m[k] <= p
  <2>1. PICK k \in Asks(s) : i < k /\ s[k].n = s[i].n /\ \A l \in Conversation(s) : l <= i \/ k <= l
    BY <1>3 DEF Directed, Direct
  <2>2. i \in Conversation(s) /\ k \in Conversation(s)
    BY <2>1, Placement
  <2>3. k \in K
    BY <1>2, <2>1, <2>2
  <2> QED
    BY <1>2, <2>1, <2>3
<1>4. \A p \in Added(m, K, t) : t[p].kind \notin {"turn", "ask"}
  BY <1>2
<1>5. Directed(t)
  BY <1>1, <1>2, <1>3, <1>4, DirectedKept
<1> QED
  BY <1>5 DEF t

\* By the time they were made, or by the number of TurnStarts up to them.
LEMMA FilteredEmbeds ==
  ASSUME stream \in Stream, NEW filtered \in Filtered
  PROVE  filtered \in Stream /\ \E K, m : Embeds(m, stream, K, filtered) /\ Added(m, K, filtered) = {}
<1>1. \A kept : /\ Retained(stream, kept) \in Stream
                /\ \E K, m : Embeds(m, stream, K, Retained(stream, kept)) /\ Added(m, K, Retained(stream, kept)) = {}
  BY RetainedEmbeds
<1>2. \E K, m : Embeds(m, stream, K, stream) /\ Added(m, K, stream) = {}
  <2>1. \A i \in Conversation(stream) : i \in DOMAIN stream
    BY Placement
  <2>2. Retained(stream, DOMAIN stream) = stream
    BY <2>1 DEF Retained
  <2> QED
    BY <1>1, <2>2
<1>3. CASE \E w \in Windows : filtered = Timely(stream, w)
  BY <1>1, <1>3 DEF Timely
<1>4. CASE \E counts \in TurnCounts : filtered = FirstAndLastTurns(stream, counts[1], counts[2])
  BY <1>1, <1>2, <1>4 DEF FirstAndLastTurns
<1> QED
  BY <1>3, <1>4 DEF Filtered

LEMMA DirectedFiltered ==
  ASSUME stream \in Stream, Directed(stream), NEW filtered \in Filtered
  PROVE  Directed(filtered)
<1>1. ASSUME NEW w PROVE Directed(Timely(stream, w))
  <2> DEFINE kept == {i \in DOMAIN stream : w.from <= stream[i].n /\ stream[i].n < w.until}
  <2>1. ASSUME NEW i \in Turns(stream), NEW k \in Asks(stream), stream[k].n = stream[i].n, i \in kept
        PROVE  k \in kept
    BY <2>1, Placement
  <2> HIDE DEF kept
  <2>2. Directed(Retained(stream, kept))
    BY <2>1, DirectedRetained
  <2> QED
    BY <2>2 DEF Timely, kept
<1>2. ASSUME NEW first, NEW last PROVE Directed(FirstAndLastTurns(stream, first, last))
  <2> DEFINE starts == Cardinality(Where(stream, {"turn"}))
             keeps(seen) == seen \in 1..first \/ seen + last > starts
             kept == {i \in DOMAIN stream : keeps(StartsSeen(stream, i))}
  <2>1. ASSUME NEW i \in Turns(stream), NEW k \in Asks(stream), i < k,
               \A l \in Conversation(stream) : l <= i \/ k <= l, i \in kept
        PROVE  k \in kept
    <3>1. i \in Nat /\ k \in Nat /\ i \in DOMAIN stream /\ k \in DOMAIN stream
      BY Placement
    <3>2. {j \in 1 .. i : stream[j].kind = "turn"} = {j \in 1 .. k : stream[j].kind = "turn"}
      <4>1. ASSUME NEW j \in 1 .. k, stream[j].kind = "turn" PROVE j \in 1 .. i
        <5>1. j \in DOMAIN stream /\ j \in Turns(stream)
          <6>1. k <= Len(stream) /\ DOMAIN stream = 1 .. Len(stream) /\ Len(stream) \in Nat
            BY <3>1, Positions DEF Stream
          <6>2. j \in DOMAIN stream
            BY <3>1, <6>1
          <6> QED
            BY <4>1, <6>2, Placement
        <5>2. j \in Conversation(stream)
          BY <5>1, Placement
        <5>3. j # k
          BY <5>1, Placement
        <5> QED
          BY <2>1, <3>1, <5>2, <5>3
      <4> QED
        BY <2>1, <3>1, <4>1
    <3>3. StartsSeen(stream, i) = StartsSeen(stream, k)
      BY <3>2 DEF StartsSeen
    <3> QED
      BY <2>1, <3>1, <3>3
  <2>2. FirstAndLastTurns(stream, first, last) = IF first + last >= starts THEN stream ELSE Retained(stream, kept)
    BY DEF FirstAndLastTurns
  <2> HIDE DEF kept, starts
  <2>3. Directed(Retained(stream, kept))
    BY <2>1, DirectedRetained
  <2> QED
    BY <2>2, <2>3
<1> QED
  BY <1>1, <1>2 DEF Filtered

-----------------------------------------------------------------------------
(* Calls and their results.                                                *)

Calls(s) == Where(s, {"call"})
Results(s) == Where(s, {"result"})
Fences(s) == Where(s, {"turn", "ask"})

\* No id is used twice; a result is behind its call, and no request between them.
Orderly(s) ==
  /\ \A i, j \in Calls(s) : s[i].id = s[j].id => i = j
  /\ \A i, j \in Results(s) : s[i].id = s[j].id => i = j
  /\ \A i \in Calls(s), j \in Results(s) :
       s[i].id = s[j].id => i < j /\ \A k \in Fences(s) : k < i \/ j < k

\* Open calls are of the request that comes last.
Waiting(s) == \A i \in Calls(s) : s[i].id \notin Ids(s, "result") => \A k \in Fences(s) : k < i

LEMMA CallPlacement ==
  ASSUME NEW s \in Stream
  PROVE  /\ \A i : i \in Calls(s) <=> i \in DOMAIN s /\ s[i].kind = "call"
         /\ \A i : i \in Results(s) <=> i \in DOMAIN s /\ s[i].kind = "result"
         /\ \A i : i \in Fences(s) <=> i \in DOMAIN s /\ s[i].kind \in {"turn", "ask"}
         /\ \A i : i \in Fences(s) <=> i \in Turns(s) \/ i \in Asks(s)
         /\ \A i \in Calls(s) \cup Results(s) \cup Fences(s) : i \in Nat /\ i \in Conversation(s) /\ s[i] \in Event
         /\ \A kind, id : id \in Ids(s, kind) <=> \E i \in DOMAIN s : s[i].kind = kind /\ s[i].id = id
<1>1. \A i : /\ i \in Calls(s) <=> i \in DOMAIN s /\ s[i].kind = "call"
             /\ i \in Results(s) <=> i \in DOMAIN s /\ s[i].kind = "result"
             /\ i \in Fences(s) <=> i \in DOMAIN s /\ s[i].kind \in {"turn", "ask"}
             /\ i \in Fences(s) <=> i \in Turns(s) \/ i \in Asks(s)
  BY DEF Calls, Results, Fences, Where, Turns, Asks
<1>2. \A i \in Calls(s) \cup Results(s) \cup Fences(s) : i \in Nat /\ i \in Conversation(s) /\ s[i] \in Event
  <2>1. \A i \in Calls(s) \cup Results(s) \cup Fences(s) : i \in Conversation(s)
    BY <1>1, Placement
  <2> QED
    BY <2>1, Placement
<1>3. \A kind, id : id \in Ids(s, kind) <=> \E i \in DOMAIN s : s[i].kind = kind /\ s[i].id = id
  BY DEF Ids, Where
<1> QED
  BY <1>1, <1>2, <1>3

LEMMA OrderlyKept ==
  ASSUME NEW s \in Stream, NEW t \in Stream, NEW K, NEW m, Embeds(m, s, K, t), Orderly(s),
         \A p \in Added(m, K, t) : t[p].kind \notin {"turn", "ask", "call", "result"}
  PROVE  Orderly(t)
<1>1. ASSUME NEW q \in DOMAIN t, t[q].kind \in {"turn", "ask", "call", "result"}
      PROVE  \E i \in K : i \in DOMAIN s /\ m[i] = q /\ s[i] = t[q]
  BY <1>1, EmbeddedKinds
<1>2. ASSUME NEW p \in Calls(t), NEW q \in Calls(t), t[p].id = t[q].id PROVE p = q
  <2>1. PICK i \in K, j \in K : /\ i \in DOMAIN s /\ m[i] = p /\ s[i] = t[p]
                                /\ j \in DOMAIN s /\ m[j] = q /\ s[j] = t[q]
    BY <1>1, CallPlacement
  <2>2. i \in Calls(s) /\ j \in Calls(s) /\ s[i].id = s[j].id
    BY <1>2, <2>1, CallPlacement
  <2> QED
    BY <2>1, <2>2 DEF Orderly
<1>3. ASSUME NEW p \in Results(t), NEW q \in Results(t), t[p].id = t[q].id PROVE p = q
  <2>1. PICK i \in K, j \in K : /\ i \in DOMAIN s /\ m[i] = p /\ s[i] = t[p]
                                /\ j \in DOMAIN s /\ m[j] = q /\ s[j] = t[q]
    BY <1>1, CallPlacement
  <2>2. i \in Results(s) /\ j \in Results(s) /\ s[i].id = s[j].id
    BY <1>3, <2>1, CallPlacement
  <2> QED
    BY <2>1, <2>2 DEF Orderly
<1>4. ASSUME NEW p \in Calls(t), NEW q \in Results(t), t[p].id = t[q].id
      PROVE  p < q /\ \A r \in Fences(t) : r < p \/ q < r
  <2>1. PICK i \in K, j \in K : /\ i \in DOMAIN s /\ m[i] = p /\ s[i] = t[p]
                                /\ j \in DOMAIN s /\ m[j] = q /\ s[j] = t[q]
    BY <1>1, CallPlacement
  <2>2. i \in Calls(s) /\ j \in Results(s) /\ s[i].id = s[j].id
    BY <1>4, <2>1, CallPlacement
  <2>3. i < j /\ \A k \in Fences(s) : k < i \/ j < k
    BY <2>2 DEF Orderly
  <2>4. p < q
    BY <2>1, <2>3, EmbeddedOrder
  <2>5. ASSUME NEW r \in Fences(t) PROVE r < p \/ q < r
    <3>1. PICK k \in K : k \in DOMAIN s /\ m[k] = r /\ s[k] = t[r]
      BY <1>1, CallPlacement
    <3>2. k \in Fences(s)
      BY <3>1, CallPlacement
    <3>3. k < i \/ j < k
      BY <2>3, <3>2
    <3> QED
      BY <2>1, <3>1, <3>3, EmbeddedOrder
  <2> QED
    BY <2>4, <2>5
<1> QED
  BY <1>2, <1>3, <1>4 DEF Orderly

LEMMA OrderlySelected ==
  ASSUME NEW s \in Stream, NEW t \in Stream, NEW K, NEW m, Embeds(m, s, K, t), Added(m, K, t) = {}, Orderly(s)
  PROVE  Orderly(t)
BY OrderlyKept

LEMMA OrderlyShorter ==
  ASSUME NEW s \in Stream, NEW t \in Stream, Shorter(s, t) \/ Spared(s, t), Orderly(s)
  PROVE  Orderly(t)
<1>1. PICK K, m : Embeds(m, s, K, t) /\ Quiet(m, K, t)
  BY DEF Shorter, Spared
<1>2. \A p \in Added(m, K, t) : t[p].kind \notin {"turn", "ask", "call", "result"}
  BY <1>1 DEF Quiet, IsGlobal
<1> QED
  BY <1>1, <1>2, OrderlyKept

LEMMA OrderlyOrphansRemoved ==
  ASSUME NEW s \in Stream, Orderly(s), NEW kind \in Identified, NEW partner
  PROVE  LET t == OrphansRemoved(s, kind, partner) IN t \in Stream /\ Orderly(t)
<1> DEFINE t == OrphansRemoved(s, kind, partner)
<1>1. t \in Stream /\ \E K, m : Embeds(m, s, K, t) /\ Added(m, K, t) = {}
  BY OrphansRemovedEmbeds
<1> HIDE DEF t
<1>2. Orderly(t)
  BY <1>1, OrderlySelected
<1> QED
  BY <1>1, <1>2 DEF t

\* An answer is given to an open call, right behind it.
LEMMA OrderlyCallsAnswered ==
  ASSUME NEW s \in Stream, Orderly(s)
  PROVE  LET t == CallsAnswered(s) IN t \in Stream /\ Orderly(t) /\ Ids(t, "call") \subseteq Ids(t, "result")
<1> DEFINE t == CallsAnswered(s)
<1>1. t \in Stream
  BY CallsAnsweredEmbeds
<1>2. PICK m : Answers(m, s, t)
  BY CallsAnsweredEmbeds
<1> SUFFICES Orderly(t) /\ Ids(t, "call") \subseteq Ids(t, "result")
  BY <1>1
<1> HIDE DEF t
<1>3. Embeds(m, s, DOMAIN s, t) /\ \A i \in DOMAIN s : m[i] \in Nat
  <2>1. Embeds(m, s, DOMAIN s, t)
    BY <1>2 DEF Answers
  <2>2. \A i \in DOMAIN s : m[i] \in DOMAIN t
    BY <2>1, EmbeddedKinds, <1>1
  <2> QED
    BY <1>1, <2>1, <2>2, Positions DEF Stream
<1>4. ASSUME NEW p \in Added(m, DOMAIN s, t)
      PROVE  \E c \in Calls(s) : s[c].id \notin Ids(s, "result") /\ p = m[c] + 1 /\ t[p].id = s[c].id /\ t[p].kind = "result"
  <2>1. PICK c \in DOMAIN s : Open(s, c) /\ p = m[c] + 1
    BY <1>2 DEF Answers
  <2>2. t[p] = AnswerTo(s, c)
    BY <1>2, <2>1 DEF Answers
  <2> QED
    BY <2>1, <2>2, CallPlacement DEF Open, AnswerTo, Paired
<1>5. ASSUME NEW q \in DOMAIN t, t[q].kind \in {"turn", "ask", "call"}
      PROVE  \E i \in DOMAIN s : m[i] = q /\ s[i] = t[q]
  BY <1>1, <1>3, <1>4, <1>5, EmbeddedKinds
<1>6. ASSUME NEW p \in Calls(t), NEW q \in Calls(t), t[p].id = t[q].id PROVE p = q
  <2>1. PICK i \in DOMAIN s, j \in DOMAIN s : m[i] = p /\ s[i] = t[p] /\ m[j] = q /\ s[j] = t[q]
    BY <1>1, <1>5, CallPlacement
  <2>2. i \in Calls(s) /\ j \in Calls(s) /\ s[i].id = s[j].id
    BY <1>1, <1>6, <2>1, CallPlacement
  <2> QED
    BY <2>1, <2>2 DEF Orderly
\* A result is an old one, or one to an open call.
<1>7. ASSUME NEW q \in Results(t)
      PROVE  \/ \E j \in Results(s) : m[j] = q /\ s[j].id = t[q].id
             \/ \E c \in Calls(s) : s[c].id \notin Ids(s, "result") /\ q = m[c] + 1 /\ t[q].id = s[c].id
                                    /\ q \in Added(m, DOMAIN s, t)
  <2>1. q \in DOMAIN t /\ t[q].kind = "result"
    BY <1>1, CallPlacement
  <2>2. CASE q \in Added(m, DOMAIN s, t)
    BY <1>4, <2>2
  <2>3. CASE \E j \in DOMAIN s : m[j] = q
    <3>1. PICK j \in DOMAIN s : m[j] = q
      BY <2>3
    <3>2. s[j] = t[q]
      BY <1>1, <1>3, <3>1, EmbeddedKinds
    <3> QED
      BY <2>1, <3>1, <3>2, CallPlacement
  <2> QED
    BY <1>1, <1>3, <2>1, <2>2, <2>3, EmbeddedKinds
<1>8. ASSUME NEW p \in Results(t), NEW q \in Results(t), t[p].id = t[q].id PROVE p = q
  <2>1. \A j \in Results(s) : s[j].id \in Ids(s, "result")
    BY CallPlacement
  <2>2. CASE \E j \in Results(s) : m[j] = p /\ s[j].id = t[p].id
    BY <1>7, <1>8, <2>1, <2>2 DEF Orderly
  <2>3. CASE \E c \in Calls(s) : s[c].id \notin Ids(s, "result") /\ p = m[c] + 1 /\ t[p].id = s[c].id
    BY <1>7, <1>8, <2>1, <2>3 DEF Orderly
  <2> QED
    BY <1>7, <2>2, <2>3
<1>9. ASSUME NEW p \in Calls(t), NEW q \in Results(t), t[p].id = t[q].id
      PROVE  p < q /\ \A r \in Fences(t) : r < p \/ q < r
  <2>1. PICK i \in DOMAIN s : m[i] = p /\ s[i] = t[p]
    BY <1>1, <1>5, CallPlacement
  <2>2. i \in Calls(s) /\ s[i].id = t[q].id
    BY <1>1, <1>9, <2>1, CallPlacement
  <2>3. ASSUME NEW r \in Fences(t) PROVE \E k \in Fences(s) : m[k] = r /\ k \in DOMAIN s
    <3>1. PICK k \in DOMAIN s : m[k] = r /\ s[k] = t[r]
      BY <1>1, <1>5, CallPlacement
    <3> QED
      BY <1>1, <3>1, CallPlacement
  <2>4. CASE \E j \in Results(s) : m[j] = q /\ s[j].id = t[q].id
    <3>1. PICK j \in Results(s) : m[j] = q /\ s[j].id = t[q].id
      BY <2>4
    <3>2. i < j /\ \A k \in Fences(s) : k < i \/ j < k
      BY <2>2, <3>1 DEF Orderly
    <3>3. j \in DOMAIN s
      BY CallPlacement
    <3>4. p < q
      BY <1>1, <1>3, <2>1, <3>1, <3>2, <3>3, EmbeddedOrder
    <3>5. ASSUME NEW r \in Fences(t) PROVE r < p \/ q < r
      <4>1. PICK k \in Fences(s) : m[k] = r /\ k \in DOMAIN s
        BY <2>3
      <4>2. k < i \/ j < k
        BY <3>2
      <4> QED
        BY <1>1, <1>3, <2>1, <3>1, <3>3, <4>1, <4>2, EmbeddedOrder
    <3> QED
      BY <3>4, <3>5
  <2>5. CASE \E c \in Calls(s) : s[c].id \notin Ids(s, "result") /\ q = m[c] + 1 /\ t[q].id = s[c].id
                                 /\ q \in Added(m, DOMAIN s, t)
    <3>1. q = m[i] + 1 /\ q \in Added(m, DOMAIN s, t)
      BY <2>2, <2>5 DEF Orderly
    <3>2. ASSUME NEW r \in Fences(t) PROVE r < p \/ q < r
      <4>1. PICK k \in Fences(s) : m[k] = r /\ k \in DOMAIN s
        BY <2>3
      <4>2. r # q
        BY <3>1, <4>1 DEF Added
      <4>3. k # i
        BY <2>2, CallPlacement
      <4>4. k \in Nat /\ i \in Nat
        BY <2>2, CallPlacement
      <4>5. k < i \/ i < k
        BY <4>3, <4>4
      <4>6. m[k] < m[i] \/ m[i] < m[k]
        BY <1>1, <1>3, <4>1, <4>5, EmbeddedOrder
      <4> QED
        BY <1>3, <2>1, <3>1, <4>1, <4>2, <4>6
    <3> QED
      BY <1>3, <2>1, <3>1, <3>2
  <2> QED
    BY <1>7, <2>4, <2>5
<1>10. Orderly(t)
  BY <1>6, <1>8, <1>9 DEF Orderly
<1>11. ASSUME NEW id \in Ids(t, "call") PROVE id \in Ids(t, "result")
  <2>1. PICK p \in DOMAIN t : t[p].kind = "call" /\ t[p].id = id
    BY <1>1, CallPlacement
  <2>2. PICK i \in DOMAIN s : m[i] = p /\ s[i] = t[p]
    BY <1>5, <2>1
  <2>3. CASE id \in Ids(s, "result")
    <3>1. PICK j \in DOMAIN s : s[j].kind = "result" /\ s[j].id = id
      BY <2>3, CallPlacement
    <3>2. m[j] \in DOMAIN t /\ t[m[j]] = s[j]
      BY <1>1, <1>3, EmbeddedKinds
    <3> QED
      BY <1>1, <3>1, <3>2, CallPlacement
  <2>4. CASE id \notin Ids(s, "result")
    <3>1. Open(s, i)
      BY <2>1, <2>2, <2>4 DEF Open
    <3>2. m[i] + 1 \in DOMAIN t /\ t[m[i] + 1] = AnswerTo(s, i)
      BY <1>2, <3>1 DEF Answers, Added
    <3>3. t[m[i] + 1].kind = "result" /\ t[m[i] + 1].id = id
      BY <2>1, <2>2, <3>2 DEF AnswerTo, Paired
    <3> QED
      BY <1>1, <3>2, <3>3, CallPlacement
  <2> QED
    BY <2>3, <2>4
<1> QED
  BY <1>10, <1>11

\* The ids of a kind of which nothing is added.
LEMMA IdsKept ==
  ASSUME NEW s \in Stream, NEW t \in Stream, NEW K, NEW m, Embeds(m, s, K, t), NEW kind,
         \A p \in Added(m, K, t) : t[p].kind # kind
  PROVE  \A id : id \in Ids(t, kind) <=> \E i \in K : s[i].kind = kind /\ s[i].id = id
<1>1. ASSUME NEW id, id \in Ids(t, kind) PROVE \E i \in K : s[i].kind = kind /\ s[i].id = id
  <2>1. PICK p \in DOMAIN t : t[p].kind = kind /\ t[p].id = id
    BY <1>1, CallPlacement
  <2>2. PICK i \in K : m[i] = p
    BY <2>1, EmbeddedKinds
  <2> QED
    BY <2>1, <2>2, EmbeddedKinds
<1>2. ASSUME NEW id, NEW i \in K, s[i].kind = kind, s[i].id = id PROVE id \in Ids(t, kind)
  <2>1. m[i] \in DOMAIN t /\ t[m[i]] = s[i]
    BY EmbeddedKinds
  <2> QED
    BY <1>2, <2>1, CallPlacement
<1> QED
  BY <1>1, <1>2

LEMMA OrphansIds ==
  ASSUME NEW s \in Stream, NEW kind \in Identified, NEW partner \in Identified, kind # partner
  PROVE  LET t == OrphansRemoved(s, kind, partner) IN
         /\ Ids(t, kind) = Ids(s, kind) \cap Ids(s, partner)
         /\ \A other : other # kind => Ids(t, other) = Ids(s, other)
<1> DEFINE t == OrphansRemoved(s, kind, partner)
           K == {i \in DOMAIN s : s[i].kind = kind => s[i].id \in Ids(s, partner)}
<1>1. t \in Stream /\ \A i \in DOMAIN s : s[i].kind # kind => i \in K
  BY OrphansRemovedEmbeds
<1>2. PICK m : Embeds(m, s, K, t) /\ Added(m, K, t) = {}
  BY OrphansRemovedEmbeds
<1>3. \A i \in DOMAIN s : i \in K <=> (s[i].kind = kind => s[i].id \in Ids(s, partner))
  OBVIOUS
<1>4. K \subseteq DOMAIN s
  OBVIOUS
<1> SUFFICES /\ Ids(t, kind) = Ids(s, kind) \cap Ids(s, partner)
             /\ \A other : other # kind => Ids(t, other) = Ids(s, other)
  OBVIOUS
<1> HIDE DEF K, t
<1>5. \A k2, id : id \in Ids(t, k2) <=> \E i \in K : s[i].kind = k2 /\ s[i].id = id
  BY <1>1, <1>2, IdsKept
<1>6. \A k2, id : id \in Ids(s, k2) <=> \E i \in DOMAIN s : s[i].kind = k2 /\ s[i].id = id
  BY CallPlacement
<1>7. \A id : id \in Ids(t, kind) <=> id \in Ids(s, kind) /\ id \in Ids(s, partner)
  BY <1>3, <1>4, <1>5, <1>6
<1>8. ASSUME NEW other, other # kind PROVE \A id : id \in Ids(t, other) <=> id \in Ids(s, other)
  BY <1>1, <1>4, <1>5, <1>6, <1>8
<1>9. \A other : other # kind => Ids(t, other) = Ids(s, other)
  BY <1>8
<1> QED
  BY <1>7, <1>9

LEMMA CallsAnsweredIds ==
  ASSUME NEW s \in Stream
  PROVE  LET t == CallsAnswered(s) IN
         /\ \A kind : kind # "result" => Ids(t, kind) = Ids(s, kind)
         /\ Ids(t, "result") = Ids(s, "result") \cup Ids(s, "call")
<1> DEFINE t == CallsAnswered(s)
<1>1. t \in Stream
  BY CallsAnsweredEmbeds
<1>2. PICK m : Answers(m, s, t)
  BY CallsAnsweredEmbeds
<1> SUFFICES /\ \A kind : kind # "result" => Ids(t, kind) = Ids(s, kind)
             /\ Ids(t, "result") = Ids(s, "result") \cup Ids(s, "call")
  OBVIOUS
<1> HIDE DEF t
<1>3. Embeds(m, s, DOMAIN s, t)
  BY <1>2 DEF Answers
<1>4. ASSUME NEW p \in Added(m, DOMAIN s, t)
      PROVE  \E c \in DOMAIN s : s[c].kind = "call" /\ t[p].id = s[c].id /\ t[p].kind = "result"
  <2>1. PICK c \in DOMAIN s : Open(s, c) /\ p = m[c] + 1
    BY <1>2 DEF Answers
  <2>2. t[p] = AnswerTo(s, c)
    BY <1>2, <2>1 DEF Answers
  <2> QED
    BY <2>1, <2>2 DEF Open, AnswerTo, Paired
<1>5. \A k2, id : id \in Ids(s, k2) <=> \E i \in DOMAIN s : s[i].kind = k2 /\ s[i].id = id
  BY CallPlacement
<1>6. ASSUME NEW kind, kind # "result" PROVE Ids(t, kind) = Ids(s, kind)
  <2>1. \A p \in Added(m, DOMAIN s, t) : t[p].kind # kind
    BY <1>4, <1>6
  <2>2. \A id : id \in Ids(t, kind) <=> \E i \in DOMAIN s : s[i].kind = kind /\ s[i].id = id
    BY <1>1, <1>3, <2>1, IdsKept
  <2>3. \A id : id \in Ids(t, kind) <=> id \in Ids(s, kind)
    BY <1>5, <2>2
  <2> QED
    BY <2>3
<1>7. ASSUME NEW id, id \in Ids(t, "result") PROVE id \in Ids(s, "result") \/ id \in Ids(s, "call")
  <2>1. PICK p \in DOMAIN t : t[p].kind = "result" /\ t[p].id = id
    BY <1>1, <1>7, CallPlacement
  <2>2. CASE p \in Added(m, DOMAIN s, t)
    BY <1>4, <1>5, <2>1, <2>2
  <2>3. CASE \E i \in DOMAIN s : m[i] = p
    BY <1>1, <1>3, <1>5, <2>1, <2>3, EmbeddedKinds
  <2> QED
    BY <1>1, <1>3, <2>1, <2>2, <2>3, EmbeddedKinds
<1>8. ASSUME NEW id, id \in Ids(s, "result") PROVE id \in Ids(t, "result")
  <2>1. PICK j \in DOMAIN s : s[j].kind = "result" /\ s[j].id = id
    BY <1>8, CallPlacement
  <2>2. m[j] \in DOMAIN t /\ t[m[j]] = s[j]
    BY <1>1, <1>3, <2>1, EmbeddedKinds
  <2> QED
    BY <1>1, <2>1, <2>2, CallPlacement
<1>9. ASSUME NEW id, id \in Ids(s, "call"), id \notin Ids(s, "result") PROVE id \in Ids(t, "result")
  <2>1. PICK i \in DOMAIN s : s[i].kind = "call" /\ s[i].id = id
    BY <1>9, CallPlacement
  <2>2. Open(s, i)
    BY <1>9, <2>1 DEF Open
  <2>3. m[i] + 1 \in DOMAIN t /\ t[m[i] + 1] = AnswerTo(s, i)
    BY <1>2, <2>2 DEF Answers, Added
  <2>4. t[m[i] + 1].kind = "result" /\ t[m[i] + 1].id = id
    BY <2>1, <2>3 DEF AnswerTo, Paired
  <2> QED
    BY <1>1, <2>3, <2>4, CallPlacement
<1> QED
  BY <1>6, <1>7, <1>8, <1>9

\* Nothing waits for an answer, and nothing answers what was not asked.
Matched(s) ==
  /\ Ids(s, "call") = Ids(s, "result")
  /\ Ids(s, "question") = Ids(s, "answer")

LEMMA MatchedBeforeNormalized == ASSUME NEW s \in Stream PROVE Matched(BeforeNormalized(s))
<1> DEFINE s1 == LeadingDropped(s)
           s2 == OrphansRemoved(s1, "result", "call")
           s3 == CallsAnswered(s2)
           s4 == OrphansRemoved(s3, "answer", "question")
           s5 == OrphansRemoved(s4, "question", "answer")
           s6 == TrailingTurnTrimmed(s5)
<1>1. BeforeNormalized(s) = s6
  BY DEF BeforeNormalized
<1>2. s1 \in Stream
  BY LeadingDroppedLed
<1> HIDE DEF s1
<1>3. s2 \in Stream
  BY <1>2, OrphansRemovedEmbeds DEF Identified
<1>4. Ids(s2, "result") = Ids(s1, "result") \cap Ids(s1, "call") /\ Ids(s2, "call") = Ids(s1, "call")
  BY <1>2, OrphansIds DEF Identified
<1> HIDE DEF s2
<1>5. s3 \in Stream
  BY <1>3, CallsAnsweredEmbeds
<1>6. Ids(s3, "result") = Ids(s2, "result") \cup Ids(s2, "call") /\ Ids(s3, "call") = Ids(s2, "call")
  BY <1>3, CallsAnsweredIds
<1> HIDE DEF s3
<1>7. s4 \in Stream
  BY <1>5, OrphansRemovedEmbeds DEF Identified
<1>8. /\ Ids(s4, "answer") = Ids(s3, "answer") \cap Ids(s3, "question")
      /\ \A other : other # "answer" => Ids(s4, other) = Ids(s3, other)
  BY <1>5, OrphansIds DEF Identified
<1> HIDE DEF s4
<1>9. s5 \in Stream
  BY <1>7, OrphansRemovedEmbeds DEF Identified
<1>10. /\ Ids(s5, "question") = Ids(s4, "question") \cap Ids(s4, "answer")
       /\ \A other : other # "question" => Ids(s5, other) = Ids(s4, other)
  BY <1>7, OrphansIds DEF Identified
<1> HIDE DEF s5
<1>11. Ids(s5, "call") = Ids(s5, "result") /\ Ids(s5, "question") = Ids(s5, "answer")
  BY <1>4, <1>6, <1>8, <1>10
<1>12. ASSUME NEW kind \in Identified PROVE Ids(s6, kind) = Ids(s5, kind)
  <2> DEFINE K == DOMAIN s5 \ ({LastOf(Conversation(s5))} \cap Turns(s5))
  <2>1. s6 \in Stream /\ (\A i \in DOMAIN s5 : i \notin Turns(s5) => i \in K) /\ K \subseteq DOMAIN s5
    BY <1>9, TrailingTrimmedEmbeds
  <2>2. PICK m : Embeds(m, s5, K, s6) /\ Added(m, K, s6) = {}
    BY <1>9, TrailingTrimmedEmbeds
  <2> HIDE DEF K, s6
  <2>3. \A id : id \in Ids(s6, kind) <=> \E i \in K : s5[i].kind = kind /\ s5[i].id = id
    BY <1>9, <2>1, <2>2, IdsKept
  <2>4. \A i \in DOMAIN s5 : s5[i].kind = kind => i \in K
    BY <1>9, <2>1, Placement DEF Identified
  <2>5. \A id : id \in Ids(s6, kind) <=> id \in Ids(s5, kind)
    BY <1>9, <2>1, <2>3, <2>4, CallPlacement
  <2> QED
    BY <2>5
<1> HIDE DEF s6
<1> QED
  BY <1>1, <1>11, <1>12 DEF Matched, Identified

LEMMA NormalizedIds ==
  ASSUME NEW s \in Stream, NEW kind \in Identified
  PROVE  Ids(TurnStartsNormalized(s), kind) = Ids(s, kind)
<1> DEFINE t == TurnStartsNormalized(s)
<1>1. t \in Stream /\ (t = s \/ Collapses(s, t) \/ Inserts(s, t))
  BY NormalizedCases
<1> SUFFICES Ids(t, kind) = Ids(s, kind)
  OBVIOUS
<1> HIDE DEF t
<1>2. \A id : id \in Ids(s, kind) <=> \E i \in DOMAIN s : s[i].kind = kind /\ s[i].id = id
  BY CallPlacement
<1>3. CASE Collapses(s, t)
  <2>1. PICK L \in Turns(s), a \in Asks(s) :
          \E m : /\ Embeds(m, s, DOMAIN s \ {i \in Turns(s) : i < a /\ i # L}, t)
                 /\ Added(m, DOMAIN s \ {i \in Turns(s) : i < a /\ i # L}, t) = {}
    BY <1>3 DEF Collapses
  <2> DEFINE K == DOMAIN s \ {i \in Turns(s) : i < a /\ i # L}
  <2>2. PICK m : Embeds(m, s, K, t) /\ Added(m, K, t) = {}
    BY <2>1
  <2>3. \A i \in DOMAIN s : s[i].kind = kind => i \in K
    BY Placement DEF Identified
  <2>4. K \subseteq DOMAIN s
    OBVIOUS
  <2> HIDE DEF K
  <2>5. \A id : id \in Ids(t, kind) <=> \E i \in K : s[i].kind = kind /\ s[i].id = id
    BY <1>1, <2>2, IdsKept
  <2>6. \A id : id \in Ids(t, kind) <=> id \in Ids(s, kind)
    BY <1>2, <2>3, <2>4, <2>5
  <2> QED
    BY <2>6
<1>4. CASE Inserts(s, t)
  <2>1. PICK place \in DOMAIN s, stamp \in Nat :
          LET m == [i \in DOMAIN s |-> IF i < place THEN i ELSE i + 1] IN
          Embeds(m, s, DOMAIN s, t) /\ Added(m, DOMAIN s, t) = {place} /\ t[place] = Turn(stamp)
    BY <1>4 DEF Inserts
  <2> DEFINE m == [i \in DOMAIN s |-> IF i < place THEN i ELSE i + 1]
  <2>2. Embeds(m, s, DOMAIN s, t) /\ Added(m, DOMAIN s, t) = {place} /\ t[place] = Turn(stamp)
    BY <2>1
  <2> HIDE DEF m
  <2>3. \A p \in Added(m, DOMAIN s, t) : t[p].kind # kind
    BY <2>2 DEF Turn, Identified
  <2>4. \A id : id \in Ids(t, kind) <=> \E i \in DOMAIN s : s[i].kind = kind /\ s[i].id = id
    BY <1>1, <2>2, <2>3, IdsKept
  <2>5. \A id : id \in Ids(t, kind) <=> id \in Ids(s, kind)
    BY <1>2, <2>4
  <2> QED
    BY <2>5
<1> QED
  BY <1>1, <1>3, <1>4

LEMMA MatchedSanitized == ASSUME NEW s \in Stream PROVE Matched(Sanitized(s))
<1> DEFINE f == BeforeNormalized(s)
<1>1. f \in Stream /\ Matched(f) /\ Sanitized(s) = TurnStartsNormalized(f)
  BY BeforeNormalizedLed, MatchedBeforeNormalized, SanitizedIs
<1> HIDE DEF f
<1>2. \A kind \in Identified : Ids(Sanitized(s), kind) = Ids(f, kind)
  BY <1>1, NormalizedIds
<1> QED
  BY <1>1, <1>2 DEF Matched, Identified

\* The TurnStart that is inserted comes before every call.
LEMMA OrderlyNormalized ==
  ASSUME NEW s \in Stream, Led(s), Orderly(s)
  PROVE  Orderly(TurnStartsNormalized(s))
<1> DEFINE t == TurnStartsNormalized(s)
<1>1. t \in Stream /\ (t = s \/ Collapses(s, t) \/ Inserts(s, t))
  BY NormalizedCases
<1> SUFFICES Orderly(t)
  OBVIOUS
<1> HIDE DEF t
<1>2. CASE Collapses(s, t)
  <2>1. PICK L \in Turns(s), a \in Asks(s) :
          \E m : /\ Embeds(m, s, DOMAIN s \ {i \in Turns(s) : i < a /\ i # L}, t)
                 /\ Added(m, DOMAIN s \ {i \in Turns(s) : i < a /\ i # L}, t) = {}
    BY <1>2 DEF Collapses
  <2> DEFINE K == DOMAIN s \ {i \in Turns(s) : i < a /\ i # L}
  <2>2. PICK m : Embeds(m, s, K, t) /\ Added(m, K, t) = {}
    BY <2>1
  <2> HIDE DEF K
  <2> QED
    BY <1>1, <2>2, OrderlySelected
<1>3. CASE Inserts(s, t)
  <2>1. PICK place \in DOMAIN s, stamp \in Nat :
          LET m == [i \in DOMAIN s |-> IF i < place THEN i ELSE i + 1] IN
          /\ Embeds(m, s, DOMAIN s, t) /\ Added(m, DOMAIN s, t) = {place} /\ t[place] = Turn(stamp)
          /\ Asks(s) = {} => place = 1
          /\ Asks(s) # {} => \A b \in Asks(s) : place <= b
    BY <1>3 DEF Inserts
  <2> DEFINE m == [i \in DOMAIN s |-> IF i < place THEN i ELSE i + 1]
  <2>2. Embeds(m, s, DOMAIN s, t) /\ Added(m, DOMAIN s, t) = {place} /\ t[place].kind = "turn"
    BY <2>1 DEF Turn
  <2>3. place \in Nat
    BY Positions DEF Stream
  <2>4. ASSUME NEW i \in Calls(s) PROVE place < m[i]
    <3>1. i \in DOMAIN s /\ i \in Conversation(s) /\ i \notin Turns(s) /\ i \in Nat /\ i >= 1
      BY CallPlacement, Placement, Positions DEF Stream
    <3>2. place <= i
      <4>1. CASE Asks(s) = {}
        BY <2>1, <3>1, <4>1
      <4>2. CASE Asks(s) # {}
        <5>1. PICK b \in Asks(s) : b <= i
          BY <3>1, <4>2 DEF Led
        <5>2. place <= b /\ b \in Nat
          BY <2>1, <4>2, Placement
        <5> QED
          BY <2>3, <3>1, <5>1, <5>2
      <4> QED
        BY <4>1, <4>2
    <3> QED
      BY <2>3, <3>1, <3>2
  <2> HIDE DEF m
  <2>5. ASSUME NEW q \in DOMAIN t, t[q].kind \in {"ask", "call", "result"} \/ q # place
        PROVE  \E i \in DOMAIN s : m[i] = q /\ s[i] = t[q]
    BY <1>1, <2>2, <2>5, EmbeddedKinds
  <2>6. ASSUME NEW p \in Calls(t), NEW q \in Calls(t), t[p].id = t[q].id PROVE p = q
    <3>1. PICK i \in DOMAIN s, j \in DOMAIN s : m[i] = p /\ s[i] = t[p] /\ m[j] = q /\ s[j] = t[q]
      BY <1>1, <2>5, CallPlacement
    <3>2. i \in Calls(s) /\ j \in Calls(s) /\ s[i].id = s[j].id
      BY <1>1, <2>6, <3>1, CallPlacement
    <3> QED
      BY <3>1, <3>2 DEF Orderly
  <2>7. ASSUME NEW p \in Results(t), NEW q \in Results(t), t[p].id = t[q].id PROVE p = q
    <3>1. PICK i \in DOMAIN s, j \in DOMAIN s : m[i] = p /\ s[i] = t[p] /\ m[j] = q /\ s[j] = t[q]
      BY <1>1, <2>5, CallPlacement
    <3>2. i \in Results(s) /\ j \in Results(s) /\ s[i].id = s[j].id
      BY <1>1, <2>7, <3>1, CallPlacement
    <3> QED
      BY <3>1, <3>2 DEF Orderly
  <2>8. ASSUME NEW p \in Calls(t), NEW q \in Results(t), t[p].id = t[q].id
        PROVE  p < q /\ \A r \in Fences(t) : r < p \/ q < r
    <3>1. PICK i \in DOMAIN s, j \in DOMAIN s : m[i] = p /\ s[i] = t[p] /\ m[j] = q /\ s[j] = t[q]
      BY <1>1, <2>5, CallPlacement
    <3>2. i \in Calls(s) /\ j \in Results(s) /\ s[i].id = s[j].id
      BY <1>1, <2>8, <3>1, CallPlacement
    <3>3. i < j /\ \A k \in Fences(s) : k < i \/ j < k
      BY <3>2 DEF Orderly
    <3>4. p < q
      BY <1>1, <2>2, <3>1, <3>3, EmbeddedOrder
    <3>5. ASSUME NEW r \in Fences(t) PROVE r < p \/ q < r
      <4>1. CASE r = place
        BY <2>4, <3>1, <3>2, <4>1
      <4>2. CASE r # place
        <5>1. PICK k \in DOMAIN s : m[k] = r /\ s[k] = t[r]
          BY <1>1, <2>5, <4>2, CallPlacement
        <5>2. k \in Fences(s)
          BY <1>1, <5>1, CallPlacement
        <5>3. k < i \/ j < k
          BY <3>3, <5>2
        <5> QED
          BY <1>1, <2>2, <3>1, <5>1, <5>3, EmbeddedOrder
      <4> QED
        BY <4>1, <4>2
    <3> QED
      BY <3>4, <3>5
  <2> QED
    BY <2>6, <2>7, <2>8 DEF Orderly
<1> QED
  BY <1>1, <1>2, <1>3

LEMMA OrderlySanitized == ASSUME NEW s \in Stream, Orderly(s) PROVE Orderly(Sanitized(s))
<1> DEFINE s1 == LeadingDropped(s)
           s2 == OrphansRemoved(s1, "result", "call")
           s3 == CallsAnswered(s2)
           s4 == OrphansRemoved(s3, "answer", "question")
           s5 == OrphansRemoved(s4, "question", "answer")
           s6 == TrailingTurnTrimmed(s5)
<1>1. Sanitized(s) = TurnStartsNormalized(s6) /\ s6 = BeforeNormalized(s)
  BY DEF Sanitized, BeforeNormalized
<1>2. s1 \in Stream /\ \E K, m : Embeds(m, s, K, s1) /\ Added(m, K, s1) = {}
  BY LeadingDroppedLed
<1> HIDE DEF s1
<1>3. Orderly(s1)
  BY <1>2, OrderlySelected
<1>4. s2 \in Stream /\ Orderly(s2)
  BY <1>2, <1>3, OrderlyOrphansRemoved DEF Identified
<1> HIDE DEF s2
<1>5. s3 \in Stream /\ Orderly(s3)
  BY <1>4, OrderlyCallsAnswered
<1> HIDE DEF s3
<1>6. s4 \in Stream /\ Orderly(s4)
  BY <1>5, OrderlyOrphansRemoved DEF Identified
<1> HIDE DEF s4
<1>7. s5 \in Stream /\ Orderly(s5)
  BY <1>6, OrderlyOrphansRemoved DEF Identified
<1> HIDE DEF s5
<1>8. s6 \in Stream /\ Orderly(s6)
  BY <1>7, TrailingTrimmedShorter, OrderlyShorter
<1> HIDE DEF s6
<1>9. Led(s6)
  BY <1>1, BeforeNormalizedLed
<1> QED
  BY <1>1, <1>8, <1>9, OrderlyNormalized

-----------------------------------------------------------------------------
(* What every step of a command keeps of the stream.                       *)

LEMMA AppendedAt ==
  ASSUME NEW s \in Stream, NEW u \in Stream
  PROVE  LET t == s \o u IN
         /\ t \in Stream
         /\ \A p \in DOMAIN s : p \in DOMAIN t /\ t[p] = s[p] /\ p <= Len(s)
         /\ \A q \in DOMAIN u : Len(s) + q \in DOMAIN t /\ t[Len(s) + q] = u[q] /\ ~(Len(s) + q <= Len(s))
         /\ \A p \in DOMAIN t : p \in DOMAIN s \/ \E q \in DOMAIN u : p = Len(s) + q
<1>1. s \in Seq(Event) /\ u \in Seq(Event)
  BY DEF Stream
<1> DEFINE t == s \o u
<1>2. /\ t \in Seq(Event) /\ Len(t) = Len(s) + Len(u) /\ Len(s) \in Nat /\ Len(u) \in Nat
      /\ \A i \in 1 .. Len(s) : t[i] = s[i]
      /\ \A i \in Len(s) + 1 .. Len(s) + Len(u) : t[i] = u[i - Len(s)]
  BY <1>1, Concatenated
<1> SUFFICES /\ t \in Stream
             /\ \A p \in DOMAIN s : p \in DOMAIN t /\ t[p] = s[p] /\ p <= Len(s)
             /\ \A q \in DOMAIN u : Len(s) + q \in DOMAIN t /\ t[Len(s) + q] = u[q] /\ ~(Len(s) + q <= Len(s))
             /\ \A p \in DOMAIN t : p \in DOMAIN s \/ \E q \in DOMAIN u : p = Len(s) + q
  OBVIOUS
<1> HIDE DEF t
<1>3. DOMAIN s = 1 .. Len(s) /\ DOMAIN u = 1 .. Len(u) /\ DOMAIN t = 1 .. Len(t)
  BY <1>1, <1>2
<1> DEFINE L == Len(s)
           M == Len(u)
<1>4. L \in Nat /\ M \in Nat /\ Len(t) = L + M
  BY <1>2
<1>5. \A p \in DOMAIN s : p \in DOMAIN t /\ t[p] = s[p] /\ p <= L
  BY <1>2, <1>3, <1>4
<1>6. ASSUME NEW q \in DOMAIN u PROVE L + q \in DOMAIN t /\ t[L + q] = u[q] /\ ~(L + q <= L)
  <2>1. q \in Nat /\ q >= 1 /\ q <= M
    BY <1>3
  <2>2. L + q \in L + 1 .. L + M /\ (L + q) - L = q /\ L + q \in DOMAIN t /\ ~(L + q <= L)
    <3> HIDE DEF L, M
    <3> QED
      BY <1>3, <1>4, <2>1
  <2>3. t[L + q] = u[(L + q) - L]
    BY <1>2, <2>2
  <2> QED
    BY <2>2, <2>3
<1>7. ASSUME NEW p \in DOMAIN t, p \notin DOMAIN s PROVE \E q \in DOMAIN u : p = L + q
  <2> HIDE DEF L, M
  <2>1. p \in Nat /\ p >= 1 /\ p <= L + M /\ ~(p <= L)
    BY <1>3, <1>4, <1>7 DEF L
  <2>2. p - L \in 1 .. M /\ p = L + (p - L)
    BY <1>4, <2>1
  <2> QED
    BY <1>3, <2>2 DEF M
<1> QED
  BY <1>2, <1>5, <1>6, <1>7 DEF Stream

LEMMA StartedAppended ==
  ASSUME NEW s \in Stream, NEW u \in Stream, Started(s),
         Turns(s) # {} \/ \A q \in DOMAIN u : ~IsGlobal(u[q]) => \E r \in DOMAIN u : r <= q /\ u[r].kind = "turn"
  PROVE  Started(s \o u)
<1> DEFINE t == s \o u
<1>1. /\ t \in Stream
      /\ \A p \in DOMAIN s : p \in DOMAIN t /\ t[p] = s[p] /\ p <= Len(s)
      /\ \A q \in DOMAIN u : Len(s) + q \in DOMAIN t /\ t[Len(s) + q] = u[q] /\ ~(Len(s) + q <= Len(s))
      /\ \A p \in DOMAIN t : p \in DOMAIN s \/ \E q \in DOMAIN u : p = Len(s) + q
  BY AppendedAt
<1> SUFFICES Started(t)
  OBVIOUS
<1> HIDE DEF t
<1>2. SUFFICES ASSUME NEW p \in Conversation(t) PROVE \E j \in Turns(t) : j <= p
  BY DEF Started
<1>3. \A j \in Turns(s) : j \in Turns(t) /\ j \in DOMAIN s /\ j \in Nat
  BY <1>1, Placement
<1>4. p \in DOMAIN t /\ p \in Nat /\ ~IsGlobal(t[p])
  BY <1>1, Placement DEF Conversation
<1>5. CASE p \in DOMAIN s
  <2>1. p \in Conversation(s)
    BY <1>1, <1>4, <1>5 DEF Conversation
  <2> QED
    BY <1>3, <2>1 DEF Started
<1>6. CASE \E q \in DOMAIN u : p = Len(s) + q
  <2>1. PICK q \in DOMAIN u : p = Len(s) + q
    BY <1>6
  <2>2. Len(s) \in Nat /\ q \in Nat /\ ~IsGlobal(u[q]) /\ Len(s) < p
    BY <1>1, <1>4, <2>1, Positions DEF Stream
  <2>3. CASE Turns(s) # {}
    <3>1. PICK j \in Turns(s) : TRUE
      BY <2>3
    <3>2. j \in Turns(t) /\ j <= Len(s) /\ j \in Nat
      BY <1>1, <1>3, <3>1
    <3>3. j <= p
      BY <1>4, <2>2, <3>2
    <3> QED
      BY <3>2, <3>3
  <2>4. CASE Turns(s) = {}
    <3>1. PICK r \in DOMAIN u : r <= q /\ u[r].kind = "turn"
      BY <2>2, <2>4
    <3>2. Len(s) + r \in Turns(t)
      BY <1>1, <3>1, Placement
    <3>3. r \in Nat
      BY Positions DEF Stream
    <3>4. Len(s) + r <= Len(s) + q
      BY <2>2, <3>1, <3>3
    <3> QED
      BY <2>1, <3>2, <3>4
  <2> QED
    BY <2>3, <2>4
<1> QED
  BY <1>1, <1>4, <1>5, <1>6

LEMMA StartedShorter ==
  ASSUME NEW s \in Stream, NEW t \in Stream, Shorter(s, t) \/ Spared(s, t), Started(s)
  PROVE  Started(t)
<1>1. PICK K, m : Embeds(m, s, K, t) /\ Quiet(m, K, t) /\ Leading(K, s)
  BY DEF Shorter, Spared
<1>2. \A i \in K \cap Conversation(s), j \in Turns(s) : j <= i => j \in K
  BY <1>1, Placement DEF Leading
<1>3. Added(m, K, t) \cap Conversation(t) = {}
  BY <1>1 DEF Quiet, Conversation
<1> QED
  BY <1>1, <1>2, <1>3, StartedKept

LEMMA AsksSpared ==
  ASSUME NEW s \in Stream, NEW t \in Stream, Spared(s, t), Asks(s) # {}
  PROVE  Asks(t) # {}
<1>1. PICK K, m : Embeds(m, s, K, t) /\ Spoken(K, s)
  BY DEF Spared
<1>2. PICK a \in Asks(s) : TRUE
  OBVIOUS
<1>3. a \in K
  BY <1>1, <1>2, Placement DEF Spoken
<1> QED
  BY <1>1, <1>2, <1>3, EmbeddedKinds

LEMMA WaitingSpared ==
  ASSUME NEW s \in Stream, NEW t \in Stream, Spared(s, t), Waiting(s)
  PROVE  Waiting(t)
<1>1. PICK K, m : Embeds(m, s, K, t) /\ Quiet(m, K, t) /\ Spoken(K, s)
  BY DEF Spared
<1>2. SUFFICES ASSUME NEW p \in Calls(t), t[p].id \notin Ids(t, "result"), NEW r \in Fences(t) PROVE r < p
  BY DEF Waiting
<1>3. ASSUME NEW q \in DOMAIN t, t[q].kind \notin {"config", "overlay"}
      PROVE  \E i \in K : i \in DOMAIN s /\ m[i] = q /\ s[i] = t[q]
  BY <1>1, <1>3, EmbeddedKinds DEF Quiet, IsGlobal
<1>4. PICK i \in K : i \in DOMAIN s /\ m[i] = p /\ s[i] = t[p]
  BY <1>3, CallPlacement
<1>5. PICK k \in K : k \in DOMAIN s /\ m[k] = r /\ s[k] = t[r]
  BY <1>3, CallPlacement
<1>6. i \in Calls(s) /\ k \in Fences(s)
  BY <1>4, <1>5, CallPlacement
<1>7. s[i].id \notin Ids(s, "result")
  <2>1. SUFFICES ASSUME NEW j \in DOMAIN s, s[j].kind = "result", s[j].id = s[i].id PROVE FALSE
    BY CallPlacement
  <2>2. j \in K
    BY <1>1, <2>1, Placement DEF Spoken
  <2>3. m[j] \in DOMAIN t /\ t[m[j]] = s[j]
    BY <1>1, <2>2, EmbeddedKinds
  <2> QED
    BY <1>2, <1>4, <2>1, <2>3, CallPlacement
<1>8. k < i
  BY <1>6, <1>7 DEF Waiting
<1> QED
  BY <1>1, <1>4, <1>5, <1>8, EmbeddedOrder

\* An event that is neither a call nor a result.
LEMMA OrderlyAppended ==
  ASSUME NEW s \in Stream, NEW u \in Stream, Orderly(s), \A q \in DOMAIN u : u[q].kind \notin {"call", "result"}
  PROVE  /\ Orderly(s \o u)
         /\ Waiting(s) /\ (\A q \in DOMAIN u : u[q].kind \notin {"turn", "ask"}) => Waiting(s \o u)
<1> DEFINE t == s \o u
<1>1. /\ t \in Stream
      /\ \A p \in DOMAIN s : p \in DOMAIN t /\ t[p] = s[p] /\ p <= Len(s)
      /\ \A q \in DOMAIN u : Len(s) + q \in DOMAIN t /\ t[Len(s) + q] = u[q] /\ ~(Len(s) + q <= Len(s))
      /\ \A p \in DOMAIN t : p \in DOMAIN s \/ \E q \in DOMAIN u : p = Len(s) + q
  BY AppendedAt
<1> SUFFICES /\ Orderly(t)
             /\ Waiting(s) /\ (\A q \in DOMAIN u : u[q].kind \notin {"turn", "ask"}) => Waiting(t)
  OBVIOUS
<1> HIDE DEF t
<1>2. Len(s) \in Nat
  BY Positions DEF Stream
<1>3. ASSUME NEW p \in DOMAIN t, t[p].kind \in {"call", "result"}
      PROVE  p \in DOMAIN s /\ s[p] = t[p] /\ p <= Len(s) /\ p \in Nat
  <2>1. p \in DOMAIN s
    BY <1>1, <1>3
  <2> QED
    BY <1>1, <2>1, Positions DEF Stream
<1>4. \A p \in Calls(t) : p \in Calls(s) /\ s[p] = t[p] /\ p <= Len(s) /\ p \in Nat
  BY <1>1, <1>3, CallPlacement
<1>5. \A p \in Results(t) : p \in Results(s) /\ s[p] = t[p] /\ p <= Len(s) /\ p \in Nat
  BY <1>1, <1>3, CallPlacement
<1>6. ASSUME NEW r \in Fences(t)
      PROVE  \/ r \in Fences(s)
             \/ \E q \in DOMAIN u : u[q].kind \in {"turn", "ask"} /\ r \in Nat /\ ~(r <= Len(s))
  BY <1>1, CallPlacement
<1>7. Orderly(t)
  <2>1. ASSUME NEW p \in Calls(t), NEW q \in Results(t), t[p].id = t[q].id
        PROVE  p < q /\ \A r \in Fences(t) : r < p \/ q < r
    <3>1. p < q /\ \A r \in Fences(s) : r < p \/ q < r
      BY <1>4, <1>5, <2>1 DEF Orderly
    <3>2. ASSUME NEW r \in Nat, ~(r <= Len(s)) PROVE q < r
      BY <1>2, <1>5, <3>2
    <3> QED
      BY <1>6, <3>1, <3>2
  <2> QED
    BY <1>4, <1>5, <2>1 DEF Orderly
<1>8. ASSUME Waiting(s), \A q \in DOMAIN u : u[q].kind \notin {"turn", "ask"} PROVE Waiting(t)
  <2>1. \A id : id \in Ids(s, "result") => id \in Ids(t, "result")
    BY <1>1, CallPlacement
  <2> QED
    BY <1>4, <1>6, <1>8, <2>1 DEF Waiting
<1> QED
  BY <1>7, <1>8

\* A call with an id of its own.
LEMMA OrderlyCall ==
  ASSUME NEW s \in Stream, Orderly(s), NEW e \in Event, e.kind = "call",
         e.id \notin Ids(s, "call"), e.id \notin Ids(s, "result")
  PROVE  LET t == s \o <<e>> IN t \in Stream /\ Orderly(t) /\ (Waiting(s) => Waiting(t))
<1> DEFINE u == <<e>>
           t == s \o u
<1>1. u \in Stream /\ DOMAIN u = {1} /\ u[1] = e
  BY DEF Stream
<1>2. /\ t \in Stream
      /\ \A p \in DOMAIN s : p \in DOMAIN t /\ t[p] = s[p] /\ p <= Len(s)
      /\ \A q \in DOMAIN u : Len(s) + q \in DOMAIN t /\ t[Len(s) + q] = u[q] /\ ~(Len(s) + q <= Len(s))
      /\ \A p \in DOMAIN t : p \in DOMAIN s \/ \E q \in DOMAIN u : p = Len(s) + q
  BY <1>1, AppendedAt
<1> SUFFICES Orderly(t) /\ (Waiting(s) => Waiting(t))
  BY <1>2
<1> HIDE DEF t, u
<1> DEFINE new == Len(s) + 1
<1>3. /\ Len(s) \in Nat /\ new \in DOMAIN t /\ t[new] = e /\ \A p \in DOMAIN s : p < new /\ p \in Nat
      /\ \A p \in DOMAIN t : p \in DOMAIN s \/ p = new
  BY <1>1, <1>2, Positions DEF Stream
<1> HIDE DEF new
<1>4. \A p \in Calls(t) : (p \in Calls(s) /\ s[p] = t[p]) \/ p = new
  BY <1>2, <1>3, CallPlacement
<1>5. \A p \in Results(t) : p \in Results(s) /\ s[p] = t[p]
  BY <1>2, <1>3, CallPlacement
<1>6. \A r \in Fences(t) : r \in Fences(s) /\ r < new
  BY <1>2, <1>3, CallPlacement
<1>7. \A p \in Calls(s) : s[p].id # e.id
  BY CallPlacement
<1>8. \A p \in Results(s) : s[p].id # e.id
  BY CallPlacement
<1>9. Orderly(t)
  <2>1. \A p, q \in Calls(t) : t[p].id = t[q].id => p = q
    BY <1>3, <1>4, <1>7 DEF Orderly
  <2>2. \A p, q \in Results(t) : t[p].id = t[q].id => p = q
    BY <1>5 DEF Orderly
  <2>3. ASSUME NEW p \in Calls(t), NEW q \in Results(t), t[p].id = t[q].id
        PROVE  p < q /\ \A r \in Fences(t) : r < p \/ q < r
    <3>1. p # new
      BY <1>3, <1>5, <1>8, <2>3
    <3> QED
      BY <1>4, <1>5, <1>6, <2>3, <3>1 DEF Orderly
  <2> QED
    BY <2>1, <2>2, <2>3 DEF Orderly
<1>10. ASSUME Waiting(s) PROVE Waiting(t)
  <2>1. \A id : id \in Ids(s, "result") => id \in Ids(t, "result")
    BY <1>2, CallPlacement
  <2> QED
    BY <1>4, <1>6, <1>10, <2>1 DEF Waiting
<1> QED
  BY <1>9, <1>10

\* The results of open calls, one for each.
LEMMA OrderlyResults ==
  ASSUME NEW s \in Stream, NEW u \in Stream, Orderly(s), Waiting(s),
         \A q \in DOMAIN u : u[q].kind = "result" /\ u[q].id \in Ids(s, "call") /\ u[q].id \notin Ids(s, "result"),
         \A q, r \in DOMAIN u : u[q].id = u[r].id => q = r
  PROVE  Orderly(s \o u) /\ Waiting(s \o u)
<1> DEFINE t == s \o u
<1>1. /\ t \in Stream
      /\ \A p \in DOMAIN s : p \in DOMAIN t /\ t[p] = s[p] /\ p <= Len(s)
      /\ \A q \in DOMAIN u : Len(s) + q \in DOMAIN t /\ t[Len(s) + q] = u[q] /\ ~(Len(s) + q <= Len(s))
      /\ \A p \in DOMAIN t : p \in DOMAIN s \/ \E q \in DOMAIN u : p = Len(s) + q
  BY AppendedAt
<1> SUFFICES Orderly(t) /\ Waiting(t)
  OBVIOUS
<1> HIDE DEF t
<1>2. Len(s) \in Nat /\ \A p \in DOMAIN s : p \in Nat
  BY Positions DEF Stream
<1>3. \A p \in Calls(t) : p \in Calls(s) /\ s[p] = t[p]
  BY <1>1, CallPlacement
<1>4. \A r \in Fences(t) : r \in Fences(s)
  BY <1>1, CallPlacement
<1>5. ASSUME NEW p \in Results(t)
      PROVE  \/ p \in Results(s) /\ s[p] = t[p] /\ t[p].id \in Ids(s, "result")
             \/ \E q \in DOMAIN u : p = Len(s) + q /\ t[p] = u[q] /\ ~(p <= Len(s)) /\ p \in Nat
  BY <1>1, CallPlacement
<1>6. ASSUME NEW p \in Results(t), NEW q \in Results(t), t[p].id = t[q].id PROVE p = q
  <2>1. CASE p \in Results(s) /\ s[p] = t[p] /\ t[p].id \in Ids(s, "result")
    BY <1>5, <1>6, <2>1 DEF Orderly
  <2>2. CASE \E x \in DOMAIN u : p = Len(s) + x /\ t[p] = u[x]
    BY <1>5, <1>6, <2>2
  <2> QED
    BY <1>5, <2>1, <2>2
<1>7. ASSUME NEW p \in Calls(t), NEW q \in Results(t), t[p].id = t[q].id
      PROVE  p < q /\ \A r \in Fences(t) : r < p \/ q < r
  <2>1. CASE q \in Results(s) /\ s[q] = t[q]
    BY <1>3, <1>4, <1>7, <2>1 DEF Orderly
  <2>2. CASE \E x \in DOMAIN u : q = Len(s) + x /\ t[q] = u[x] /\ ~(q <= Len(s)) /\ q \in Nat
    <3>1. s[p].id \notin Ids(s, "result") /\ p \in Calls(s)
      BY <1>3, <1>7, <2>2
    <3>2. \A r \in Fences(t) : r < p
      BY <1>4, <3>1 DEF Waiting
    <3>3. p <= Len(s) /\ p \in Nat
      BY <1>1, <1>2, <3>1, CallPlacement
    <3> QED
      BY <1>2, <2>2, <3>2, <3>3
  <2> QED
    BY <1>5, <2>1, <2>2
<1>8. Waiting(t)
  <2>1. \A id : id \in Ids(s, "result") => id \in Ids(t, "result")
    BY <1>1, CallPlacement
  <2> QED
    BY <1>3, <1>4, <2>1 DEF Waiting
<1> QED
  BY <1>3, <1>6, <1>7, <1>8 DEF Orderly

\* The current turn is what is behind the last TurnStart.
LEMMA CurrentAt ==
  ASSUME NEW s \in Stream
  PROVE  LET cur == CurrentTurn(s)
             last == LastOf(Turns(s))
         IN  /\ cur \in Stream /\ last \in Nat
             /\ \A x \in DOMAIN cur : last + x \in DOMAIN s /\ cur[x] = s[last + x] /\ x \in Nat
             /\ \A p \in DOMAIN s : last < p => \E x \in DOMAIN cur : p = last + x
             /\ \A i \in Turns(s) : i <= last
             /\ last = 0 \/ last \in Turns(s)
<1> DEFINE cur == CurrentTurn(s)
           last == LastOf(Turns(s))
           n == Len(s)
<1>1. s \in Seq(Event) /\ DOMAIN s = 1 .. n /\ n \in Nat
  BY Positions DEF Stream
<1>2. Turns(s) \subseteq 1 .. Len(s) /\ Len(s) \in Nat
  BY <1>1 DEF Turns, Where
<1>3. last \in 0 .. n /\ (\A i \in Turns(s) : i <= last) /\ (last = 0 \/ last \in Turns(s))
  BY <1>2, LastAmong
<1>4. cur = SubSeq(s, last + 1, n)
  BY DEF CurrentTurn, Turns
<1>5. cur \in Stream
  BY <1>1, CurrentTyped DEF Stream
<1> HIDE DEF cur, last
<1>6. /\ Len(cur) = n - last /\ DOMAIN cur = 1 .. n - last
      /\ \A x \in 1 .. n - last : cur[x] = s[last + x]
  <2>1. last \in Nat /\ n \in Nat /\ last <= n
    BY <1>1, <1>3
  <2> DEFINE first == last + 1
  <2>2. first \in 1 .. n + 1 /\ (n - first) + 1 = n - last
    <3> HIDE DEF n
    <3> QED
      BY <2>1
  <2>3. cur = SubSeq(s, first, n)
    BY <1>4
  <2> HIDE DEF first
  <2>4. Len(cur) = (n - first) + 1 /\ DOMAIN cur = 1 .. (n - first) + 1
    BY <1>1, <2>2, <2>3
  <2>5. ASSUME NEW x \in 1 .. (n - first) + 1 PROVE cur[x] = s[(first + x) - 1]
    BY <1>1, <2>2, <2>3
  <2>6. ASSUME NEW x \in 1 .. n - last PROVE (first + x) - 1 = last + x
    <3> HIDE DEF n
    <3> QED
      BY <2>1 DEF first
  <2> QED
    BY <2>2, <2>4, <2>5, <2>6
<1> HIDE DEF n
<1>7. \A x \in DOMAIN cur : last + x \in DOMAIN s /\ cur[x] = s[last + x] /\ x \in Nat
  <2>1. \A x \in 1 .. n - last : last + x \in 1 .. n /\ x \in Nat
    BY <1>1, <1>3
  <2> QED
    BY <1>1, <1>6, <2>1
<1>8. ASSUME NEW p \in DOMAIN s, last < p PROVE \E x \in DOMAIN cur : p = last + x
  <2>1. p - last \in 1 .. n - last /\ p = last + (p - last)
    BY <1>1, <1>3, <1>8
  <2> QED
    BY <1>6, <2>1
<1>9. last \in Nat
  BY <1>1, <1>3
<1> QED
  BY <1>3, <1>5, <1>7, <1>8, <1>9 DEF cur, last

\* A call of the current turn that is counted more often than its results is open.
LEMMA AnswerableOpen ==
  ASSUME NEW s \in Stream, Orderly(s), NEW id \in Ids(CurrentTurn(s), "call"), Answerable(s, "call", "result", id)
  PROVE  id \in Ids(s, "call") /\ id \notin Ids(s, "result")
<1> DEFINE cur == CurrentTurn(s)
           last == LastOf(Turns(s))
           C == {i \in Where(cur, {"call"}) : cur[i].id = id}
           R == {i \in Where(cur, {"result"}) : cur[i].id = id}
<1>1. /\ cur \in Stream /\ last \in Nat
      /\ \A x \in DOMAIN cur : last + x \in DOMAIN s /\ cur[x] = s[last + x] /\ x \in Nat
      /\ \A p \in DOMAIN s : last < p => \E x \in DOMAIN cur : p = last + x
  BY CurrentAt
<1>2. Cardinality(R) < Cardinality(C)
  BY DEF Answerable, Count
<1>3. id \in Ids(cur, "call")
  OBVIOUS
<1>4. (\A x : x \in C <=> x \in DOMAIN cur /\ cur[x].kind = "call" /\ cur[x].id = id)
      /\ (\A x : x \in R <=> x \in DOMAIN cur /\ cur[x].kind = "result" /\ cur[x].id = id)
  BY DEF Where
<1>10. R \subseteq 1 .. Len(cur) /\ Len(cur) \in Nat
  <2>1. DOMAIN cur = 1 .. Len(cur) /\ Len(cur) \in Nat
    BY <1>1, Positions DEF Stream
  <2> QED
    BY <2>1 DEF Where
<1> HIDE DEF cur, last, C, R
<1>5. PICK x \in DOMAIN cur : cur[x].kind = "call" /\ cur[x].id = id
  BY <1>1, <1>3, CallPlacement
<1> DEFINE c == last + x
<1>6. c \in DOMAIN s /\ s[c] = cur[x] /\ x \in Nat /\ c \in Calls(s) /\ s[c].id = id
  BY <1>1, <1>5, CallPlacement
<1>7. \A y \in C : y = x
  <2> SUFFICES ASSUME NEW y \in C PROVE y = x
    OBVIOUS
  <2>1. y \in DOMAIN cur /\ cur[y].kind = "call" /\ cur[y].id = id
    BY <1>4
  <2>2. last + y \in Calls(s) /\ s[last + y].id = id /\ y \in Nat
    BY <1>1, <2>1, CallPlacement
  <2>3. last + y = c
    BY <1>6, <2>2 DEF Orderly
  <2> QED
    BY <1>1, <1>6, <2>2, <2>3
<1>8. C = {x}
  BY <1>4, <1>5, <1>7
<1>9. Cardinality(C) = 1
  BY <1>8, FS_Singleton
<1>11. IsFiniteSet(R) /\ Cardinality(R) \in Nat
  <2>1. IsFiniteSet(1 .. Len(cur))
    BY <1>10, FS_Interval
  <2>2. IsFiniteSet(R)
    BY <1>10, <2>1, FS_Subset
  <2> QED
    BY <2>2, FS_CardinalityType
<1>12. R = {}
  <2>1. Cardinality(R) = 0
    BY <1>2, <1>9, <1>11
  <2> QED
    BY <1>11, <2>1, FS_EmptySet
<1>13. ASSUME NEW j \in DOMAIN s, s[j].kind = "result", s[j].id = id PROVE FALSE
  <2>1. j \in Results(s) /\ j \in Nat
    BY <1>13, CallPlacement
  <2>2. c < j
    BY <1>6, <1>13, <2>1 DEF Orderly
  <2>3. last < j
    BY <1>1, <1>6, <2>1, <2>2
  <2>4. PICK y \in DOMAIN cur : j = last + y
    BY <1>1, <1>13, <2>3
  <2>5. cur[y] = s[j]
    BY <1>1, <2>4
  <2> QED
    BY <1>4, <1>12, <1>13, <2>4, <2>5
<1> QED
  BY <1>6, <1>13, CallPlacement

\* What every state of the stream satisfies.
Sound(s) == s \in Stream /\ Started(s) /\ Directed(s) /\ Orderly(s)
SoundProgress ==
  /\ Sound(stream)
  /\ ~Idle => Asks(stream) # {}
  /\ Running => Waiting(stream)

LEMMA SoundSpared ==
  ASSUME NEW s, Sound(s), NEW t \in Stream, Spared(s, t)
  PROVE  Sound(t) /\ (Asks(s) # {} => Asks(t) # {}) /\ (Waiting(s) => Waiting(t))
BY StartedShorter, DirectedSpared, OrderlyShorter, AsksSpared, WaitingSpared DEF Sound

LEMMA SoundSanitized ==
  ASSUME NEW s, Sound(s)
  PROVE  LET t == Sanitized(s) IN
         /\ Sound(t) /\ Waiting(t) /\ Matched(t)
         /\ Asks(s) # {} => Asks(t) # {} /\ Opening(t)
<1> DEFINE t == Sanitized(s)
<1>1. s \in Stream
  BY DEF Sound
<1>2. t \in Stream /\ Started(t) /\ (Asks(s) # {} => Opening(t) /\ Asks(t) # {})
  BY <1>1, SanitizedOpens
<1>3. Directed(t) /\ Orderly(t) /\ Matched(t)
  BY <1>1, DirectedSanitized, OrderlySanitized, MatchedSanitized DEF Sound
<1> HIDE DEF t
<1>4. Waiting(t)
  BY <1>2, <1>3, CallPlacement DEF Waiting, Matched
<1> QED
  BY <1>2, <1>3, <1>4 DEF Sound, t

LEMMA SoundTrimmed ==
  ASSUME NEW s, Sound(s), NEW trim \in {"none", "replay_turn", "pop_request"}
  PROVE  Sound(Trimmed(s, trim))
<1>0. s \in Stream
  BY DEF Sound
<1>1. ASSUME NEW t \in Stream, Shorter(s, t) PROVE Sound(TrailingTurnTrimmed(t))
  <2>1. Started(t) /\ AlmostDirected(t) /\ Orderly(t)
    BY <1>0, <1>1, StartedShorter, DirectedShorter, OrderlyShorter DEF Sound
  <2> DEFINE r == TrailingTurnTrimmed(t)
  <2>2. r \in Stream /\ Shorter(t, r)
    BY TrailingTrimmedShorter
  <2>3. Directed(r)
    BY <2>1, DirectedTrailingTrimmed
  <2> HIDE DEF r
  <2>4. Started(r) /\ Orderly(r)
    BY <2>1, <2>2, StartedShorter, OrderlyShorter
  <2>5. Sound(r)
    BY <2>2, <2>3, <2>4 DEF Sound
  <2> QED
    BY <2>5 DEF r
<1>4. CASE trim = "none"
  <2>1. Trimmed(s, trim) = s
    BY <1>4 DEF Trimmed
  <2> QED
    BY <2>1
<1>5. CASE trim = "replay_turn"
  <2>1. Trimmed(s, trim) = TrailingTurnTrimmed(ChatRequestTrimmed(s))
    BY <1>5 DEF Trimmed
  <2> QED
    BY <1>0, <1>1, <2>1, ChatRequestTrimmedShorter
<1>6. CASE trim = "pop_request"
  <2>1. Trimmed(s, trim) = TrailingTurnTrimmed(RequestPopped(s))
    BY <1>6 DEF Trimmed
  <2> QED
    BY <1>0, <1>1, <2>1, RequestPoppedShorter
<1> QED
  BY <1>4, <1>5, <1>6

LEMMA SoundStartTurn ==
  ASSUME NEW s, Sound(s), NEW n \in Nat
  PROVE  LET t == StartTurn(s, n) IN Sound(t) /\ Asks(t) # {}
<1> DEFINE u == <<Turn(n), Ask(n)>>
           t == s \o u
<1>1. s \in Stream /\ StartTurn(s, n) = t
  BY DEF Sound, StartTurn
<1>2. u \in Stream /\ DOMAIN u = {1, 2} /\ u[1].kind = "turn" /\ u[2].kind = "ask"
  BY NewEvents DEF Stream
<1>3. t \in Stream /\ Directed(t)
  BY <1>1, DirectedStartTurn DEF Sound
<1> HIDE DEF u
<1>4. \A q \in DOMAIN u : \E r \in DOMAIN u : r <= q /\ u[r].kind = "turn"
  BY <1>2
<1>5. Started(t)
  BY <1>1, <1>2, <1>4, StartedAppended DEF Sound
<1>6. Orderly(t)
  BY <1>1, <1>2, OrderlyAppended DEF Sound
<1>7. Len(s) + 2 \in DOMAIN t /\ t[Len(s) + 2] = u[2]
  BY <1>1, <1>2, AppendedAt
<1> HIDE DEF t
<1>8. Asks(t) # {}
  BY <1>2, <1>3, <1>7, Placement
<1> QED
  BY <1>1, <1>3, <1>5, <1>6, <1>8 DEF Sound

\* One event of the conversation, behind a request.
LEMMA SoundPushed ==
  ASSUME NEW s, Sound(s), Asks(s) # {}, NEW e \in Event, e.kind \notin {"turn", "call", "result"}
  PROVE  LET t == s \o <<e>> IN
         Sound(t) /\ Asks(t) # {} /\ (Waiting(s) /\ e.kind # "ask" => Waiting(t))
<1> DEFINE u == <<e>>
           t == s \o u
<1>1. s \in Stream /\ Turns(s) # {}
  BY Placement DEF Sound, Started
<1>2. u \in Stream /\ DOMAIN u = {1} /\ u[1] = e
  BY DEF Stream
<1> HIDE DEF u
<1>3. t \in Stream /\ \A p \in DOMAIN s : p \in DOMAIN t /\ t[p] = s[p]
  BY <1>1, <1>2, AppendedAt
<1>4. Directed(t)
  BY <1>1, <1>2, DirectedAppended DEF Sound
<1>5. Started(t)
  BY <1>1, <1>2, StartedAppended DEF Sound
<1>6. Orderly(t) /\ (Waiting(s) /\ e.kind # "ask" => Waiting(t))
  BY <1>1, <1>2, OrderlyAppended DEF Sound
<1>7. Asks(t) # {}
  <2> HIDE DEF t
  <2> QED
    BY <1>1, <1>3, Placement
<1> QED
  BY <1>3, <1>4, <1>5, <1>6, <1>7 DEF Sound, u

LEMMA UnansweredOpen ==
  ASSUME Sound(stream), NEW id \in Unanswered
  PROVE  id \in Ids(stream, "call") /\ id \notin Ids(stream, "result")
BY AnswerableOpen DEF Unanswered, Sound

LEMMA SoundToolResults ==
  ASSUME Progress, Progress', SoundProgress, ToolResults
  PROVE  SoundProgress'
<1> DEFINE cur == CurrentTurn(stream)
           S == {i \in Where(cur, {"call"}) : cur[i].id \in Unanswered}
           calls == Pick(cur, S)
           u == [k \in DOMAIN calls |-> Paired("result", calls[k].id, clock)]
           last == LastOf(Turns(stream))
<1>1. stream \in Stream /\ Sound(stream) /\ Waiting(stream) /\ Asks(stream) # {} /\ clock \in Nat
  BY ClockFacts DEF SoundProgress, Sound, ToolResults, Running, Idle
<1>2. /\ cur \in Stream /\ last \in Nat
      /\ \A x \in DOMAIN cur : last + x \in DOMAIN stream /\ cur[x] = stream[last + x] /\ x \in Nat
  BY <1>1, CurrentAt
<1>3. calls \in Stream /\ IsPlaced(calls, cur, S)
  BY <1>2, PickPlaces DEF Stream
<1>4. stream' = stream \o u
  BY DEF ToolResults
<1>5. \A x \in S : x \in DOMAIN cur /\ cur[x].kind = "call" /\ cur[x].id \in Unanswered
  BY DEF Where
<1> HIDE DEF calls, S
<1>6. PICK place : PlacedAt(place, calls, cur, S)
  BY <1>3 DEF IsPlaced
<1>7. DOMAIN calls = 1 .. Len(calls) /\ Len(calls) \in Nat
  BY <1>3, Positions DEF Stream
<1>8. ASSUME NEW k \in DOMAIN calls
      PROVE  /\ place[k] \in S /\ calls[k] = cur[place[k]]
             /\ calls[k].id \in Ids(stream, "call") /\ calls[k].id \notin Ids(stream, "result")
             /\ last + place[k] \in Calls(stream) /\ stream[last + place[k]].id = calls[k].id
             /\ place[k] \in Nat
  <2>1. place[k] \in S /\ calls[k] = cur[place[k]]
    BY <1>6, <1>7 DEF PlacedAt
  <2>2. calls[k].id \in Unanswered /\ place[k] \in DOMAIN cur /\ cur[place[k]].kind = "call"
    BY <1>5, <2>1
  <2>3. calls[k].id \in Ids(stream, "call") /\ calls[k].id \notin Ids(stream, "result")
    BY <1>1, <2>2, UnansweredOpen
  <2>4. last + place[k] \in DOMAIN stream /\ stream[last + place[k]] = calls[k] /\ place[k] \in Nat
    BY <1>2, <2>1, <2>2
  <2> QED
    BY <1>1, <2>1, <2>2, <2>3, <2>4, CallPlacement
<1>9. ASSUME NEW k \in DOMAIN calls, NEW l \in DOMAIN calls, calls[k].id = calls[l].id PROVE k = l
  <2>1. last + place[k] = last + place[l]
    BY <1>1, <1>8, <1>9 DEF Sound, Orderly
  <2>2. place[k] = place[l]
    BY <1>2, <1>8, <2>1
  <2>3. k \in Nat /\ l \in Nat
    BY <1>7
  <2> QED
    BY <1>6, <1>7, <1>8, <2>2, <2>3 DEF PlacedAt
<1>10. ASSUME NEW k \in DOMAIN calls
       PROVE  u[k] \in Event /\ u[k].kind = "result" /\ u[k].id = calls[k].id
  <2>1. calls[k].id \in Nat
    <3>1. calls[k] \in Event
      BY <1>3, Positions DEF Stream
    <3>2. calls[k].kind = "call"
      BY <1>5, <1>8
    <3> QED
      BY <3>1, <3>2, EventFacts DEF Identified
  <2> DEFINE id == calls[k].id
  <2>2. u[k] = Paired("result", id, clock)
    OBVIOUS
  <2> HIDE DEF u
  <2> QED
    BY <1>1, <2>1, <2>2, NewEvents DEF Identified
<1>11. u \in Stream /\ DOMAIN u = DOMAIN calls
  BY <1>7, <1>10 DEF Stream
<1> HIDE DEF u, cur, last
<1>12. Orderly(stream') /\ Waiting(stream')
  BY <1>1, <1>4, <1>8, <1>9, <1>10, <1>11, OrderlyResults DEF Sound
<1>13. stream' \in Stream /\ \A p \in DOMAIN stream : p \in DOMAIN stream' /\ stream'[p] = stream[p]
  BY <1>1, <1>4, <1>11, AppendedAt
<1>14. Turns(stream) # {}
  BY <1>1, Placement DEF Sound, Started
<1>15. Started(stream')
  BY <1>1, <1>4, <1>11, <1>14, StartedAppended DEF Sound
<1>16. Directed(stream')
  BY <1>1, <1>4, <1>10, <1>11, DirectedAppended DEF Sound
<1>17. Asks(stream') # {}
  BY <1>1, <1>13, Placement
<1> QED
  BY <1>12, <1>13, <1>15, <1>16, <1>17 DEF SoundProgress, Sound

LEMMA SoundPush ==
  ASSUME Progress, SoundProgress, ~Idle, NEW e \in Event, e.kind \notin {"turn", "call", "result"}, NEW then,
         Push(e, then), then \in {"stream", "tools"} => Running /\ e.kind # "ask"
  PROVE  SoundProgress'
<1>1. Sound(stream) /\ Asks(stream) # {} /\ (Running => Waiting(stream)) /\ stream \in Stream
  BY DEF SoundProgress, Sound
<1>2. stream' = stream \o <<e>>
  BY <1>1 DEF Push, Stream
<1>3. /\ Sound(stream') /\ Asks(stream') # {}
      /\ Waiting(stream) /\ e.kind # "ask" => Waiting(stream')
  BY <1>1, <1>2, SoundPushed
<1>4. Running' => then \in {"stream", "tools"}
  BY DEF Push, Running
<1> QED
  BY <1>1, <1>3, <1>4 DEF SoundProgress

LEMMA NextSound == ASSUME Progress, Progress', SoundProgress, [Next]_vars PROVE SoundProgress'
<1>0. /\ clock \in Nat /\ clock >= 1 /\ stream \in Seq(Past(clock)) /\ stream \in Stream /\ WellRanged(stream)
      /\ base \in Values /\ Sound(stream) /\ (~Idle => Asks(stream) # {}) /\ (Running => Waiting(stream))
  BY ClockFacts, PastStream DEF Progress, SoundProgress
<1>1. ASSUME NEW trim \in {"none", "replay_turn", "pop_request"}, Query(trim) PROVE SoundProgress'
  <2> DEFINE t == Trimmed(Sanitized(stream), trim)
  <2>1. Sound(t)
    BY <1>0, SoundSanitized, SoundTrimmed
  <2>2. stream' = StartTurn(t, clock) /\ phase' = "request"
    BY <1>1 DEF Query
  <2> HIDE DEF t
  <2>3. Sound(stream') /\ Asks(stream') # {}
    BY <1>0, <2>1, <2>2, SoundStartTurn
  <2> QED
    BY <2>2, <2>3 DEF SoundProgress, Running
<1>2. CASE Content
  <2>1. PICK part \in Parts : Push(Told(part, clock), "stream")
    BY <1>2 DEF Content
  <2>2. part \in {"say", "think"}
    BY ConstantsAssumption
  <2>3. Told(part, clock) \in Event /\ Told(part, clock).kind = part
    BY <1>0, <2>2, NewEvents
  <2>4. Running /\ ~Idle
    BY <1>2 DEF Content, Streaming, Running, Idle
  <2> QED
    BY <2>1, <2>2, <2>3, <2>4, SoundPush
<1>3. CASE CallTool
  <2> DEFINE e == Paired("call", clock, clock)
  <2>1. e \in Event /\ e.kind = "call" /\ e.id = clock
    BY <1>0, NewEvents DEF Identified
  <2>2. stream' = Append(stream, e) /\ phase' = "stream" /\ Running /\ ~Idle
    BY <1>3 DEF CallTool, Push, Streaming, Running, Idle
  <2> HIDE DEF e
  <2>3. stream' = stream \o <<e>>
    BY <1>0, <2>1, <2>2 DEF Stream
  <2>4. e.id \notin Ids(stream, "call") /\ e.id \notin Ids(stream, "result")
    BY <1>0, <2>1, IdsPast DEF Identified
  <2>5. Orderly(stream') /\ Waiting(stream') /\ stream' \in Stream
    BY <1>0, <2>1, <2>2, <2>3, <2>4, OrderlyCall DEF Sound
  <2>6. Turns(stream) # {} /\ Asks(stream) # {}
    BY <1>0, <2>2, Placement DEF Sound, Started
  <2>7. <<e>> \in Stream /\ DOMAIN <<e>> = {1} /\ <<e>>[1] = e
    BY <2>1 DEF Stream
  <2> DEFINE u == <<e>>
  <2>8. u \in Stream /\ (\A q \in DOMAIN u : u[q].kind # "turn") /\ stream' = stream \o u
    BY <2>1, <2>3, <2>7
  <2> HIDE DEF u
  <2>9. Started(stream') /\ Directed(stream')
    BY <1>0, <2>6, <2>8, StartedAppended, DirectedAppended DEF Sound
  <2>10. \A p \in DOMAIN stream : p \in DOMAIN stream' /\ stream'[p] = stream[p]
    BY <1>0, <2>8, AppendedAt
  <2>11. Asks(stream') # {}
    BY <1>0, <2>5, <2>6, <2>10, Placement
  <2> QED
    BY <2>5, <2>9, <2>11 DEF SoundProgress, Sound
<1>4. CASE Reply
  <2>1. Ask(clock) \in Event /\ Ask(clock).kind = "ask"
    BY <1>0, NewEvents
  <2>2. ~Idle /\ Push(Ask(clock), "request")
    BY <1>4 DEF Reply, Streaming, Idle
  <2> QED
    BY <2>1, <2>2, SoundPush
<1>5. ASSUME Running, NEW id \in Unanswered, NEW kind \in {"question", "answer"}, Push(Paired(kind, id, clock), "tools")
      PROVE  SoundProgress'
  <2>1. id \in Ids(stream, "call")
    BY <1>0, <1>5, UnansweredOpen
  <2>2. id \in Nat
    BY <1>0, <2>1, IdsPast DEF Identified
  <2>3. Paired(kind, id, clock) \in Event /\ Paired(kind, id, clock).kind = kind
    BY <1>0, <2>2, NewEvents DEF Identified
  <2>4. ~Idle
    BY <1>5 DEF Running, Idle
  <2> QED
    BY <1>5, <2>3, <2>4, SoundPush
<1>6. CASE Question
  BY <1>5, <1>6 DEF Question
<1>7. CASE Answer
  BY <1>5, <1>7 DEF Answer
<1>8. CASE ToolResults
  BY <1>8, SoundToolResults
<1>9. CASE Refused
  <2>1. stream' \in Stream /\ Spared(stream, stream') /\ Running /\ ~Idle
    BY <1>0, <1>9, ResponsesPoppedSpared DEF Refused, Streaming, Running, Idle
  <2>2. Sound(stream') /\ Asks(stream') # {} /\ Waiting(stream')
    BY <1>0, <2>1, SoundSpared
  <2> QED
    BY <2>2 DEF SoundProgress
<1>10. CASE Cycle
  <2>1. stream' = Sanitized(stream) /\ ~Idle
    BY <1>10 DEF Cycle
  <2>2. Sound(stream') /\ Asks(stream') # {} /\ Waiting(stream')
    BY <1>0, <2>1, SoundSanitized
  <2> QED
    BY <2>2 DEF SoundProgress
<1>11. CASE End \/ UNCHANGED vars
  BY <1>0, <1>11 DEF End, vars, SoundProgress, Idle, Running
\* The commands that are not a turn.
<1>20. ASSUME Sound(stream'), Idle, phase' = phase PROVE SoundProgress'
  BY <1>20 DEF SoundProgress, Idle, Running
<1>12. ASSUME NEW value \in Values, Configure(value) PROVE SoundProgress'
  <2>1. CASE stream' # stream
    <3> DEFINE e == Delta(value, clock)
    <3>1. stream' = Append(stream, e)
      BY <1>12, <2>1 DEF Configure, WithDelta
    <3>2. e \in Event /\ e.kind = "config"
      BY <1>0, NewEvents
    <3> HIDE DEF e
    <3>3. stream' = stream \o <<e>>
      BY <1>0, <3>1, <3>2 DEF Stream
    <3> DEFINE u == <<e>>
    <3>4. u \in Stream /\ (\A q \in DOMAIN u : IsGlobal(u[q])) /\ stream' = stream \o u
      BY <3>2, <3>3 DEF Stream, IsGlobal
    <3> HIDE DEF u
    <3>5. stream' \in Stream /\ Spared(stream, stream')
      BY <1>0, <3>4, AppendedSpared
    <3> QED
      BY <1>0, <1>12, <1>20, <3>5, SoundSpared DEF Configure
  <2> QED
    BY <1>0, <1>12, <1>20, <2>1 DEF Configure
<1>13. ASSUME NEW removed \in {Overlays(stream)} \cup {{i} : i \in Overlays(stream)}, Reset(removed) PROVE SoundProgress'
  <2>1. removed \subseteq Overlays(stream)
    OBVIOUS
  <2>2. stream' \in Stream /\ Spared(stream, stream')
    BY <1>0, <1>13, <2>1, ResetSpared DEF Reset
  <2> QED
    BY <1>0, <1>13, <1>20, <2>2, SoundSpared DEF Reset
<1>14. CASE Compact
  <2>1. PICK rules \in RuleLists : stream' = Compacted(stream, rules, clock)
    BY <1>14 DEF Compact
  <2>2. rules \in Seq(Rule)
    BY <1>0, RulesTyped
  <2>3. stream' \in Stream /\ Spared(stream, stream')
    BY <1>0, <2>1, <2>2, CompactedSpared
  <2> QED
    BY <1>0, <1>14, <1>20, <2>3, SoundSpared DEF Compact
<1>15. CASE Fork
  <2>1. PICK filtered \in Filtered : stream' = Extended(base, Sanitized(filtered))
    BY <1>15 DEF Fork, Copies
  <2>2. filtered \in Stream /\ Directed(filtered) /\ Orderly(filtered)
    BY <1>0, FilteredEmbeds, DirectedFiltered, OrderlySelected DEF Sound
  <2> DEFINE copy == Sanitized(filtered)
  <2>3. copy \in Stream /\ Started(copy) /\ Directed(copy) /\ Orderly(copy)
    BY <2>2, SanitizedOpens, DirectedSanitized, OrderlySanitized
  <2>4. Sound(copy)
    BY <2>3 DEF Sound
  <2>5. stream' = Extended(base, copy)
    BY <2>1
  <2> HIDE DEF copy
  <2>6. stream' \in Stream /\ Spared(copy, stream')
    BY <1>0, <2>3, <2>5, ExtendedSpared
  <2> QED
    BY <1>15, <1>20, <2>4, <2>6, SoundSpared DEF Fork
<1>16. CASE ForkConfigOnly
  <2>1. stream' = <<>> /\ <<>> \in Stream
    BY <1>16 DEF ForkConfigOnly, Stream
  <2>2. Sound(stream')
    BY <2>1, Placement DEF Sound, Started, Directed, Orderly, Calls, Results, Where, Turns, Conversation
  <2> QED
    BY <1>16, <1>20, <2>2 DEF ForkConfigOnly
<1> QED
  BY <1>1, <1>2, <1>3, <1>4, <1>6, <1>7, <1>8, <1>9, <1>10, <1>11, <1>12, <1>13, <1>14, <1>15,
     <1>16 DEF Next

\* The inductive invariant: the stream begins with a TurnStart, one behind
\* anything else is directly followed by its request, calls and results are in
\* order, and a turn that runs has a request.
THEOREM StreamsStaySound == Spec => [](Progress /\ SoundProgress)
<1>1. Init => SoundProgress
  <2> SUFFICES ASSUME Init PROVE SoundProgress
    OBVIOUS
  <2>1. stream = <<>> /\ phase = "idle" /\ <<>> \in Stream
    BY DEF Init, Stream
  <2> QED
    BY <2>1 DEF SoundProgress, Sound, Started, Directed, Orderly, Calls, Results, Where, Turns, Conversation, Idle, Running
<1>2. Progress /\ SoundProgress /\ [Next]_vars => (Progress /\ SoundProgress)'
  BY NextTyped, NextSound
<1> QED
  BY <1>1, <1>2, InitProgress, PTL DEF Spec

-----------------------------------------------------------------------------
(* The numbers of the turns.                                               *)

First(s) == FirstOf(Conversation(s))
Opened(s, i) == {j \in First(s) + 1 .. i : s[j].kind = "turn"}

LEMMA OpenedFinite ==
  ASSUME NEW s \in Stream, NEW i \in 0 .. Len(s)
  PROVE  /\ TurnOf(s, i) = Cardinality(Opened(s, i)) /\ IsFiniteSet(Opened(s, i)) /\ TurnOf(s, i) \in Nat
         /\ First(s) \in Nat /\ First(s) <= Len(s)
<1>1. First(s) \in 0 .. Len(s) /\ Len(s) \in Nat
  BY Positions, FirstAmong DEF First, Stream
<1> DEFINE c == First(s)
<1> HIDE DEF c
<1>2. c \in Int /\ i \in Int
  BY <1>1 DEF c
<1>3. IsFiniteSet(c + 1 .. i)
  BY <1>2, FS_Interval
<1>4. Opened(s, i) \subseteq c + 1 .. i
  BY DEF Opened, c
<1>5. IsFiniteSet(Opened(s, i))
  BY <1>3, <1>4, FS_Subset
<1>6. TurnOf(s, i) = Cardinality(Opened(s, i))
  BY DEF TurnOf, Opened, First
<1>7. Cardinality(Opened(s, i)) \in Nat
  BY <1>5, FS_CardinalityType
<1> QED
  BY <1>1, <1>5, <1>6, <1>7

\* A turn number grows with the position, and exactly at the TurnStarts behind
\* the first event of the conversation.
LEMMA TurnsGrow ==
  ASSUME NEW s \in Stream, NEW i \in 0 .. Len(s), NEW j \in 0 .. Len(s), i <= j
  PROVE  /\ TurnOf(s, i) <= TurnOf(s, j)
         /\ TurnOf(s, i) = TurnOf(s, j) <=> \A k \in Turns(s) : ~(i < k /\ k <= j /\ First(s) < k)
<1> DEFINE A == Opened(s, i)
           B == Opened(s, j)
<1>1. /\ TurnOf(s, i) = Cardinality(A) /\ IsFiniteSet(A) /\ TurnOf(s, i) \in Nat
      /\ TurnOf(s, j) = Cardinality(B) /\ IsFiniteSet(B) /\ TurnOf(s, j) \in Nat
      /\ First(s) \in Nat /\ First(s) <= Len(s)
  BY OpenedFinite
<1>2. /\ \A k : k \in A <=> k \in First(s) + 1 .. i /\ s[k].kind = "turn"
      /\ \A k : k \in B <=> k \in First(s) + 1 .. j /\ s[k].kind = "turn"
  BY DEF Opened
<1>3. i \in Nat /\ j \in Nat /\ Len(s) \in Nat /\ i <= Len(s) /\ j <= Len(s)
  BY Positions DEF Stream
<1>4. \A k : k \in Turns(s) <=> k \in 1 .. Len(s) /\ s[k].kind = "turn"
  BY Placement, Positions DEF Stream
<1> HIDE DEF A, B
<1>5. A \subseteq B
  BY <1>1, <1>2, <1>3
<1>6. Cardinality(A) <= Cardinality(B) /\ (Cardinality(A) = Cardinality(B) => A = B)
  BY <1>1, <1>5, FS_Subset
<1>7. A = B <=> \A k \in B : k \in A
  BY <1>5
<1>8. (\A k \in B : k \in A) <=> \A k \in Turns(s) : ~(i < k /\ k <= j /\ First(s) < k)
  <2>1. ASSUME \A k \in B : k \in A, NEW k \in Turns(s), i < k, k <= j, First(s) < k PROVE FALSE
    <3>1. k \in 1 .. Len(s) /\ s[k].kind = "turn"
      BY <1>4
    <3>2. k \in First(s) + 1 .. j
      BY <1>1, <1>3, <2>1, <3>1
    <3>3. k \in First(s) + 1 .. i
      BY <1>2, <2>1, <3>1, <3>2
    <3> QED
      BY <1>1, <1>3, <2>1, <3>3
  <2>2. ASSUME \A k \in Turns(s) : ~(i < k /\ k <= j /\ First(s) < k), NEW k \in B PROVE k \in A
    <3>1. k \in First(s) + 1 .. j /\ s[k].kind = "turn"
      BY <1>2
    <3>2. k \in 1 .. Len(s) /\ First(s) < k /\ k <= j
      BY <1>1, <1>3, <3>1
    <3>3. k \in Turns(s)
      BY <1>4, <3>1, <3>2
    <3>4. k \in First(s) + 1 .. i
      BY <1>1, <1>3, <2>2, <3>1, <3>2, <3>3
    <3> QED
      BY <1>2, <3>1, <3>4
  <2> QED
    BY <2>1, <2>2
<1> QED
  BY <1>1, <1>6, <1>7, <1>8

\* The turns of a stream that is started: each one has a TurnStart, which is its
\* first event, and they are numbered in order from 0.
LEMMA TurnPlaces ==
  ASSUME NEW s \in Stream, Started(s), Conversation(s) # {}
  PROVE  /\ First(s) \in Turns(s) /\ TurnOf(s, First(s)) = 0
         /\ \A i \in Conversation(s) : First(s) <= i
         /\ TurnCount(s) \in Nat /\ TurnCount(s) >= 1
         /\ \A i \in Conversation(s) : TurnOf(s, i) \in 0 .. TurnCount(s) - 1
         /\ \A i, j \in Conversation(s) : i <= j => TurnOf(s, i) <= TurnOf(s, j)
         /\ \A i \in Conversation(s), j \in Turns(s) : i < j => TurnOf(s, i) < TurnOf(s, j)
<1> DEFINE c == First(s)
           n == Len(s)
<1>1. /\ n \in Nat /\ Turns(s) \subseteq Conversation(s)
      /\ \A i \in Conversation(s) : i \in 1 .. n /\ i \in 0 .. n /\ i \in Nat /\ i <= n
  BY Placement
<1>2. c \in Conversation(s) /\ (\A i \in Conversation(s) : c <= i) /\ c \in Nat
  <2>1. Conversation(s) \subseteq 1 .. n
    BY <1>1
  <2>2. n \in Nat
    BY <1>1
  <2>3. FirstOf(Conversation(s)) \in Conversation(s) /\ \A i \in Conversation(s) : FirstOf(Conversation(s)) <= i
    BY <2>1, <2>2, FirstAmong
  <2> QED
    BY <1>1, <2>3 DEF First
<1>3. c \in Turns(s)
  <2>1. PICK j \in Turns(s) : j <= c
    BY <1>2 DEF Started
  <2>2. j \in Conversation(s) /\ c <= j /\ j \in Nat
    BY <1>1, <1>2
  <2>3. j = c
    BY <1>2, <2>1, <2>2
  <2> QED
    BY <2>1, <2>3
<1> HIDE DEF c, n
<1>4. ASSUME NEW i \in Conversation(s), NEW j \in Conversation(s), i <= j
      PROVE  TurnOf(s, i) <= TurnOf(s, j)
  <2>1. i \in 0 .. Len(s) /\ j \in 0 .. Len(s)
    BY <1>1 DEF n
  <2> QED
    BY <1>4, <2>1, TurnsGrow
<1>5. \A i \in Conversation(s) : TurnOf(s, i) \in Nat
  BY <1>1, OpenedFinite DEF n
<1>6. ASSUME NEW i \in Conversation(s), NEW j \in Turns(s), i < j PROVE TurnOf(s, i) < TurnOf(s, j)
  <2>1. i \in 0 .. Len(s) /\ j \in 0 .. Len(s) /\ i \in Nat /\ j \in Nat /\ c <= i
    BY <1>1, <1>2 DEF n
  <2>2. i <= j /\ j <= j /\ c < j
    BY <1>2, <1>6, <2>1
  <2>3. TurnOf(s, i) <= TurnOf(s, j) /\ TurnOf(s, i) # TurnOf(s, j)
    BY <1>6, <2>1, <2>2, TurnsGrow DEF c
  <2>4. j \in Conversation(s)
    BY <1>1
  <2> QED
    BY <1>5, <2>3, <2>4
<1>7. TurnOf(s, c) = 0
  <2>1. c \in 0 .. Len(s) /\ Opened(s, c) = {}
    <3>1. c + 1 .. c = {}
      BY <1>2
    <3> QED
      BY <1>1, <1>2, <3>1 DEF Opened, c, n
  <2> QED
    BY <2>1, OpenedFinite, FS_EmptySet
<1>8. TurnCount(s) = TurnOf(s, Len(s)) + 1 /\ TurnOf(s, Len(s)) \in Nat
  <2>1. Len(s) \in 0 .. Len(s)
    BY <1>1 DEF n
  <2> QED
    BY <2>1, OpenedFinite DEF TurnCount
<1>9. ASSUME NEW i \in Conversation(s) PROVE TurnOf(s, i) \in 0 .. TurnCount(s) - 1
  <2>1. i \in 0 .. Len(s) /\ Len(s) \in 0 .. Len(s) /\ i <= Len(s)
    BY <1>1 DEF n
  <2>2. TurnOf(s, i) <= TurnOf(s, Len(s))
    BY <2>1, TurnsGrow
  <2> QED
    BY <1>5, <1>8, <2>2
<1>10. TurnCount(s) \in Nat /\ TurnCount(s) >= 1
  BY <1>8
<1> QED
  BY <1>2, <1>3, <1>4, <1>6, <1>7, <1>9, <1>10 DEF c

\* The TurnStart an event is behind.
LEMMA TurnBehind ==
  ASSUME NEW s \in Stream, Started(s), NEW i \in Conversation(s)
  PROVE  \E j \in Turns(s) : j <= i /\ TurnOf(s, j) = TurnOf(s, i) /\ \A k \in Turns(s) : k <= i => k <= j
<1> DEFINE S == {j \in Turns(s) : j <= i}
<1>1. /\ Turns(s) \subseteq Conversation(s)
      /\ \A x \in Conversation(s) : x \in Nat /\ x \in 0 .. Len(s) /\ x <= Len(s)
  BY Placement
<1>2. S \subseteq Nat /\ S # {} /\ i \in Nat /\ \A y \in S : y <= i
  BY <1>1 DEF Started
<1>3. Max(S) \in S /\ \A y \in S : y <= Max(S)
  <2> HIDE DEF S
  <2> QED
    BY <1>2, GreatestNat
<1>4. PICK j \in S : \A y \in S : y <= j
  BY <1>3
<1>5. j \in Turns(s) /\ j <= i /\ \A k \in Turns(s) : k <= i => k <= j
  BY <1>4
<1>6. j \in 0 .. Len(s) /\ i \in 0 .. Len(s) /\ j \in Nat
  BY <1>1, <1>5
<1>7. \A k \in Turns(s) : ~(j < k /\ k <= i /\ First(s) < k)
  <2> SUFFICES ASSUME NEW k \in Turns(s), j < k, k <= i PROVE FALSE
    OBVIOUS
  <2>1. k <= j /\ k \in Nat
    BY <1>1, <1>5
  <2> QED
    BY <1>6, <2>1
<1> HIDE DEF S
<1>8. TurnOf(s, j) = TurnOf(s, i)
  BY <1>5, <1>6, <1>7, TurnsGrow
<1> QED
  BY <1>5, <1>8

LEMMA TurnStarts ==
  ASSUME NEW s \in Stream, Started(s), Conversation(s) # {}
  PROVE  /\ \A i \in Turns(s) : i = Min(TurnEvents(s, TurnOf(s, i)))
         /\ \A i \in Conversation(s) : i = Min(TurnEvents(s, TurnOf(s, i))) => i \in Turns(s)
         /\ \A t \in 0 .. TurnCount(s) - 1 : \E i \in Turns(s) : TurnOf(s, i) = t
<1>1. /\ Turns(s) \subseteq Conversation(s)
      /\ \A x \in Conversation(s) : x \in Nat /\ x \in 0 .. Len(s) /\ x <= Len(s)
  BY Placement
<1>2. /\ First(s) \in Turns(s) /\ TurnOf(s, First(s)) = 0
      /\ \A i \in Conversation(s) : First(s) <= i
      /\ TurnCount(s) \in Nat /\ TurnCount(s) >= 1
      /\ \A i \in Conversation(s) : TurnOf(s, i) \in 0 .. TurnCount(s) - 1
      /\ \A i, j \in Conversation(s) : i <= j => TurnOf(s, i) <= TurnOf(s, j)
      /\ \A i \in Conversation(s), j \in Turns(s) : i < j => TurnOf(s, i) < TurnOf(s, j)
  BY TurnPlaces
<1>3. ASSUME NEW i \in Conversation(s)
      PROVE  LET E == TurnEvents(s, TurnOf(s, i)) IN
             /\ i \in E /\ E \subseteq Conversation(s) /\ Min(E) \in E /\ \A x \in E : Min(E) <= x
             /\ \A x \in E : TurnOf(s, x) = TurnOf(s, i)
  <2> DEFINE E == TurnEvents(s, TurnOf(s, i))
  <2>1. i \in E /\ E \subseteq Conversation(s) /\ \A x \in E : TurnOf(s, x) = TurnOf(s, i)
    BY DEF TurnEvents
  <2> HIDE DEF E
  <2>2. E \subseteq Nat /\ E # {}
    BY <1>1, <2>1
  <2>3. Min(E) \in E /\ \A x \in E : Min(E) <= x
    BY <2>2, LeastNat
  <2> QED
    BY <2>1, <2>3 DEF E
<1>4. ASSUME NEW i \in Turns(s) PROVE i = Min(TurnEvents(s, TurnOf(s, i)))
  <2> DEFINE x == Min(TurnEvents(s, TurnOf(s, i)))
  <2>1. i \in Conversation(s)
    BY <1>1
  <2>2. x \in Conversation(s) /\ TurnOf(s, x) = TurnOf(s, i) /\ x <= i
    BY <1>3, <2>1
  <2> HIDE DEF x
  <2>3. ~(x < i)
    <3> SUFFICES ASSUME x < i PROVE FALSE
      OBVIOUS
    <3>1. TurnOf(s, x) < TurnOf(s, i) /\ TurnOf(s, i) \in 0 .. TurnCount(s) - 1
      BY <1>2, <2>1, <2>2
    <3> QED
      BY <2>2, <3>1
  <2>4. x \in Nat /\ i \in Nat
    BY <1>1, <2>1, <2>2
  <2>5. x = i
    BY <2>2, <2>3, <2>4
  <2> QED
    BY <2>5 DEF x
<1>5. ASSUME NEW i \in Conversation(s), i = Min(TurnEvents(s, TurnOf(s, i))) PROVE i \in Turns(s)
  <2>1. PICK j \in Turns(s) : j <= i /\ TurnOf(s, j) = TurnOf(s, i)
    BY TurnBehind
  <2>2. j = Min(TurnEvents(s, TurnOf(s, j)))
    BY <1>4
  <2>3. j = i
    BY <1>5, <2>1, <2>2
  <2> QED
    BY <2>3
<1>6. ASSUME NEW i \in Turns(s), NEW t \in Nat, TurnOf(s, i) = t, t + 1 <= TurnCount(s) - 1
      PROVE  \E j \in Turns(s) : TurnOf(s, j) = t + 1
  <2> DEFINE n == Len(s)
             S == {j \in Turns(s) : i < j}
  <2>0. n \in 0 .. n /\ i \in 0 .. n /\ i \in Nat /\ n \in Nat /\ i <= n
    <3>1. Len(s) \in Nat /\ i \in Conversation(s)
      BY <1>1, Placement
    <3> QED
      BY <1>1, <3>1
  <2>1. TurnOf(s, n) = TurnCount(s) - 1 /\ TurnOf(s, n) \in Nat
    BY <2>0, OpenedFinite DEF TurnCount
  <2>2. PICK y \in Turns(s) : i < y
    <3>1. TurnOf(s, i) # TurnOf(s, n)
      BY <1>6, <1>2, <2>1
    <3> QED
      BY <2>0, <3>1, TurnsGrow
  <2>3. S # {} /\ S \subseteq Nat
    BY <1>1, <2>2
  <2> HIDE DEF S, n
  <2>4. Min(S) \in S /\ \A x \in S : Min(S) <= x
    BY <2>3, LeastNat
  <2>5. PICK j \in S : \A x \in S : j <= x
    BY <2>4
  <2>6. j \in Turns(s) /\ i < j /\ j \in Nat /\ j \in 0 .. n /\ j >= 1
    BY <1>1, <2>0, <2>5 DEF S, n
  <2> DEFINE k == j - 1
  <2>7. k \in 0 .. n /\ i <= k /\ k <= j /\ k \in Nat /\ k < j
    BY <2>0, <2>6
  <2> HIDE DEF k
  <2>8. TurnOf(s, i) = TurnOf(s, k)
    <3>1. \A x \in Turns(s) : ~(i < x /\ x <= k /\ First(s) < x)
      <4> SUFFICES ASSUME NEW x \in Turns(s), i < x, x <= k PROVE FALSE
        OBVIOUS
      <4>1. x \in S /\ x \in Nat
        BY <1>1 DEF S
      <4>2. j <= x
        BY <2>5, <4>1
      <4> QED
        BY <2>6, <2>7, <4>1, <4>2
    <3> QED
      BY <2>0, <2>7, <3>1, TurnsGrow DEF n
  <2>9. TurnOf(s, j) = TurnOf(s, k) + 1
    <3>1. Opened(s, j) = Opened(s, k) \cup {j} /\ j \notin Opened(s, k)
      <4>1. s[j].kind = "turn" /\ First(s) < j /\ First(s) \in Nat
        <5>1. First(s) <= i /\ First(s) \in Nat
          BY <1>1, <1>2
        <5> QED
          BY <2>0, <2>6, <5>1, Placement
      <4>2. k = j - 1
        BY DEF k
      <4>3. First(s) + 1 .. j = (First(s) + 1 .. k) \cup {j} /\ j \notin First(s) + 1 .. k
        BY <2>6, <4>1, <4>2
      <4> QED
        BY <4>1, <4>3 DEF Opened
    <3>2. IsFiniteSet(Opened(s, k)) /\ TurnOf(s, k) = Cardinality(Opened(s, k)) /\ TurnOf(s, j) = Cardinality(Opened(s, j))
      BY <2>6, <2>7, OpenedFinite DEF n
    <3>3. Cardinality(Opened(s, j)) = Cardinality(Opened(s, k)) + 1
      BY <3>1, <3>2, FS_AddElement
    <3> QED
      BY <3>2, <3>3
  <2> QED
    BY <1>6, <2>6, <2>8, <2>9
<1>7. ASSUME NEW t \in 0 .. TurnCount(s) - 1 PROVE \E i \in Turns(s) : TurnOf(s, i) = t
  <2> DEFINE S == {k \in 0 .. t : \E i \in Turns(s) : TurnOf(s, i) = k}
  <2>1. 0 \in S
    BY <1>2
  <2>2. ASSUME NEW k \in 0 .. t - 1, k \in S PROVE k + 1 \in S
    <3>1. k \in Nat /\ k + 1 \in 0 .. t /\ k + 1 <= TurnCount(s) - 1
      BY <1>2
    <3> QED
      BY <1>6, <2>2, <3>1
  <2>3. t \in Nat
    OBVIOUS
  <2> HIDE DEF S
  <2>4. t \in S
    BY <2>1, <2>2, <2>3, InductionUpTo
  <2> QED
    BY <2>4 DEF S
<1> QED
  BY <1>4, <1>5, <1>7

-----------------------------------------------------------------------------
(* The view.                                                               *)

\* What the view leaves out, shows as it is, and shows a summary for.
Hidden(s, i) ==
  \/ s[i].kind = "think" /\ ReasoningOf(s, TurnOf(s, i)) # 0
  \/ IsToolEvent(s[i]) /\ ToolsOf(s, TurnOf(s, i)) # 0 /\ "omit" \in s[ToolsOf(s, TurnOf(s, i))].policy
Boundary(s, t) == SummaryOf(s, t) = 0 \/ t = 0 \/ SummaryOf(s, t - 1) # SummaryOf(s, t)
Plain(s, i) ==
  \/ s[i].kind = "config"
  \/ i \in Conversation(s) /\ SummaryOf(s, TurnOf(s, i)) = 0 /\ ~Hidden(s, i)
Heads(s, i) ==
  /\ i \in Conversation(s) /\ SummaryOf(s, TurnOf(s, i)) # 0
  /\ i = Min(TurnEvents(s, TurnOf(s, i))) /\ Boundary(s, TurnOf(s, i))
Slots(s, i) == IF Plain(s, i) THEN {1} ELSE IF Heads(s, i) THEN {1, 2, 3} ELSE {}
Item(s, i) == [event |-> s[i], origin |-> Kept(TurnOf(s, i))]

LEMMA ShownCases ==
  ASSUME NEW s \in Stream, NEW i \in DOMAIN s
  PROVE  /\ Plain(s, i) => Shown(s, i) = <<Item(s, i)>> /\ ~Heads(s, i)
         /\ Heads(s, i) => Shown(s, i) = SummaryTurn(s, TurnOf(s, i))
         /\ ~Plain(s, i) /\ ~Heads(s, i) => Shown(s, i) = <<>>
<1> DEFINE t == TurnOf(s, i)
           k == s[i].kind
           starts == i = Min(TurnEvents(s, t)) /\ (t = 0 \/ SummaryOf(s, t - 1) # SummaryOf(s, t))
<1>1. Shown(s, i) =
        IF k = "config" THEN <<Item(s, i)>>
        ELSE IF k = "overlay" THEN <<>>
        ELSE IF SummaryOf(s, t) # 0 THEN IF starts THEN SummaryTurn(s, t) ELSE <<>>
        ELSE IF Hidden(s, i) THEN <<>> ELSE <<Item(s, i)>>
  BY DEF Shown, Hidden, Item
<1>2. i \in Conversation(s) <=> k # "config" /\ k # "overlay"
  BY Placement
<1>3. Plain(s, i) <=> k = "config" \/ (k # "config" /\ k # "overlay" /\ SummaryOf(s, t) = 0 /\ ~Hidden(s, i))
  BY <1>2 DEF Plain
<1>4. Heads(s, i) <=> k # "config" /\ k # "overlay" /\ SummaryOf(s, t) # 0 /\ starts
  BY <1>2 DEF Heads, Boundary
<1> HIDE DEF t, k, starts
<1>5. Heads(s, i) => Shown(s, i) = SummaryTurn(s, t)
  BY <1>1, <1>4
<1>6. Plain(s, i) => Shown(s, i) = <<Item(s, i)>> /\ ~Heads(s, i)
  BY <1>1, <1>3, <1>4
<1>7. ~Plain(s, i) /\ ~Heads(s, i) => Shown(s, i) = <<>>
  BY <1>1, <1>3, <1>4
<1> QED
  BY <1>5, <1>6, <1>7 DEF t

\* Where what is shown for an event lies in the view.
ViewAt(s, at) ==
  LET view == Projected(s) IN
  /\ DOMAIN view = 1 .. Len(view) /\ Len(view) \in Nat
  /\ \A i \in DOMAIN s : \A q \in Slots(s, i) :
       /\ At(at, i, q) \in DOMAIN view
       /\ view[At(at, i, q)] = IF Plain(s, i) THEN Item(s, i) ELSE SummaryTurn(s, TurnOf(s, i))[q]
  /\ \A p \in DOMAIN view : \E i \in DOMAIN s : \E q \in Slots(s, i) : p = At(at, i, q)
  /\ \A i, j \in DOMAIN s : i < j => \A q \in Slots(s, i), r \in Slots(s, j) : At(at, i, q) < At(at, j, r)
  /\ \A i \in DOMAIN s : \A q, r \in Slots(s, i) : At(at, i, q) < At(at, i, r) <=> q < r

LEMMA ViewPlaces ==
  ASSUME NEW s \in Stream
  PROVE  (\E at : ViewAt(s, at)) /\ \E E : Projected(s) \in Seq(E)
<1> DEFINE E == {Shown(s, i)[q] : i \in DOMAIN s, q \in {1, 2, 3}}
           seqs == [i \in DOMAIN s |-> Shown(s, i)]
           n == Len(s)
<1>1. DOMAIN s = 1 .. n /\ n \in Nat
  BY Positions DEF Stream
<1>2. ASSUME NEW i \in DOMAIN s
      PROVE  Shown(s, i) \in Seq(E) /\ Len(Shown(s, i)) \in Nat /\ 1 .. Len(Shown(s, i)) = Slots(s, i)
  <2> DEFINE x == Shown(s, i)
  <2>1. x[1] \in E /\ x[2] \in E /\ x[3] \in E
    OBVIOUS
  <2>2. CASE Plain(s, i)
    <3>1. x = <<Item(s, i)>>
      BY <2>2, ShownCases
    <3>2. Slots(s, i) = {1}
      BY <2>2 DEF Slots
    <3> HIDE DEF x, E
    <3>3. x[1] = Item(s, i)
      BY <3>1
    <3>4. Item(s, i) \in E
      BY <2>1, <3>3
    <3>5. x \in Seq(E) /\ Len(x) = 1
      BY <3>1, <3>4
    <3>6. 1 .. 1 = {1}
      OBVIOUS
    <3> QED
      BY <3>2, <3>5, <3>6 DEF x
  <2>3. CASE ~Plain(s, i) /\ Heads(s, i)
    <3>1. x = SummaryTurn(s, TurnOf(s, i))
      BY <2>3, ShownCases
    <3>2. PICK a, b, c : x = <<a, b, c>>
      BY <3>1 DEF SummaryTurn
    <3>3. Slots(s, i) = {1, 2, 3}
      BY <2>3 DEF Slots
    <3> HIDE DEF x, E
    <3>4. x[1] = a /\ x[2] = b /\ x[3] = c
      BY <3>2
    <3>5. a \in E /\ b \in E /\ c \in E
      BY <2>1, <3>4
    <3>6. x \in Seq(E) /\ Len(x) = 3
      BY <3>2, <3>5
    <3>7. 1 .. 3 = {1, 2, 3}
      OBVIOUS
    <3> QED
      BY <3>3, <3>6, <3>7 DEF x
  <2>4. CASE ~Plain(s, i) /\ ~Heads(s, i)
    <3>1. x = <<>>
      BY <2>4, ShownCases
    <3>2. Slots(s, i) = {}
      BY <2>4 DEF Slots
    <3> HIDE DEF x, E
    <3>3. x \in Seq(E) /\ Len(x) = 0 /\ 1 .. 0 = {}
      BY <3>1
    <3> QED
      BY <3>2, <3>3 DEF x
  <2> QED
    BY <2>2, <2>3, <2>4
<1> HIDE DEF E
<1>3. seqs \in Seq(Seq(E)) /\ Len(seqs) = n /\ \A i \in DOMAIN s : seqs[i] = Shown(s, i)
  <2>1. \A i \in 1 .. n : Shown(s, i) \in Seq(E)
    BY <1>1, <1>2
  <2>2. seqs = [i \in 1 .. n |-> Shown(s, i)]
    BY <1>1
  <2> HIDE DEF n
  <2>3. [i \in 1 .. n |-> Shown(s, i)] \in Seq(Seq(E))
    BY <1>1, <2>1
  <2>4. Len(seqs) = n
    BY <1>1, <2>2
  <2> QED
    BY <2>2, <2>3, <2>4
<1> DEFINE view == Projected(s)
<1>4. view = FlattenSeq(seqs)
  BY DEF Projected
<1> HIDE DEF seqs, view
<1>5. view \in Seq(E) /\ \E at : LaidOut(at, seqs, Len(seqs), view)
  BY <1>3, <1>4, FlattenPlaces
<1>6. PICK at : LaidOut(at, seqs, n, view)
  BY <1>3, <1>5
<1>7. \A i \in 1 .. n : Len(seqs[i]) \in Nat /\ 1 .. Len(seqs[i]) = Slots(s, i)
  BY <1>1, <1>2, <1>3
<1>8. /\ \A i \in 1 .. n : \A q \in 1 .. Len(seqs[i]) :
              At(at, i, q) \in DOMAIN view /\ view[At(at, i, q)] = seqs[i][q]
      /\ \A i, j \in 1 .. n : i < j =>
              \A q \in 1 .. Len(seqs[i]), r \in 1 .. Len(seqs[j]) : At(at, i, q) < At(at, j, r)
      /\ \A i \in 1 .. n : \A q, r \in 1 .. Len(seqs[i]) :
              At(at, i, q) < At(at, i, r) <=> q < r
      /\ \A p \in DOMAIN view : \E i \in 1 .. n : \E q \in 1 .. Len(seqs[i]) : p = At(at, i, q)
  <2> HIDE DEF n
  <2>1. Parted(n, seqs, at, view)
    BY <1>1, <1>5, <1>6, <1>7, PartsAt
  <2> QED
    BY <2>1 DEF Parted
<1>9. ASSUME NEW i \in DOMAIN s, NEW q \in Slots(s, i)
      PROVE  /\ At(at, i, q) \in DOMAIN view
             /\ view[At(at, i, q)] = IF Plain(s, i) THEN Item(s, i) ELSE SummaryTurn(s, TurnOf(s, i))[q]
  <2>1. At(at, i, q) \in DOMAIN view /\ view[At(at, i, q)] = Shown(s, i)[q]
    BY <1>1, <1>3, <1>7, <1>8
  <2>2. CASE Plain(s, i)
    <3>1. Shown(s, i) = <<Item(s, i)>> /\ q = 1
      BY <2>2, ShownCases DEF Slots
    <3>2. Shown(s, i)[q] = Item(s, i)
      BY <3>1
    <3> QED
      BY <2>1, <2>2, <3>2
  <2>3. CASE ~Plain(s, i)
    <3>1. Heads(s, i)
      BY <2>3 DEF Slots
    <3>2. Shown(s, i) = SummaryTurn(s, TurnOf(s, i))
      BY <3>1, ShownCases
    <3> QED
      BY <2>1, <2>3, <3>2
  <2> QED
    BY <2>2, <2>3
<1>10. DOMAIN view = 1 .. Len(view) /\ Len(view) \in Nat
  BY <1>5
<1>11. \A p \in DOMAIN view : \E i \in DOMAIN s : \E q \in Slots(s, i) : p = At(at, i, q)
  BY <1>1, <1>7, <1>8
<1>12. \A i, j \in DOMAIN s : i < j => \A q \in Slots(s, i), r \in Slots(s, j) : At(at, i, q) < At(at, j, r)
  BY <1>1, <1>7, <1>8
<1>13. \A i \in DOMAIN s : \A q, r \in Slots(s, i) : At(at, i, q) < At(at, i, r) <=> q < r
  BY <1>1, <1>7, <1>8
<1>14. ViewAt(s, at)
  BY <1>9, <1>10, <1>11, <1>12, <1>13 DEF ViewAt, view
<1> QED
  BY <1>5, <1>14 DEF view

\* The turns a turn of the view stands for: a run of equally summarized ones ends
\* before the next boundary.
Span(s, t) == IF SummaryOf(s, t) = 0 THEN Kept(t) ELSE Run(s, t)

LEMMA RunEnds ==
  ASSUME NEW s \in Stream, NEW t \in 0 .. TurnCount(s) - 1
  PROVE  LET u == Run(s, t).to IN
         /\ Run(s, t).from = t /\ u \in t .. TurnCount(s) - 1
         /\ \A v \in t .. u : SummaryOf(s, v) = SummaryOf(s, t)
         /\ SummaryOf(s, u + 1) # SummaryOf(s, t) \/ u = TurnCount(s) - 1
<1> DEFINE last == TurnCount(s) - 1
           sum(v) == SummaryOf(s, v)
           ends(u) == /\ \A v \in t .. u : sum(v) = sum(t)
                      /\ sum(u + 1) # sum(t) \/ u = last
           U == {u \in t .. last : \A v \in t .. u : sum(v) = sum(t)}
<1>1. TurnCount(s) \in Nat /\ t \in Nat /\ last \in Int /\ t <= last
  BY TurnsCounted
<1>5. Run(s, t) = [from |-> t, to |-> CHOOSE u \in t .. last : ends(u)]
  BY DEF Run
<1> HIDE DEF sum, last
<1>2. t \in U
  BY <1>1
<1>3. U \subseteq Nat /\ last \in Nat /\ \A u \in U : u <= last
  BY <1>1
<1> HIDE DEF U
<1>4. Max(U) \in U /\ \A u \in U : u <= Max(U)
  BY <1>2, <1>3, GreatestNat
<1> DEFINE x == Max(U)
<1>6. x \in t .. last /\ \A v \in t .. x : sum(v) = sum(t)
  BY <1>4 DEF U
<1>7. x \in U /\ \A u \in U : u <= x
  BY <1>4
<1> HIDE DEF x
<1>8. sum(x + 1) # sum(t) \/ x = last
  <2> SUFFICES ASSUME sum(x + 1) = sum(t), x # last PROVE FALSE
    OBVIOUS
  <2>1. x + 1 \in t .. last /\ x \in Nat
    BY <1>1, <1>6
  <2>2. \A v \in t .. x + 1 : v \in t .. x \/ v = x + 1
    BY <1>1, <2>1
  <2>3. x + 1 \in U
    BY <1>6, <2>1, <2>2 DEF U
  <2> QED
    BY <1>7, <2>1, <2>3
<1>9. \E u \in t .. last : ends(u)
  BY <1>6, <1>8
<1> DEFINE y == CHOOSE u \in t .. last : ends(u)
<1>10. y \in t .. last /\ ends(y)
  BY <1>9
<1>11. Run(s, t).from = t /\ Run(s, t).to = y
  BY <1>5
<1> HIDE DEF y
<1> QED
  BY <1>10, <1>11 DEF sum, last

LEMMA SpanEnds ==
  ASSUME NEW s \in Stream, NEW t \in 0 .. TurnCount(s) - 1
  PROVE  LET u == Span(s, t).to IN
         /\ Span(s, t).from = t /\ u \in t .. TurnCount(s) - 1
         /\ \A v \in t + 1 .. u : ~Boundary(s, v)
         /\ u = TurnCount(s) - 1 \/ Boundary(s, u + 1)
<1> DEFINE last == TurnCount(s) - 1
           u == Span(s, t).to
<1>1. TurnCount(s) \in Nat /\ t \in Nat /\ last \in Int /\ t <= last
  BY TurnsCounted
<1>2. CASE SummaryOf(s, t) = 0
  <2>1. Span(s, t).from = t /\ u = t
    BY <1>2 DEF Span, Kept
  <2>2. Boundary(s, t + 1)
    <3>1. (t + 1) - 1 = t
      BY <1>1
    <3> QED
      BY <1>2, <3>1 DEF Boundary
  <2> HIDE DEF u
  <2>3. t + 1 .. u = {} /\ u \in t .. last
    BY <1>1, <2>1
  <2> QED
    BY <2>1, <2>2, <2>3 DEF u
<1>3. CASE SummaryOf(s, t) # 0
  <2>1. Span(s, t) = Run(s, t)
    BY <1>3 DEF Span
  <2>2. /\ Span(s, t).from = t /\ u \in t .. last
        /\ \A v \in t .. u : SummaryOf(s, v) = SummaryOf(s, t)
        /\ SummaryOf(s, u + 1) # SummaryOf(s, t) \/ u = last
    BY <2>1, RunEnds
  <2> HIDE DEF u, last
  <2>3. ASSUME NEW v \in t + 1 .. u PROVE ~Boundary(s, v)
    <3>1. v \in t .. u /\ v - 1 \in t .. u /\ v # 0
      BY <1>1, <2>2
    <3>2. SummaryOf(s, v) = SummaryOf(s, t) /\ SummaryOf(s, v - 1) = SummaryOf(s, t)
      BY <2>2, <3>1
    <3> QED
      BY <1>3, <3>1, <3>2 DEF Boundary
  <2>4. u = last \/ Boundary(s, u + 1)
    <3>1. (u + 1) - 1 = u /\ u \in t .. u
      BY <1>1, <2>2
    <3>2. SummaryOf(s, u) = SummaryOf(s, t)
      BY <2>2, <3>1
    <3> QED
      BY <2>2, <3>1, <3>2 DEF Boundary
  <2> QED
    BY <2>2, <2>3, <2>4 DEF u, last
<1> QED
  BY <1>2, <1>3

\* Spans that begin at all the boundaries of 0 .. C - 1, and end before the next.
Spans(o, m, B, last) ==
  /\ \A k \in 1 .. m :
       /\ o[k].from \in B /\ o[k].to \in o[k].from .. last
       /\ \A v \in o[k].from + 1 .. o[k].to : v \notin B
       /\ o[k].to = last \/ o[k].to + 1 \in B
  /\ \A k, l \in 1 .. m : k < l => o[k].from < o[l].from
  /\ \A b \in B : \E k \in 1 .. m : o[k].from = b

LEMMA SpansPartition ==
  ASSUME NEW last \in Nat, NEW B, B \subseteq 0 .. last, 0 \in B, NEW m \in Nat, NEW o,
         Spans(o, m, B, last)
  PROVE  /\ m >= 1 /\ o[1].from = 0 /\ o[m].to = last
         /\ \A k \in 1 .. m - 1 : o[k + 1].from = o[k].to + 1
<1> DEFINE from(k) == o[k].from
           to(k) == o[k].to
<1>1. ASSUME NEW k \in 1 .. m
      PROVE  /\ from(k) \in B /\ from(k) \in Nat /\ to(k) \in Nat /\ from(k) <= to(k) /\ to(k) <= last
             /\ \A v \in B : ~(from(k) < v /\ v <= to(k))
             /\ to(k) = last \/ to(k) + 1 \in B
  <2>1. from(k) \in B /\ to(k) \in from(k) .. last /\ (\A v \in from(k) + 1 .. to(k) : v \notin B)
        /\ (to(k) = last \/ to(k) + 1 \in B)
    BY DEF Spans
  <2> HIDE DEF from, to
  <2>2. from(k) \in Nat /\ to(k) \in Nat /\ from(k) <= to(k) /\ to(k) <= last
    <3>1. from(k) \in 0 .. last
      BY <2>1
    <3> QED
      BY <2>1, <3>1
  <2>3. \A v \in B : v \in Nat
    OBVIOUS
  <2> QED
    BY <2>1, <2>2, <2>3
<1>2. \A k, l \in 1 .. m : k < l => from(k) < from(l)
  BY DEF Spans
<1>3. \A b \in B : \E k \in 1 .. m : from(k) = b
  BY DEF Spans
<1> HIDE DEF from, to
<1>4. m >= 1 /\ 1 \in 1 .. m /\ m \in 1 .. m
  BY <1>3
<1>5. from(1) = 0
  <2>1. PICK k \in 1 .. m : from(k) = 0
    BY <1>3
  <2>2. k = 1 \/ 1 < k
    OBVIOUS
  <2>3. from(1) \in Nat
    BY <1>1, <1>4
  <2> QED
    BY <1>2, <1>4, <2>1, <2>2, <2>3
<1>6. to(m) = last
  <2> SUFFICES ASSUME to(m) # last PROVE FALSE
    OBVIOUS
  <2>1. to(m) + 1 \in B /\ to(m) \in Nat /\ from(m) \in Nat /\ from(m) <= to(m)
    BY <1>1, <1>4
  <2>2. PICK k \in 1 .. m : from(k) = to(m) + 1
    BY <1>3, <2>1
  <2>3. k = m \/ k < m
    BY <1>4
  <2>4. from(k) <= from(m)
    BY <1>2, <1>4, <2>1, <2>2, <2>3
  <2> QED
    BY <2>1, <2>2, <2>4
<1>7. ASSUME NEW k \in 1 .. m - 1 PROVE from(k + 1) = to(k) + 1
  <2>1. k \in 1 .. m /\ k + 1 \in 1 .. m /\ k < k + 1 /\ k \in Nat
    OBVIOUS
  <2> DEFINE l == k + 1
  <2>2. l \in 1 .. m /\ k \in 1 .. m /\ k < l /\ \A x \in 1 .. m : x <= k \/ l <= x
    BY <2>1
  <2> HIDE DEF l
  <2>3. from(k) < from(l) /\ from(k) \in Nat /\ from(l) \in Nat /\ to(k) \in Nat /\ from(l) \in B
    BY <1>1, <1>2, <2>2
  <2>4. to(k) < from(l)
    BY <1>1, <2>2, <2>3
  <2>5. to(k) # last
    <3>1. from(l) <= last
      BY <2>3
    <3> QED
      BY <2>3, <2>4, <3>1
  <2>6. to(k) + 1 \in B
    BY <1>1, <2>2, <2>5
  <2>7. PICK x \in 1 .. m : from(x) = to(k) + 1
    BY <1>3, <2>6
  <2>8. ~(x <= k)
    <3> SUFFICES ASSUME x <= k PROVE FALSE
      OBVIOUS
    <3>1. from(x) <= from(k)
      <4>1. CASE x = k
        BY <2>3, <4>1
      <4>2. CASE x < k
        <5>1. from(x) < from(k) /\ from(x) \in Nat
          BY <1>1, <1>2, <2>2, <4>2
        <5> QED
          BY <2>3, <5>1
      <4> QED
        BY <2>1, <4>1, <4>2
    <3>2. from(k) <= to(k)
      BY <1>1, <2>2
    <3> QED
      BY <2>3, <2>7, <3>1, <3>2
  <2>9. from(l) <= from(x)
    <3>1. l <= x
      BY <2>2, <2>8
    <3>2. x = l \/ l < x
      BY <2>1, <3>1 DEF l
    <3>3. from(x) \in Nat
      BY <1>1
    <3> QED
      BY <1>2, <2>2, <2>3, <3>2, <3>3
  <2>10. from(l) = to(k) + 1
    BY <2>3, <2>4, <2>7, <2>9
  <2> QED
    BY <2>10 DEF l
<1> QED
  BY <1>4, <1>5, <1>6, <1>7 DEF from, to

\* The events that open the turns of the view: a TurnStart that is shown, or the
\* first one of a run of summarized turns.
Heading(s) == {i \in Turns(s) : Boundary(s, TurnOf(s, i))}

LEMMA SummaryTurnAt ==
  ASSUME NEW s, NEW t
  PROVE  LET x == SummaryTurn(s, t)
             n == s[SummaryOf(s, t)].n
         IN  /\ x[1] = [event |-> Turn(n), origin |-> Run(s, t)]
             /\ x[2] = [event |-> Ask(n), origin |-> Run(s, t)]
             /\ x[3] = [event |-> Told("summary", n), origin |-> Run(s, t)]
<1> DEFINE n == s[SummaryOf(s, t)].n
           a == [event |-> Turn(n), origin |-> Run(s, t)]
           b == [event |-> Ask(n), origin |-> Run(s, t)]
           c == [event |-> Told("summary", n), origin |-> Run(s, t)]
<1>1. SummaryTurn(s, t) = <<a, b, c>>
  BY DEF SummaryTurn
<1> HIDE DEF a, b, c
<1>2. SummaryTurn(s, t)[1] = a /\ SummaryTurn(s, t)[2] = b /\ SummaryTurn(s, t)[3] = c
  BY <1>1
<1> QED
  BY <1>2 DEF a, b, c

\* What the view has at its slots.
Shows(s, i, q, x) ==
  LET n == s[SummaryOf(s, TurnOf(s, i))].n
      r == Run(s, TurnOf(s, i))
  IN  \/ Plain(s, i) /\ ~Heads(s, i) /\ q = 1 /\ x = Item(s, i)
      \/ ~Plain(s, i) /\ Heads(s, i) /\ q = 1 /\ x = [event |-> Turn(n), origin |-> r]
      \/ ~Plain(s, i) /\ Heads(s, i) /\ q = 2 /\ x = [event |-> Ask(n), origin |-> r]
      \/ ~Plain(s, i) /\ Heads(s, i) /\ q = 3 /\ x = [event |-> Told("summary", n), origin |-> r]

LEMMA ViewEvents ==
  ASSUME NEW s \in Stream, NEW at, ViewAt(s, at), NEW i \in DOMAIN s, NEW q \in Slots(s, i)
  PROVE  At(at, i, q) \in DOMAIN Projected(s) /\ Shows(s, i, q, Projected(s)[At(at, i, q)])
<1> DEFINE p == At(at, i, q)
           x == Projected(s)[p]
           n == s[SummaryOf(s, TurnOf(s, i))].n
           r == Run(s, TurnOf(s, i))
<1>1. p \in DOMAIN Projected(s) /\ x = IF Plain(s, i) THEN Item(s, i) ELSE SummaryTurn(s, TurnOf(s, i))[q]
  BY DEF ViewAt
<1>2. /\ SummaryTurn(s, TurnOf(s, i))[1] = [event |-> Turn(n), origin |-> r]
      /\ SummaryTurn(s, TurnOf(s, i))[2] = [event |-> Ask(n), origin |-> r]
      /\ SummaryTurn(s, TurnOf(s, i))[3] = [event |-> Told("summary", n), origin |-> r]
  BY SummaryTurnAt
<1>3. Plain(s, i) => ~Heads(s, i)
  BY ShownCases
<1> HIDE DEF p, x, n, r
<1>4. CASE Plain(s, i)
  <2>1. q = 1
    BY <1>4 DEF Slots
  <2> QED
    BY <1>1, <1>3, <1>4, <2>1 DEF p, x, Shows
<1>5. CASE ~Plain(s, i)
  <2>1. Heads(s, i) /\ q \in {1, 2, 3}
    BY <1>5 DEF Slots
  <2> QED
    BY <1>1, <1>2, <1>5, <2>1 DEF p, x, n, r, Shows
<1> QED
  BY <1>4, <1>5

\* The kinds of what is in the view.
LEMMA ViewKinds ==
  ASSUME NEW s \in Stream, NEW at, ViewAt(s, at), NEW i \in DOMAIN s, NEW q \in Slots(s, i)
  PROVE  LET e == Projected(s)[At(at, i, q)].event IN
         /\ Plain(s, i) => e = s[i] /\ q = 1
         /\ Heads(s, i) => /\ ~Plain(s, i) /\ q \in {1, 2, 3} /\ ~IsGlobal(e)
                           /\ e.kind = "turn" <=> q = 1
                           /\ e.kind = "ask" <=> q = 2
                           /\ e.kind = "summary" <=> q = 3
         /\ Plain(s, i) \/ Heads(s, i)
<1> DEFINE e == Projected(s)[At(at, i, q)].event
           n == s[SummaryOf(s, TurnOf(s, i))].n
<1>1. \/ Plain(s, i) /\ ~Heads(s, i) /\ q = 1 /\ e = s[i]
      \/ ~Plain(s, i) /\ Heads(s, i) /\ q = 1 /\ e = Turn(n)
      \/ ~Plain(s, i) /\ Heads(s, i) /\ q = 2 /\ e = Ask(n)
      \/ ~Plain(s, i) /\ Heads(s, i) /\ q = 3 /\ e = Told("summary", n)
  <2> DEFINE x == Projected(s)[At(at, i, q)]
  <2>1. Shows(s, i, q, x)
    BY ViewEvents
  <2>2. e = x.event
    OBVIOUS
  <2> HIDE DEF x, e
  <2> QED
    BY <2>1, <2>2 DEF Shows, Item
<1>2. Turn(n).kind = "turn" /\ Ask(n).kind = "ask" /\ Told("summary", n).kind = "summary"
  BY DEF Turn, Ask, Told
<1> HIDE DEF e, n
<1> QED
  BY <1>1, <1>2 DEF IsGlobal, e

LEMMA ViewOrigins ==
  ASSUME NEW s \in Stream, NEW at, ViewAt(s, at), NEW i \in DOMAIN s, NEW q \in Slots(s, i),
         i \in Conversation(s)
  PROVE  Projected(s)[At(at, i, q)].origin = Span(s, TurnOf(s, i))
<1> DEFINE x == Projected(s)[At(at, i, q)]
           t == TurnOf(s, i)
<1>1. \/ Plain(s, i) /\ x.origin = Kept(t)
      \/ Heads(s, i) /\ x.origin = Run(s, t)
  <2>1. Shows(s, i, q, x)
    BY ViewEvents
  <2> HIDE DEF x
  <2> QED
    BY <2>1 DEF Shows, Item
<1>2. Plain(s, i) => SummaryOf(s, t) = 0
  BY Placement DEF Plain
<1>3. Heads(s, i) => SummaryOf(s, t) # 0
  BY DEF Heads
<1> QED
  BY <1>1, <1>2, <1>3 DEF Span

\* The TurnStarts of the view are at the headings.
LEMMA HeadingsShown ==
  ASSUME NEW s \in Stream, Started(s), NEW at, ViewAt(s, at)
  PROVE  /\ \A i \in Heading(s) :
              /\ i \in DOMAIN s /\ 1 \in Slots(s, i) /\ At(at, i, 1) \in DOMAIN Projected(s)
              /\ Projected(s)[At(at, i, 1)].event.kind = "turn"
         /\ \A p \in DOMAIN Projected(s) : Projected(s)[p].event.kind = "turn" =>
              \E i \in Heading(s) : p = At(at, i, 1)
<1>1. ASSUME NEW i \in Heading(s)
      PROVE  /\ i \in DOMAIN s /\ 1 \in Slots(s, i) /\ At(at, i, 1) \in DOMAIN Projected(s)
             /\ Projected(s)[At(at, i, 1)].event.kind = "turn"
  <2>1. i \in Turns(s) /\ Boundary(s, TurnOf(s, i)) /\ i \in Conversation(s) /\ i \in DOMAIN s /\ s[i].kind = "turn"
    BY Placement DEF Heading
  <2>2. Plain(s, i) \/ Heads(s, i)
    <3>1. CASE SummaryOf(s, TurnOf(s, i)) = 0
      <4>1. ~Hidden(s, i)
        BY <2>1 DEF Hidden, IsToolEvent
      <4> QED
        BY <2>1, <3>1, <4>1 DEF Plain
    <3>2. CASE SummaryOf(s, TurnOf(s, i)) # 0
      <4>1. i = Min(TurnEvents(s, TurnOf(s, i)))
        BY <2>1, TurnStarts
      <4> QED
        BY <2>1, <3>2, <4>1 DEF Heads
    <3> QED
      BY <3>1, <3>2
  <2>3. 1 \in Slots(s, i)
    BY <2>2 DEF Slots
  <2>4. At(at, i, 1) \in DOMAIN Projected(s)
    BY <2>1, <2>3, ViewEvents
  <2>5. Projected(s)[At(at, i, 1)].event.kind = "turn"
    <3>1. Plain(s, i) => Projected(s)[At(at, i, 1)].event = s[i]
      BY <2>1, <2>3, ViewKinds
    <3>2. Heads(s, i) => Projected(s)[At(at, i, 1)].event.kind = "turn"
      BY <2>1, <2>3, ViewKinds
    <3> QED
      BY <2>1, <2>2, <3>1, <3>2
  <2> QED
    BY <2>1, <2>3, <2>4, <2>5
<1>2. ASSUME NEW p \in DOMAIN Projected(s), Projected(s)[p].event.kind = "turn"
      PROVE  \E i \in Heading(s) : p = At(at, i, 1)
  <2>0. PICK i \in DOMAIN s : \E q \in Slots(s, i) : p = At(at, i, q)
    BY DEF ViewAt
  <2>1. PICK q \in Slots(s, i) : p = At(at, i, q)
    BY <2>0
  <2>2. CASE Plain(s, i)
    <3>1. s[i].kind = "turn" /\ q = 1
      BY <1>2, <2>1, <2>2, ViewKinds
    <3>2. i \in Turns(s)
      BY <3>1, Placement
    <3>3. SummaryOf(s, TurnOf(s, i)) = 0
      BY <2>2, <3>1 DEF Plain
    <3> QED
      BY <2>1, <3>1, <3>2, <3>3 DEF Heading, Boundary
  <2>3. CASE Heads(s, i)
    <3>1. q = 1
      BY <1>2, <2>1, <2>3, ViewKinds
    <3>2. i \in Conversation(s) /\ i = Min(TurnEvents(s, TurnOf(s, i))) /\ Boundary(s, TurnOf(s, i))
      BY <2>3 DEF Heads
    <3>3. i \in Turns(s)
      BY <3>2, TurnStarts
    <3> QED
      BY <2>1, <3>1, <3>2, <3>3 DEF Heading
  <2> QED
    BY <2>1, <2>2, <2>3, ViewKinds
<1> QED
  BY <1>1, <1>2

\* Order of the slots.
LEMMA SlotsOrdered ==
  ASSUME NEW s \in Stream, NEW at, ViewAt(s, at), NEW i \in DOMAIN s, NEW j \in DOMAIN s,
         NEW q \in Slots(s, i), NEW r \in Slots(s, j)
  PROVE  /\ At(at, i, q) \in Nat /\ At(at, j, r) \in Nat /\ i \in Nat /\ j \in Nat /\ q \in Nat /\ r \in Nat
         /\ At(at, i, q) < At(at, j, r) <=> i < j \/ (i = j /\ q < r)
         /\ At(at, i, q) = At(at, j, r) <=> i = j /\ q = r
         /\ At(at, i, q) <= At(at, j, r) <=> i < j \/ (i = j /\ q <= r)
<1> DEFINE x == At(at, i, q)
           y == At(at, j, r)
<1>1. x \in Nat /\ y \in Nat
  BY DEF ViewAt
<1>2. i \in Nat /\ j \in Nat
  BY Positions DEF Stream
<1>3. q \in Nat /\ r \in Nat
  BY DEF Slots
<1>4. i < j => x < y
  BY DEF ViewAt
<1>5. j < i => y < x
  BY DEF ViewAt
<1>6. i = j => (x < y <=> q < r) /\ (y < x <=> r < q)
  BY DEF ViewAt
<1>7. i = j /\ q = r => x = y
  OBVIOUS
<1> HIDE DEF x, y
<1>8. /\ x < y <=> i < j \/ (i = j /\ q < r)
      /\ x = y <=> i = j /\ q = r
      /\ x <= y <=> i < j \/ (i = j /\ q <= r)
  BY <1>1, <1>2, <1>3, <1>4, <1>5, <1>6, <1>7
<1> QED
  BY <1>1, <1>2, <1>3, <1>8 DEF x, y

\* The conversation events of the view come from those of the stream.
LEMMA ViewConversation ==
  ASSUME NEW s \in Stream, NEW at, ViewAt(s, at), NEW i \in DOMAIN s, NEW q \in Slots(s, i)
  PROVE  ~IsGlobal(Projected(s)[At(at, i, q)].event) <=> i \in Conversation(s)
<1>1. CASE Plain(s, i)
  <2>1. Projected(s)[At(at, i, q)].event = s[i]
    BY <1>1, ViewKinds
  <2> QED
    BY <2>1 DEF Conversation
<1>2. CASE Heads(s, i)
  <2>1. ~IsGlobal(Projected(s)[At(at, i, q)].event)
    BY <1>2, ViewKinds
  <2>2. i \in Conversation(s)
    BY <1>2 DEF Heads
  <2> QED
    BY <2>1, <2>2
<1> QED
  BY <1>1, <1>2, ViewKinds

\* What is picked, with the places it was at.
LEMMA PickedAt ==
  ASSUME NEW E, NEW s \in Seq(E), NEW S, NEW place, PlacedAt(place, Pick(s, S), s, S)
  PROVE  LET p == Pick(s, S) IN
         /\ Len(p) \in Nat /\ DOMAIN p = 1 .. Len(p)
         /\ \A k \in DOMAIN p : place[k] \in DOMAIN s /\ place[k] \in S /\ p[k] = s[place[k]]
         /\ \A k, l \in DOMAIN p : k < l => place[k] < place[l]
         /\ \A i \in DOMAIN s : i \in S => \E k \in DOMAIN p : place[k] = i
<1> DEFINE p == Pick(s, S)
<1>1. p \in Seq(E)
  BY PickPlaces
<1> HIDE DEF p
<1>2. Len(p) \in Nat /\ DOMAIN p = 1 .. Len(p) /\ DOMAIN s = 1 .. Len(s)
  BY <1>1
<1>3. PlacedAt(place, p, s, S)
  BY DEF p
<1> QED
  BY <1>2, <1>3 DEF PlacedAt, p

OpenersOf(view) ==
  LET events == [i \in DOMAIN view |-> view[i].event]
  IN  Where(events, {"turn"}) \cup {FirstOf(Conversation(events))}

LEMMA Openers ==
  ASSUME NEW s \in Stream, Started(s), NEW at, ViewAt(s, at)
  PROVE  IF Conversation(s) = {} THEN OpenersOf(Projected(s)) = {0}
         ELSE OpenersOf(Projected(s)) = {At(at, i, 1) : i \in Heading(s)}
<1> DEFINE view == Projected(s)
           events == [i \in DOMAIN view |-> view[i].event]
           C == Conversation(events)
           W == Where(events, {"turn"})
<1>1. DOMAIN events = DOMAIN view /\ \A p \in DOMAIN view : events[p] = view[p].event
  OBVIOUS
<1>2. \A p : p \in C <=> p \in DOMAIN view /\ ~IsGlobal(view[p].event)
  BY <1>1 DEF Conversation
<1>3. \A p : p \in W <=> p \in DOMAIN view /\ view[p].event.kind = "turn"
  BY <1>1 DEF Where
<1>4. OpenersOf(view) = W \cup {FirstOf(C)}
  BY DEF OpenersOf
<1>5. C \subseteq 1 .. Len(view) /\ Len(view) \in Nat
  BY <1>2 DEF ViewAt
<1> HIDE DEF events, C, W
<1>6. CASE Conversation(s) = {}
  <2>1. C = {}
    <3> SUFFICES ASSUME NEW p \in C PROVE FALSE
      OBVIOUS
    <3>1. p \in DOMAIN view /\ ~IsGlobal(view[p].event)
      BY <1>2
    <3>2. PICK i \in DOMAIN s : \E q \in Slots(s, i) : p = At(at, i, q)
      BY <3>1 DEF ViewAt
    <3> QED
      BY <1>6, <3>1, <3>2, ViewConversation
  <2>2. W \subseteq C
    BY <1>2, <1>3 DEF IsGlobal
  <2>3. FirstOf(C) = 0
    BY <2>1 DEF FirstOf
  <2> QED
    BY <1>4, <1>6, <2>1, <2>2, <2>3
<1>7. CASE Conversation(s) # {}
  <2>1. W = {At(at, i, 1) : i \in Heading(s)}
    <3> DEFINE H == {At(at, i, 1) : i \in Heading(s)}
    <3>1. ASSUME NEW p \in W PROVE p \in H
      BY <1>3, HeadingsShown
    <3>2. ASSUME NEW i \in Heading(s) PROVE At(at, i, 1) \in W
      BY <1>3, HeadingsShown
    <3> QED
      BY <3>1, <3>2
  <2> DEFINE c == First(s)
             x == At(at, c, 1)
  <2>2. c \in Turns(s) /\ TurnOf(s, c) = 0 /\ \A i \in Conversation(s) : c <= i
    BY <1>7, TurnPlaces
  <2>3. c \in Heading(s)
    BY <2>2 DEF Heading, Boundary
  <2>4. c \in DOMAIN s /\ 1 \in Slots(s, c) /\ x \in W
    BY <1>3, <2>3, HeadingsShown
  <2>5. x \in C
    BY <1>2, <1>3, <2>4 DEF IsGlobal
  <2>6. ASSUME NEW p \in C PROVE x <= p
    <3>1. p \in DOMAIN view /\ ~IsGlobal(view[p].event)
      BY <1>2
    <3>2. PICK i \in DOMAIN s : \E q \in Slots(s, i) : p = At(at, i, q)
      BY <3>1 DEF ViewAt
    <3>3. PICK q \in Slots(s, i) : p = At(at, i, q)
      BY <3>2
    <3>4. c <= i
      BY <2>2, <3>1, <3>3, ViewConversation
    <3>5. 1 <= q
      BY DEF Slots
    <3> HIDE DEF c
    <3>6. /\ At(at, c, 1) <= At(at, i, q) <=> c < i \/ (c = i /\ 1 <= q)
          /\ c \in Nat /\ i \in Nat
      BY <2>4, SlotsOrdered
    <3> QED
      BY <3>3, <3>4, <3>5, <3>6
  <2>7. FirstOf(C) = x
    <3>1. FirstOf(C) \in C /\ FirstOf(C) <= x
      BY <1>5, <2>5, FirstAmong
    <3>2. x <= FirstOf(C)
      BY <2>6, <3>1
    <3> HIDE DEF x, view
    <3>3. x \in Nat /\ FirstOf(C) \in Nat
      <4>1. \A y \in C : y \in 1 .. Len(view)
        BY <1>5
      <4>2. \A y \in C : y \in Nat
        BY <4>1
      <4> QED
        BY <2>5, <3>1, <4>2
    <3> QED
      BY <3>1, <3>2, <3>3
  <2> QED
    BY <1>4, <1>7, <2>1, <2>4, <2>7
<1> QED
  BY <1>6, <1>7 DEF view

\* The turns of the view, one for each opener, in order.
Partition(s) ==
  LET o == Origins(Projected(s))
  IN  /\ o = <<>> <=> TurnCount(s) = 0
      /\ o # <<>> => o[1].from = 0 /\ o[Len(o)].to = TurnCount(s) - 1
      /\ \A k \in 1 .. Len(o) - 1 : o[k + 1].from = o[k].to + 1

LEMMA OriginsAre ==
  ASSUME NEW s
  PROVE  LET opened == Pick(Projected(s), OpenersOf(Projected(s)))
         IN  Origins(Projected(s)) = [k \in DOMAIN opened |-> opened[k].origin]
BY DEF Origins, OpenersOf

LEMMA StartedPartition == ASSUME NEW s \in Stream, Started(s) PROVE Partition(s)
<1> DEFINE view == Projected(s)
           opened == Pick(view, OpenersOf(view))
           o == Origins(view)
           m == Len(opened)
<1>1. PICK at : ViewAt(s, at)
  BY ViewPlaces
<1>2. PICK E : view \in Seq(E)
  BY ViewPlaces
<1>3. PICK place : PlacedAt(place, opened, view, OpenersOf(view))
  BY <1>2, PickPlaces DEF IsPlaced
<1>4. /\ m \in Nat /\ DOMAIN opened = 1 .. m
      /\ \A k \in 1 .. m : place[k] \in DOMAIN view /\ place[k] \in OpenersOf(view) /\ opened[k] = view[place[k]]
      /\ \A k, l \in 1 .. m : k < l => place[k] < place[l]
      /\ \A i \in DOMAIN view : i \in OpenersOf(view) => \E k \in 1 .. m : place[k] = i
  BY <1>2, <1>3, PickedAt
<1>5. o = [k \in 1 .. m |-> opened[k].origin]
  BY <1>4, OriginsAre
<1> HIDE DEF m, opened, o, view
<1>6. o \in Seq({o[k] : k \in 1 .. m}) /\ Len(o) = m /\ \A k \in 1 .. m : o[k] = view[place[k]].origin
  <2>1. \A k \in 1 .. m : o[k] = view[place[k]].origin
    BY <1>4, <1>5
  <2>2. DOMAIN o = 1 .. m
    BY <1>5
  <2>3. o = [k \in 1 .. m |-> o[k]]
    BY <1>5
  <2> DEFINE R == {o[k] : k \in 1 .. m}
  <2>4. \A k \in 1 .. m : o[k] \in R
    OBVIOUS
  <2> HIDE DEF R
  <2>5. o \in Seq(R)
    BY <1>4, <2>3, <2>4
  <2>6. Len(o) = m
    BY <1>4, <2>2, <2>5
  <2> QED
    BY <2>1, <2>5, <2>6 DEF R
<1>7. CASE Conversation(s) = {}
  <2>1. TurnCount(s) = 0
    BY <1>7 DEF TurnCount
  <2>2. \A k \in 1 .. m : FALSE
    <3>0. OpenersOf(view) = {0}
      BY <1>1, <1>7, Openers DEF view
    <3>1. OpenersOf(view) = {0} /\ \A p \in DOMAIN view : p >= 1
      BY <1>2, <3>0
    <3>2. \A k \in 1 .. m : place[k] >= 1 /\ place[k] = 0
      BY <1>4, <3>1
    <3> QED
      BY <3>2
  <2>3. m = 0
    BY <1>4, <2>2
  <2>4. o = <<>> /\ Len(o) = 0 /\ 1 .. Len(o) - 1 = {}
    BY <1>6, <2>3
  <2> QED
    BY <2>1, <2>4 DEF Partition, o, view
<1>8. CASE Conversation(s) # {}
  <2> DEFINE C == TurnCount(s)
             B == {t \in 0 .. C - 1 : Boundary(s, t)}
  <2>1. OpenersOf(view) = {At(at, i, 1) : i \in Heading(s)}
    BY <1>1, <1>8, Openers DEF view
  <2>2. /\ C \in Nat /\ C >= 1
        /\ \A i \in Conversation(s) : TurnOf(s, i) \in 0 .. C - 1
        /\ \A i \in Conversation(s), j \in Turns(s) : i < j => TurnOf(s, i) < TurnOf(s, j)
        /\ Turns(s) \subseteq Conversation(s)
    BY <1>8, TurnPlaces, Placement
  <2>3. \A i \in Heading(s) : /\ i \in DOMAIN s /\ 1 \in Slots(s, i) /\ At(at, i, 1) \in DOMAIN view
                              /\ i \in Conversation(s) /\ i \in Turns(s) /\ Boundary(s, TurnOf(s, i))
    BY <1>1, <2>2, HeadingsShown DEF Heading, view
  <2>4. \A k \in 1 .. m : \E i \in Heading(s) : place[k] = At(at, i, 1)
    BY <1>4, <2>1
  <2>5. ASSUME NEW k \in 1 .. m, NEW i \in Heading(s), place[k] = At(at, i, 1)
        PROVE  o[k] = Span(s, TurnOf(s, i))
    <3>1. view[At(at, i, 1)].origin = Span(s, TurnOf(s, i))
      BY <1>1, <2>3, ViewOrigins DEF view
    <3> QED
      BY <1>6, <2>5, <3>1
  <2> HIDE DEF C, B
  <2>6. ASSUME NEW k \in 1 .. m
        PROVE  /\ o[k].from \in B /\ o[k].to \in o[k].from .. C - 1
               /\ \A v \in o[k].from + 1 .. o[k].to : v \notin B
               /\ o[k].to = C - 1 \/ o[k].to + 1 \in B
    <3>1. PICK i \in Heading(s) : place[k] = At(at, i, 1)
      BY <2>4
    <3> DEFINE t == TurnOf(s, i)
               u == Span(s, t).to
    <3>2. t \in 0 .. C - 1 /\ Boundary(s, t) /\ o[k] = Span(s, t)
      BY <2>2, <2>3, <2>5, <3>1
    <3>3. /\ Span(s, t).from = t /\ u \in t .. C - 1
          /\ \A v \in t + 1 .. u : ~Boundary(s, v)
          /\ u = C - 1 \/ Boundary(s, u + 1)
      BY <3>2, SpanEnds DEF C
    <3> HIDE DEF t, u
    <3>4. o[k].from = t /\ o[k].to = u
      BY <3>2, <3>3 DEF u
    <3>5. t \in B /\ \A v \in t + 1 .. u : v \notin B
      BY <3>2, <3>3 DEF B
    <3>6. u = C - 1 \/ u + 1 \in B
      <4>1. u # C - 1 => u + 1 \in 0 .. C - 1
        BY <2>2, <3>2, <3>3
      <4> QED
        BY <3>3, <4>1 DEF B
    <3> QED
      BY <3>3, <3>4, <3>5, <3>6
  <2>7. ASSUME NEW k \in 1 .. m, NEW l \in 1 .. m, k < l PROVE o[k].from < o[l].from
    <3>1. PICK i \in Heading(s) : place[k] = At(at, i, 1)
      BY <2>4
    <3>2. PICK j \in Heading(s) : place[l] = At(at, j, 1)
      BY <2>4
    <3>3. At(at, i, 1) < At(at, j, 1)
      BY <1>4, <2>7, <3>1, <3>2
    <3>4. i < j
      <4>1. /\ i \in DOMAIN s /\ 1 \in Slots(s, i) /\ j \in DOMAIN s /\ 1 \in Slots(s, j)
        BY <2>3
      <4>2. At(at, i, 1) < At(at, j, 1) <=> i < j \/ (i = j /\ 1 < 1)
        BY <1>1, <4>1, SlotsOrdered
      <4> QED
        BY <3>3, <4>2
    <3>5. TurnOf(s, i) < TurnOf(s, j)
      BY <2>2, <2>3, <3>4
    <3>6. o[k].from = TurnOf(s, i) /\ o[l].from = TurnOf(s, j)
      <4>1. TurnOf(s, i) \in 0 .. TurnCount(s) - 1 /\ TurnOf(s, j) \in 0 .. TurnCount(s) - 1
        BY <2>2, <2>3 DEF C
      <4>2. Span(s, TurnOf(s, i)).from = TurnOf(s, i) /\ Span(s, TurnOf(s, j)).from = TurnOf(s, j)
        BY <4>1, SpanEnds
      <4> QED
        BY <2>5, <3>1, <3>2, <4>2
    <3> QED
      BY <3>5, <3>6
  <2>8. ASSUME NEW b \in B PROVE \E k \in 1 .. m : o[k].from = b
    <3>1. b \in 0 .. C - 1 /\ Boundary(s, b)
      BY DEF B
    <3>2. PICK i \in Turns(s) : TurnOf(s, i) = b
      BY <1>8, <3>1, TurnStarts DEF C
    <3>3. i \in Heading(s)
      BY <3>1, <3>2 DEF Heading
    <3>4. PICK k \in 1 .. m : place[k] = At(at, i, 1)
      BY <1>4, <2>1, <2>3, <3>3
    <3>5. o[k] = Span(s, b)
      BY <2>5, <3>2, <3>3, <3>4
    <3>6. Span(s, b).from = b
      BY <3>1, SpanEnds DEF C
    <3> QED
      BY <3>5, <3>6
  <2>9. Spans(o, m, B, C - 1)
    BY <2>6, <2>7, <2>8 DEF Spans
  <2>10. 0 \in B /\ B \subseteq 0 .. C - 1
    BY <2>2 DEF B, Boundary
  <2>11. /\ m >= 1 /\ o[1].from = 0 /\ o[m].to = C - 1
         /\ \A k \in 1 .. m - 1 : o[k + 1].from = o[k].to + 1
    <3> DEFINE last == C - 1
    <3>1. last \in Nat /\ m \in Nat
      BY <1>4, <2>2
    <3>2. Spans(o, m, B, last) /\ 0 \in B /\ B \subseteq 0 .. last
      BY <2>9, <2>10
    <3> HIDE DEF last
    <3>3. /\ m >= 1 /\ o[1].from = 0 /\ o[m].to = last
          /\ \A k \in 1 .. m - 1 : o[k + 1].from = o[k].to + 1
      BY <3>1, <3>2, SpansPartition
    <3> QED
      BY <3>3 DEF last
  <2>12. o # <<>> /\ C # 0
    BY <1>4, <1>6, <2>2, <2>11
  <2> QED
    BY <1>6, <2>11, <2>12 DEF Partition, o, view, C
<1> QED
  BY <1>7, <1>8

\* The turns of the view stand for the turns of the stream, in order, each for
\* its own and all of them once: one TurnStart is shown for every turn that is
\* not summarized as the one before it, and stands for the turns up to the next.
THEOREM OriginsCover == Spec => []OriginsPartition
<1>1. SoundProgress => OriginsPartition
  <2>1. SoundProgress => Partition(stream)
    BY StartedPartition DEF SoundProgress, Sound
  <2> QED
    BY <2>1 DEF Partition, OriginsPartition
<1> QED
  BY <1>1, StreamsStaySound, PTL

-----------------------------------------------------------------------------
(* What is sent.                                                           *)

\* The user speaks before anyone else, and calls and results belong together.
Prompted(s) == \A i \in Conversation(s) : i \in Turns(s) \/ \E a \in Asks(s) : a <= i
Answered(s) == Ids(s, "call") = Ids(s, "result")

SentAt(s, place) ==
  LET v == Sent(s)
      view == Projected(s)
  IN  /\ DOMAIN v = 1 .. Len(v) /\ Len(v) \in Nat
      /\ \A k \in DOMAIN v : /\ place[k] \in DOMAIN view /\ place[k] \in Nat
                             /\ v[k] = view[place[k]].event /\ v[k].kind \in Visible
      /\ \A k, l \in DOMAIN v : k < l => place[k] < place[l]
      /\ \A p \in DOMAIN view : view[p].event.kind \in Visible => \E k \in DOMAIN v : place[k] = p

LEMMA SentPlaces ==
  ASSUME NEW s \in Stream
  PROVE  (\E place : SentAt(s, place)) /\ \E E : Sent(s) \in Seq(E)
<1> DEFINE view == Projected(s)
           events == [i \in DOMAIN view |-> view[i].event]
           W == Where(events, Visible)
           v == Sent(s)
<1>1. PICK E : view \in Seq(E)
  BY ViewPlaces
<1>2. DOMAIN view = 1 .. Len(view) /\ Len(view) \in Nat
  BY <1>1
<1> DEFINE F == {view[i].event : i \in DOMAIN view}
<1>3. events \in Seq(F) /\ DOMAIN events = DOMAIN view /\ \A p \in DOMAIN view : events[p] = view[p].event
  <2> HIDE DEF view
  <2>1. \A p \in DOMAIN view : view[p].event \in F
    OBVIOUS
  <2> HIDE DEF F
  <2>2. events = [p \in 1 .. Len(view) |-> view[p].event]
    BY <1>2
  <2>3. \A p \in 1 .. Len(view) : view[p].event \in F
    BY <1>2, <2>1
  <2>4. events \in Seq(F)
    BY <1>2, <2>2, <2>3
  <2> QED
    BY <2>4
<1>4. v = Pick(events, W)
  BY DEF Sent
<1>5. \A p : p \in W <=> p \in DOMAIN events /\ events[p].kind \in Visible
  BY DEF Where
<1> HIDE DEF view, events, W, F
<1>6. PICK place : PlacedAt(place, Pick(events, W), events, W)
  BY <1>3, PickPlaces DEF IsPlaced
<1>7. /\ Len(v) \in Nat /\ DOMAIN v = 1 .. Len(v)
      /\ \A k \in DOMAIN v : place[k] \in DOMAIN events /\ place[k] \in W /\ v[k] = events[place[k]]
      /\ \A k, l \in DOMAIN v : k < l => place[k] < place[l]
      /\ \A i \in DOMAIN events : i \in W => \E k \in DOMAIN v : place[k] = i
  BY <1>3, <1>4, <1>6, PickedAt
<1>8. \A p \in DOMAIN view : p \in Nat
  BY <1>2
<1> HIDE DEF v
<1>9. \A k \in DOMAIN v : /\ place[k] \in DOMAIN view /\ place[k] \in Nat
                          /\ v[k] = view[place[k]].event /\ v[k].kind \in Visible
  BY <1>3, <1>5, <1>7, <1>8
<1>10. \A p \in DOMAIN view : view[p].event.kind \in Visible => \E k \in DOMAIN v : place[k] = p
  BY <1>3, <1>5, <1>7
<1>11. SentAt(s, place)
  BY <1>7, <1>9, <1>10 DEF SentAt, v, view
<1>12. v \in Seq(F)
  BY <1>3, <1>4, PickPlaces
<1> QED
  BY <1>11, <1>12 DEF v

\* A summarized event has, before it, the turn its summary is shown as.
LEMMA SummaryHeaded ==
  ASSUME NEW s \in Stream, Started(s), NEW i \in Conversation(s), SummaryOf(s, TurnOf(s, i)) # 0
  PROVE  \E h \in Turns(s) : h <= i /\ Heads(s, h)
<1> DEFINE t == TurnOf(s, i)
           sum(v) == SummaryOf(s, v)
           U == {u \in 0 .. t : \A w \in u .. t : sum(w) = sum(t)}
           x == Min(U)
<1>1. t \in 0 .. TurnCount(s) - 1 /\ TurnCount(s) \in Nat
  BY TurnPlaces
<1>2. t \in Nat
  BY <1>1
<1>3. sum(t) # 0
  OBVIOUS
<1> HIDE DEF t, sum
<1>4. t \in U /\ U \subseteq Nat
  BY <1>2
<1> HIDE DEF U
<1>5. x \in U /\ \A u \in U : x <= u
  BY <1>4, LeastNat
<1> HIDE DEF x
<1>6. x \in 0 .. t /\ \A w \in x .. t : sum(w) = sum(t)
  BY <1>5 DEF U
<1>7. sum(x) # 0 /\ (x = 0 \/ sum(x - 1) # sum(x))
  <2>1. x \in x .. t
    BY <1>2, <1>6
  <2>2. sum(x) = sum(t)
    BY <1>6, <2>1
  <2>3. ASSUME x # 0, sum(x - 1) = sum(x) PROVE FALSE
    <3>1. x - 1 \in 0 .. t /\ x \in Nat
      BY <1>2, <1>6, <2>3
    <3>2. \A w \in x - 1 .. t : w = x - 1 \/ w \in x .. t
      BY <1>2, <3>1
    <3>3. x - 1 \in U
      BY <1>6, <2>2, <2>3, <3>1, <3>2 DEF U
    <3> QED
      BY <1>5, <3>1, <3>3
  <2> QED
    BY <1>3, <2>2, <2>3
<1>8. x \in 0 .. TurnCount(s) - 1
  BY <1>1, <1>2, <1>6
<1>9. PICK h \in Turns(s) : TurnOf(s, h) = x
  BY <1>8, TurnStarts
<1>10. h \in Conversation(s) /\ h \in Nat /\ i \in Nat
  BY Placement
<1>11. h <= i
  <2> SUFFICES ASSUME i < h PROVE FALSE
    BY <1>10
  <2>1. TurnOf(s, i) < TurnOf(s, h)
    BY TurnPlaces
  <2> QED
    BY <1>2, <1>6, <1>9, <2>1 DEF t
<1>12. h = Min(TurnEvents(s, TurnOf(s, h)))
  BY TurnStarts
<1>13. Heads(s, h)
  BY <1>7, <1>9, <1>10, <1>12 DEF Heads, Boundary, sum
<1> QED
  BY <1>11, <1>13

\* Whatever is visible has a request at or before it.
LEMMA AskBefore ==
  ASSUME NEW s \in Stream, Started(s), Prompted(s), NEW at, ViewAt(s, at),
         NEW i \in DOMAIN s, NEW q \in Slots(s, i), Projected(s)[At(at, i, q)].event.kind \in Visible
  PROVE  \E p \in DOMAIN Projected(s) : p <= At(at, i, q) /\ Projected(s)[p].event.kind = "ask"
<1> DEFINE view == Projected(s)
<1>1. ASSUME NEW j \in DOMAIN s, NEW r \in Slots(s, j), j < i \/ (j = i /\ r <= q), view[At(at, j, r)].event.kind = "ask"
      PROVE  \E p \in DOMAIN view : p <= At(at, i, q) /\ view[p].event.kind = "ask"
  <2>1. At(at, j, r) <= At(at, i, q) <=> j < i \/ (j = i /\ r <= q)
    BY SlotsOrdered
  <2>2. At(at, j, r) \in DOMAIN view
    BY ViewEvents
  <2> QED
    BY <1>1, <2>1, <2>2
<1>2. ASSUME NEW h \in DOMAIN s, Heads(s, h) PROVE 2 \in Slots(s, h) /\ view[At(at, h, 2)].event.kind = "ask"
  <2>1. 2 \in Slots(s, h)
    BY <1>2, ShownCases DEF Slots
  <2> QED
    BY <1>2, <2>1, ViewKinds
<1>3. CASE Heads(s, i)
  <2>1. q \in {1, 2, 3} /\ q # 1
    <3>1. view[At(at, i, q)].event.kind # "turn"
      BY DEF Visible
    <3> QED
      BY <1>3, <3>1, ViewKinds
  <2> HIDE DEF view
  <2>2. 2 <= q
    BY <2>1
  <2> QED
    BY <1>1, <1>2, <1>3, <2>2 DEF view
<1>4. CASE Plain(s, i)
  <2>1. view[At(at, i, q)].event = s[i] /\ q = 1
    BY <1>4, ViewKinds
  <2>2. i \in Conversation(s) /\ i \notin Turns(s) /\ ~Heads(s, i)
    BY <1>4, <2>1, Placement, ShownCases DEF Visible
  <2>3. PICK a \in Asks(s) : a <= i
    BY <2>2 DEF Prompted
  <2>4. a \in Conversation(s) /\ a \in DOMAIN s /\ s[a].kind = "ask" /\ a \in Nat /\ i \in Nat
    BY <2>2, Placement
  <2>5. CASE SummaryOf(s, TurnOf(s, a)) = 0
    <3>1. Plain(s, a)
      BY <2>4, <2>5 DEF Plain, Hidden, IsToolEvent
    <3>2. 1 \in Slots(s, a)
      BY <3>1 DEF Slots
    <3>3. view[At(at, a, 1)].event = s[a]
      BY <2>4, <3>1, <3>2, ViewKinds
    <3>4. a < i \/ (a = i /\ 1 <= q)
      BY <2>1, <2>3, <2>4
    <3> HIDE DEF view
    <3>5. \E p \in DOMAIN view : p <= At(at, i, q) /\ view[p].event.kind = "ask"
      BY <1>1, <2>4, <3>2, <3>3, <3>4
    <3> QED
      BY <3>5 DEF view
  <2>6. CASE SummaryOf(s, TurnOf(s, a)) # 0
    <3>1. PICK h \in Turns(s) : h <= a /\ Heads(s, h)
      BY <2>4, <2>6, SummaryHeaded
    <3>2. h \in DOMAIN s /\ h \in Nat
      BY Placement
    <3>3. h < i
      BY <2>2, <2>3, <2>4, <3>1, <3>2
    <3> HIDE DEF view
    <3>4. \E p \in DOMAIN view : p <= At(at, i, q) /\ view[p].event.kind = "ask"
      BY <1>1, <1>2, <3>1, <3>2, <3>3
    <3> QED
      BY <3>4 DEF view
  <2> QED
    BY <2>5, <2>6
<1> QED
  BY <1>3, <1>4, ViewKinds

\* A call and its result are in the same turn, and both shown or both hidden.
LEMMA PairShown ==
  ASSUME NEW s \in Stream, Started(s), Orderly(s), NEW i \in Calls(s), NEW j \in Results(s), s[i].id = s[j].id
  PROVE  /\ i \in DOMAIN s /\ j \in DOMAIN s /\ i < j /\ TurnOf(s, i) = TurnOf(s, j)
         /\ \A k \in Fences(s) : k < i \/ j < k
         /\ Plain(s, i) <=> Plain(s, j)
<1>1. i < j /\ \A k \in Fences(s) : k < i \/ j < k
  BY DEF Orderly
<1>2. /\ i \in DOMAIN s /\ j \in DOMAIN s /\ i \in Conversation(s) /\ j \in Conversation(s)
      /\ s[i].kind = "call" /\ s[j].kind = "result" /\ i \in Nat /\ j \in Nat
  BY CallPlacement
<1>3. TurnOf(s, i) = TurnOf(s, j)
  <2>1. i \in 0 .. Len(s) /\ j \in 0 .. Len(s) /\ i <= j
    BY <1>1, <1>2, Positions DEF Stream
  <2>2. \A k \in Turns(s) : ~(i < k /\ k <= j /\ First(s) < k)
    <3> SUFFICES ASSUME NEW k \in Turns(s), i < k, k <= j PROVE FALSE
      OBVIOUS
    <3>1. k \in Fences(s) /\ k \in Nat
      BY Placement, CallPlacement
    <3>2. k < i \/ j < k
      BY <1>1, <3>1
    <3> QED
      BY <1>2, <3>1, <3>2
  <2> QED
    BY <2>1, <2>2, TurnsGrow
<1>4. Hidden(s, i) <=> Hidden(s, j)
  BY <1>2, <1>3 DEF Hidden, IsToolEvent
<1> QED
  BY <1>1, <1>2, <1>3, <1>4 DEF Plain

\* What is sent, event by event.
LEMMA SentEvents ==
  ASSUME NEW s \in Stream, NEW at, ViewAt(s, at), NEW place, SentAt(s, place)
  PROVE  /\ \A k \in DOMAIN Sent(s) : Sent(s)[k].kind \in {"call", "result"} =>
              \E i \in DOMAIN s : Plain(s, i) /\ Sent(s)[k] = s[i] /\ place[k] = At(at, i, 1)
         /\ \A i \in DOMAIN s : Plain(s, i) /\ s[i].kind \in {"call", "result"} =>
              \E k \in DOMAIN Sent(s) : Sent(s)[k] = s[i] /\ place[k] = At(at, i, 1)
         /\ \A k \in DOMAIN Sent(s) : Sent(s)[k].kind = "ask" =>
              \E i \in DOMAIN s : \E q \in Slots(s, i) :
                /\ place[k] = At(at, i, q)
                /\ (Plain(s, i) /\ i \in Asks(s)) \/ Heads(s, i)
<1> DEFINE v == Sent(s)
           view == Projected(s)
<1>1. /\ \A k \in DOMAIN v : place[k] \in DOMAIN view /\ v[k] = view[place[k]].event
      /\ \A p \in DOMAIN view : view[p].event.kind \in Visible => \E k \in DOMAIN v : place[k] = p
  BY DEF SentAt
<1>2. \A p \in DOMAIN view : \E i \in DOMAIN s : \E q \in Slots(s, i) : p = At(at, i, q)
  BY DEF ViewAt
<1>3. ASSUME NEW i \in DOMAIN s, NEW q \in Slots(s, i)
      PROVE  LET e == view[At(at, i, q)].event IN
             /\ At(at, i, q) \in DOMAIN view
             /\ Plain(s, i) => e = s[i] /\ q = 1
             /\ Heads(s, i) => e.kind \in {"turn", "ask", "summary"}
             /\ Plain(s, i) \/ Heads(s, i)
  <2>1. At(at, i, q) \in DOMAIN view
    BY ViewEvents
  <2>2. Plain(s, i) => view[At(at, i, q)].event = s[i] /\ q = 1
    BY ViewKinds
  <2>3. Heads(s, i) => view[At(at, i, q)].event.kind \in {"turn", "ask", "summary"}
    BY ViewKinds
  <2>4. Plain(s, i) \/ Heads(s, i)
    BY ViewKinds
  <2> QED
    BY <2>1, <2>2, <2>3, <2>4
<1> HIDE DEF v, view
<1>4. ASSUME NEW k \in DOMAIN v
      PROVE  \E i \in DOMAIN s : \E q \in Slots(s, i) :
               /\ place[k] = At(at, i, q)
               /\ (Plain(s, i) /\ v[k] = s[i] /\ q = 1) \/ (Heads(s, i) /\ v[k].kind \in {"turn", "ask", "summary"})
  <2>1. place[k] \in DOMAIN view /\ v[k] = view[place[k]].event
    BY <1>1
  <2>2. PICK i \in DOMAIN s : \E q \in Slots(s, i) : place[k] = At(at, i, q)
    BY <1>2, <2>1
  <2>3. PICK q \in Slots(s, i) : place[k] = At(at, i, q)
    BY <2>2
  <2> QED
    BY <1>3, <2>1, <2>3
<1>5. ASSUME NEW k \in DOMAIN v, v[k].kind \in {"call", "result"}
      PROVE  \E i \in DOMAIN s : Plain(s, i) /\ v[k] = s[i] /\ place[k] = At(at, i, 1)
  BY <1>4, <1>5
<1>6. ASSUME NEW i \in DOMAIN s, Plain(s, i), s[i].kind \in {"call", "result"}
      PROVE  \E k \in DOMAIN v : v[k] = s[i] /\ place[k] = At(at, i, 1)
  <2>1. 1 \in Slots(s, i)
    BY <1>6 DEF Slots
  <2>2. At(at, i, 1) \in DOMAIN view /\ view[At(at, i, 1)].event = s[i]
    BY <1>3, <1>6, <2>1
  <2>3. s[i].kind \in Visible
    BY <1>6 DEF Visible
  <2> QED
    BY <1>1, <2>2, <2>3
<1>7. ASSUME NEW k \in DOMAIN v, v[k].kind = "ask"
      PROVE  \E i \in DOMAIN s : \E q \in Slots(s, i) :
               /\ place[k] = At(at, i, q)
               /\ (Plain(s, i) /\ i \in Asks(s)) \/ Heads(s, i)
  <2>1. PICK i \in DOMAIN s : \E q \in Slots(s, i) :
               /\ place[k] = At(at, i, q)
               /\ (Plain(s, i) /\ v[k] = s[i] /\ q = 1) \/ (Heads(s, i) /\ v[k].kind \in {"turn", "ask", "summary"})
    BY <1>4
  <2>2. v[k] = s[i] => i \in Asks(s)
    BY <1>7, Placement
  <2> QED
    BY <2>1, <2>2
<1> QED
  BY <1>5, <1>6, <1>7 DEF v

\* No request stands between a call and its result.
LEMMA PairSent ==
  ASSUME NEW s \in Stream, Started(s), Orderly(s), NEW at, ViewAt(s, at), NEW place, SentAt(s, place),
         NEW i \in Calls(s), NEW j \in Results(s), s[i].id = s[j].id, Plain(s, i),
         NEW x \in DOMAIN Sent(s), NEW y \in DOMAIN Sent(s), place[x] = At(at, i, 1), place[y] = At(at, j, 1)
  PROVE  x < y /\ \A a \in DOMAIN Sent(s) : Sent(s)[a].kind = "ask" => ~(x <= a /\ a <= y)
<1> DEFINE v == Sent(s)
<1>1. /\ i \in DOMAIN s /\ j \in DOMAIN s /\ i < j /\ TurnOf(s, i) = TurnOf(s, j)
      /\ \A k \in Fences(s) : k < i \/ j < k
      /\ Plain(s, j) /\ i \in Nat /\ j \in Nat /\ i \in Conversation(s) /\ j \in Conversation(s)
  BY PairShown, CallPlacement
<1>2. 1 \in Slots(s, i) /\ 1 \in Slots(s, j)
  BY <1>1 DEF Slots
<1>3. /\ DOMAIN v = 1 .. Len(v) /\ Len(v) \in Nat
      /\ \A k \in DOMAIN v : place[k] \in Nat /\ k \in Nat
      /\ \A k, l \in DOMAIN v : k < l => place[k] < place[l]
  BY DEF SentAt
<1>4. At(at, i, 1) < At(at, j, 1)
  BY <1>1, <1>2, SlotsOrdered
<1>5. SummaryOf(s, TurnOf(s, i)) = 0
  BY CallPlacement DEF Plain
<1> HIDE DEF v
<1>6. ASSUME NEW a \in DOMAIN v, v[a].kind = "ask", x <= a, a <= y PROVE FALSE
  <2>1. PICK k \in DOMAIN s : \E q \in Slots(s, k) :
                /\ place[a] = At(at, k, q)
                /\ (Plain(s, k) /\ k \in Asks(s)) \/ Heads(s, k)
    BY <1>6, SentEvents DEF v
  <2>2. PICK q \in Slots(s, k) : place[a] = At(at, k, q) /\ ((Plain(s, k) /\ k \in Asks(s)) \/ Heads(s, k))
    BY <2>1
  <2>3. place[x] <= place[a] /\ place[a] <= place[y]
    <3>1. (x = a \/ x < a) /\ (a = y \/ a < y)
      BY <1>3, <1>6 DEF v
    <3>2. x \in DOMAIN v /\ y \in DOMAIN v
      BY DEF v
    <3> QED
      BY <1>3, <3>1, <3>2
  <2>4. At(at, i, 1) <= At(at, k, q) /\ At(at, k, q) <= At(at, j, 1)
    BY <2>2, <2>3
  <2>5. i <= k /\ k <= j /\ k \in Nat
    <3>1. /\ At(at, i, 1) <= At(at, k, q) <=> i < k \/ (i = k /\ 1 <= q)
          /\ At(at, k, q) <= At(at, j, 1) <=> k < j \/ (k = j /\ q <= 1)
          /\ k \in Nat
      BY <1>1, <1>2, SlotsOrdered
    <3> QED
      BY <1>1, <2>4, <3>1
  <2>6. CASE k \in Asks(s)
    <3>1. k \in Fences(s)
      BY <2>6, CallPlacement
    <3>2. k < i \/ j < k
      BY <1>1, <3>1
    <3> QED
      BY <1>1, <2>5, <3>2
  <2>7. CASE Heads(s, k)
    <3>1. k \in Conversation(s) /\ SummaryOf(s, TurnOf(s, k)) # 0
      BY <2>7 DEF Heads
    <3>2. TurnOf(s, i) <= TurnOf(s, k) /\ TurnOf(s, k) <= TurnOf(s, j)
      BY <1>1, <2>5, <3>1, TurnPlaces
    <3>3. TurnOf(s, i) \in Nat /\ TurnOf(s, k) \in Nat
      <4>1. i \in 0 .. Len(s) /\ k \in 0 .. Len(s)
        BY <1>1, <3>1, Placement
      <4> QED
        BY <4>1, OpenedFinite
    <3>4. TurnOf(s, k) = TurnOf(s, i)
      BY <1>1, <3>2, <3>3
    <3> QED
      BY <1>5, <3>1, <3>4
  <2> QED
    BY <2>2, <2>6, <2>7
<1>7. x < y
  <2>1. x \in DOMAIN v /\ y \in DOMAIN v
    BY DEF v
  <2>2. x = y \/ y < x \/ x < y
    BY <1>3, <2>1
  <2>3. place[x] < place[y] /\ place[x] \in Nat /\ place[y] \in Nat
    BY <1>3, <1>4, <2>1
  <2> QED
    BY <1>3, <2>1, <2>2, <2>3
<1> QED
  BY <1>6, <1>7 DEF v

LEMMA ViewAccepted ==
  ASSUME NEW s \in Stream, Started(s), Prompted(s), Orderly(s), Answered(s)
  PROVE  Accepted(Sent(s))
<1> DEFINE v == Sent(s)
           asks == Where(v, {"ask"})
           pairs(i, j) == i < j /\ v[i].id = v[j].id /\ ~\E a \in asks : a \in i .. j
<1>1. PICK at : ViewAt(s, at)
  BY ViewPlaces
<1>2. PICK place : SentAt(s, place)
  BY SentPlaces
<1>3. /\ DOMAIN v = 1 .. Len(v) /\ Len(v) \in Nat
      /\ \A k \in DOMAIN v : /\ place[k] \in DOMAIN Projected(s) /\ place[k] \in Nat /\ k \in Nat
                             /\ v[k] = Projected(s)[place[k]].event /\ v[k].kind \in Visible
      /\ \A k, l \in DOMAIN v : k < l => place[k] < place[l]
      /\ \A p \in DOMAIN Projected(s) : Projected(s)[p].event.kind \in Visible => \E k \in DOMAIN v : place[k] = p
  BY <1>2 DEF SentAt
<1>4. \A kind : \A k : k \in Where(v, {kind}) <=> k \in DOMAIN v /\ v[k].kind = kind
  BY DEF Where
<1>5. \A i, j, a : i \in DOMAIN v /\ j \in DOMAIN v /\ a \in asks => a \in DOMAIN v /\ v[a].kind = "ask"
                    /\ (a \in i .. j <=> i <= a /\ a <= j)
  <2>1. \A k \in DOMAIN v : k \in Nat
    BY <1>3
  <2> HIDE DEF v
  <2>2. \A a \in asks : a \in DOMAIN v /\ v[a].kind = "ask"
    BY <1>4
  <2>3. \A i, j, a \in DOMAIN v : a \in i .. j <=> i <= a /\ a <= j
    BY <2>1
  <2> HIDE DEF asks
  <2> QED
    BY <2>2, <2>3
<1> HIDE DEF v, asks
<1>6. v # <<>> => v[1].kind = "ask"
  <2> SUFFICES ASSUME v # <<>> PROVE v[1].kind = "ask"
    OBVIOUS
  <2>1. 1 \in DOMAIN v
    <3>1. PICK E : Sent(s) \in Seq(E)
      BY SentPlaces
    <3>2. Len(v) # 0
      BY <3>1 DEF v
    <3> QED
      BY <1>3, <3>2
  <2>2. PICK i \in DOMAIN s : \E q \in Slots(s, i) : place[1] = At(at, i, q)
    BY <1>1, <1>3, <2>1 DEF ViewAt
  <2>3. PICK q \in Slots(s, i) : place[1] = At(at, i, q)
    BY <2>2
  <2>4. PICK p \in DOMAIN Projected(s) : p <= place[1] /\ Projected(s)[p].event.kind = "ask"
    BY <1>1, <1>3, <2>1, <2>3, AskBefore
  <2>5. PICK k \in DOMAIN v : place[k] = p
    BY <1>3, <2>4 DEF Visible
  <2>6. k = 1
    <3>1. k = 1 \/ 1 < k
      BY <1>3
    <3>2. place[1] \in Nat /\ place[k] \in Nat
      BY <1>3, <2>1
    <3> QED
      BY <1>3, <2>1, <2>4, <2>5, <3>1, <3>2
  <2> QED
    BY <1>3, <2>4, <2>5, <2>6
<1>7. ASSUME NEW i \in DOMAIN s, NEW j \in DOMAIN s, NEW x \in DOMAIN v, NEW y \in DOMAIN v,
             i \in Calls(s), j \in Results(s), s[i].id = s[j].id, Plain(s, i),
             v[x] = s[i], v[y] = s[j], place[x] = At(at, i, 1), place[y] = At(at, j, 1)
      PROVE  pairs(x, y)
  <2>1. x < y /\ \A a \in DOMAIN v : v[a].kind = "ask" => ~(x <= a /\ a <= y)
    BY <1>1, <1>2, <1>7, PairSent DEF v
  <2>2. \A a \in asks : a \notin x .. y
    BY <1>5, <2>1
  <2> QED
    BY <1>7, <2>1, <2>2
<1>8. ASSUME NEW x \in DOMAIN v, v[x].kind \in {"call", "result"}
      PROVE  \E i \in DOMAIN s : /\ Plain(s, i) /\ v[x] = s[i] /\ place[x] = At(at, i, 1)
                                 /\ v[x].kind = "call" => i \in Calls(s)
                                 /\ v[x].kind = "result" => i \in Results(s)
  <2>1. PICK i \in DOMAIN s : Plain(s, i) /\ v[x] = s[i] /\ place[x] = At(at, i, 1)
    BY <1>1, <1>2, <1>8, SentEvents DEF v
  <2>2. (v[x].kind = "call" => i \in Calls(s)) /\ (v[x].kind = "result" => i \in Results(s))
    BY <2>1, CallPlacement
  <2> QED
    BY <2>1, <2>2
<1>9. ASSUME NEW x \in DOMAIN v, NEW y \in DOMAIN v, v[x] = v[y], v[x].kind \in {"call", "result"} PROVE x = y
  <2>1. PICK i \in DOMAIN s : /\ Plain(s, i) /\ v[x] = s[i] /\ place[x] = At(at, i, 1)
                              /\ v[x].kind = "call" => i \in Calls(s)
                              /\ v[x].kind = "result" => i \in Results(s)
    BY <1>8, <1>9
  <2>2. PICK j \in DOMAIN s : /\ Plain(s, j) /\ v[y] = s[j] /\ place[y] = At(at, j, 1)
                              /\ v[y].kind = "call" => j \in Calls(s)
                              /\ v[y].kind = "result" => j \in Results(s)
    BY <1>8, <1>9
  <2>3. i = j
    BY <1>9, <2>1, <2>2 DEF Orderly
  <2>4. x = y \/ x < y \/ y < x
    BY <1>3
  <2>5. place[x] = place[y] /\ place[x] \in Nat
    BY <1>3, <2>1, <2>2, <2>3
  <2> QED
    BY <1>3, <2>4, <2>5
<1> HIDE DEF pairs
<1>10. ASSUME NEW x \in Where(v, {"call"}) PROVE Cardinality({y \in Where(v, {"result"}) : pairs(x, y)}) = 1
  <2>1. x \in DOMAIN v /\ v[x].kind = "call"
    BY <1>4
  <2>2. PICK i \in DOMAIN s : i \in Calls(s) /\ Plain(s, i) /\ v[x] = s[i] /\ place[x] = At(at, i, 1)
    BY <1>8, <2>1
  <2>3. PICK j \in DOMAIN s : j \in Results(s) /\ s[j].id = s[i].id
    <3>1. s[i].id \in Ids(s, "call")
      BY <2>2, CallPlacement
    <3>2. s[i].id \in Ids(s, "result")
      BY <3>1 DEF Answered
    <3> QED
      BY <3>2, CallPlacement
  <2>4. Plain(s, j)
    BY <2>2, <2>3, PairShown
  <2>5. PICK y \in DOMAIN v : v[y] = s[j] /\ place[y] = At(at, j, 1)
    <3>1. s[j].kind = "result"
      BY <2>3, CallPlacement
    <3> QED
      BY <1>1, <1>2, <2>4, <3>1, SentEvents DEF v
  <2>6. pairs(x, y) /\ y \in Where(v, {"result"})
    <3>1. v[y].kind = "result"
      BY <2>3, <2>5, CallPlacement
    <3> QED
      BY <1>4, <1>7, <2>1, <2>2, <2>3, <2>5, <3>1
  <2>7. ASSUME NEW z \in Where(v, {"result"}), pairs(x, z) PROVE z = y
    <3>1. z \in DOMAIN v /\ v[z].kind = "result" /\ v[z].id = v[x].id
      BY <1>4, <2>7 DEF pairs
    <3>2. PICK l \in DOMAIN s : l \in Results(s) /\ v[z] = s[l]
      BY <1>8, <3>1
    <3>3. l = j
      BY <2>2, <2>3, <3>1, <3>2 DEF Orderly
    <3> QED
      BY <1>9, <2>5, <3>1, <3>2, <3>3
  <2>8. {z \in Where(v, {"result"}) : pairs(x, z)} = {y}
    BY <2>6, <2>7
  <2> QED
    BY <2>8, FS_Singleton
<1>11. ASSUME NEW y \in Where(v, {"result"}) PROVE Cardinality({x \in Where(v, {"call"}) : pairs(x, y)}) = 1
  <2>1. y \in DOMAIN v /\ v[y].kind = "result"
    BY <1>4
  <2>2. PICK j \in DOMAIN s : j \in Results(s) /\ Plain(s, j) /\ v[y] = s[j] /\ place[y] = At(at, j, 1)
    BY <1>8, <2>1
  <2>3. PICK i \in DOMAIN s : i \in Calls(s) /\ s[i].id = s[j].id
    <3>1. s[j].id \in Ids(s, "result")
      BY <2>2, CallPlacement
    <3>2. s[j].id \in Ids(s, "call")
      BY <3>1 DEF Answered
    <3> QED
      BY <3>2, CallPlacement
  <2>4. Plain(s, i)
    BY <2>2, <2>3, PairShown
  <2>5. PICK x \in DOMAIN v : v[x] = s[i] /\ place[x] = At(at, i, 1)
    <3>1. s[i].kind = "call"
      BY <2>3, CallPlacement
    <3> QED
      BY <1>1, <1>2, <2>4, <3>1, SentEvents DEF v
  <2>6. pairs(x, y) /\ x \in Where(v, {"call"})
    <3>1. v[x].kind = "call"
      BY <2>3, <2>5, CallPlacement
    <3> QED
      BY <1>4, <1>7, <2>1, <2>2, <2>3, <2>4, <2>5, <3>1
  <2>7. ASSUME NEW z \in Where(v, {"call"}), pairs(z, y) PROVE z = x
    <3>1. z \in DOMAIN v /\ v[z].kind = "call" /\ v[z].id = v[y].id
      BY <1>4, <2>7 DEF pairs
    <3>2. PICK l \in DOMAIN s : l \in Calls(s) /\ v[z] = s[l]
      BY <1>8, <3>1
    <3>3. l = i
      BY <2>2, <2>3, <3>1, <3>2 DEF Orderly
    <3> QED
      BY <1>9, <2>5, <3>1, <3>2, <3>3
  <2>8. {z \in Where(v, {"call"}) : pairs(z, y)} = {x}
    BY <2>6, <2>7
  <2> QED
    BY <2>8, FS_Singleton
<1> QED
  BY <1>6, <1>10, <1>11 DEF Accepted, v, asks, pairs

-----------------------------------------------------------------------------
(* The streams requests are made from.                                     *)

Sendable(s) == s \in Stream /\ Started(s) /\ Prompted(s) /\ Orderly(s) /\ Answered(s)

LEMMA SendableAccepted == ASSUME NEW s, Sendable(s) PROVE Accepted(Sent(s))
BY ViewAccepted DEF Sendable

LEMMA OpeningPrompted == ASSUME NEW s \in Stream, Opening(s) PROVE Prompted(s)
<1>1. PICK c \in Conversation(s), d \in Conversation(s) :
        /\ c \in Turns(s) /\ d \in Asks(s) /\ c < d
        /\ \A i \in Conversation(s) : i = c \/ i >= d
  BY DEF Opening
<1>2. \A i \in Conversation(s) : i \in Nat
  BY Placement
<1>3. ASSUME NEW i \in Conversation(s), i \notin Turns(s) PROVE d <= i
  <2>1. i >= d
    BY <1>1, <1>3
  <2> QED
    BY <1>2, <2>1
<1> QED
  BY <1>1, <1>3 DEF Prompted

\* A new turn behind it.
LEMMA SendableStartTurn ==
  ASSUME NEW s, Sendable(s), NEW n \in Nat
  PROVE  Sendable(StartTurn(s, n))
<1> DEFINE u == <<Turn(n), Ask(n)>>
           t == s \o u
<1>1. s \in Stream /\ StartTurn(s, n) = t
  BY DEF Sendable, StartTurn
<1>2. u \in Stream /\ DOMAIN u = {1, 2} /\ u[1].kind = "turn" /\ u[2].kind = "ask"
  BY NewEvents DEF Stream
<1> HIDE DEF u
<1>3. \A q \in DOMAIN u : \E r \in DOMAIN u : r <= q /\ u[r].kind = "turn"
  BY <1>2
<1>4. Started(t)
  BY <1>1, <1>2, <1>3, StartedAppended DEF Sendable
<1>5. Orderly(t)
  BY <1>1, <1>2, OrderlyAppended DEF Sendable
<1>6. /\ t \in Stream
      /\ \A p \in DOMAIN s : p \in DOMAIN t /\ t[p] = s[p] /\ p <= Len(s)
      /\ \A p \in DOMAIN t : p \in DOMAIN s \/ \E q \in DOMAIN u : p = Len(s) + q
      /\ \A q \in DOMAIN u : Len(s) + q \in DOMAIN t /\ t[Len(s) + q] = u[q]
  <2>1. s \in Stream /\ u \in Stream
    BY <1>1, <1>2
  <2>2. t \in Stream
    BY <2>1, AppendedAt
  <2>3. \A p \in DOMAIN s : p \in DOMAIN t /\ t[p] = s[p] /\ p <= Len(s)
    BY <2>1, AppendedAt
  <2>4. \A p \in DOMAIN t : p \in DOMAIN s \/ \E q \in DOMAIN u : p = Len(s) + q
    BY <2>1, AppendedAt
  <2>5. \A q \in DOMAIN u : Len(s) + q \in DOMAIN t /\ t[Len(s) + q] = u[q]
    BY <2>1, AppendedAt
  <2> HIDE DEF t
  <2> QED
    BY <2>2, <2>3, <2>4, <2>5
<1> HIDE DEF t
<1>7. \A p \in DOMAIN t : p \in DOMAIN s \/ t[p].kind \in {"turn", "ask"}
  BY <1>2, <1>6
<1>8. ASSUME NEW p \in Conversation(t), p \notin Turns(t) PROVE \E a \in Asks(t) : a <= p
  <2>1. p \in DOMAIN t /\ p \in Nat
    BY <1>6, <1>8, Placement
  <2>2. CASE p \in DOMAIN s
    <3>1. p \in Conversation(s) /\ p \notin Turns(s)
      BY <1>1, <1>6, <1>8, <2>2, Placement
    <3>2. PICK a \in Asks(s) : a <= p
      BY <3>1 DEF Sendable, Prompted
    <3>3. a \in Asks(t)
      BY <1>1, <1>6, <3>2, Placement
    <3> QED
      BY <3>2, <3>3
  <2>3. CASE p \notin DOMAIN s
    <3>1. t[p].kind = "ask"
      BY <1>6, <1>7, <1>8, <2>1, <2>3, Placement
    <3>2. p \in Asks(t) /\ p <= p
      BY <1>6, <2>1, <3>1, Placement
    <3> QED
      BY <3>2
  <2> QED
    BY <2>2, <2>3
<1>9. ASSUME NEW kind \in {"call", "result"} PROVE Ids(t, kind) = Ids(s, kind)
  <2>1. \A id : id \in Ids(t, kind) <=> \E i \in DOMAIN t : t[i].kind = kind /\ t[i].id = id
    BY <1>6, CallPlacement
  <2>2. \A id : id \in Ids(s, kind) <=> \E i \in DOMAIN s : s[i].kind = kind /\ s[i].id = id
    BY <1>1, CallPlacement
  <2>3. \A id : id \in Ids(t, kind) <=> id \in Ids(s, kind)
    BY <1>6, <1>7, <2>1, <2>2
  <2> QED
    BY <2>3
<1>10. Answered(t)
  BY <1>9 DEF Sendable, Answered
<1> QED
  BY <1>1, <1>4, <1>5, <1>6, <1>8, <1>10 DEF Sendable, Prompted

\* What sanitize adds is no request.
LEMMA SanitizedAsks ==
  ASSUME NEW s \in Stream, Asks(Sanitized(s)) # {}
  PROVE  Opening(Sanitized(s))
<1> DEFINE f == BeforeNormalized(s)
           t == TurnStartsNormalized(f)
<1>1. f \in Stream /\ Led(f)
  BY BeforeNormalizedLed
<1>2. Sanitized(s) = t
  BY SanitizedIs
<1> HIDE DEF f
<1>3. t \in Stream /\ (Asks(f) # {} => Opening(t))
  BY <1>1, NormalizedOpens
<1>4. \/ t = f
      \/ Collapses(f, t)
      \/ Inserts(f, t)
  BY <1>1, NormalizedCases
<1> HIDE DEF t
<1>5. PICK p \in Asks(t) : TRUE
  BY <1>2
<1>6. Asks(f) # {}
  <2>1. CASE t = f
    BY <1>5, <2>1
  <2>2. CASE Collapses(f, t)
    BY <2>2 DEF Collapses
  <2>3. CASE Inserts(f, t)
    <3>1. PICK place \in DOMAIN f, stamp \in Nat :
             /\ Added([i \in DOMAIN f |-> IF i < place THEN i ELSE i + 1], DOMAIN f, t) = {place}
             /\ Embeds([i \in DOMAIN f |-> IF i < place THEN i ELSE i + 1], f, DOMAIN f, t)
             /\ t[place] = Turn(stamp)
      BY <2>3 DEF Inserts
    <3> DEFINE m == [i \in DOMAIN f |-> IF i < place THEN i ELSE i + 1]
    <3>2. Embeds(m, f, DOMAIN f, t) /\ Added(m, DOMAIN f, t) = {place} /\ t[place].kind = "turn"
      BY <3>1, NewEvents
    <3> HIDE DEF m
    <3>3. p \in DOMAIN t /\ t[p].kind = "ask" /\ p # place
      BY <1>3, <1>5, <3>2, Placement
    <3>4. PICK i \in DOMAIN f : m[i] = p
      BY <1>1, <1>3, <3>2, <3>3, EmbeddedKinds
    <3>5. i \in Asks(f)
      BY <1>1, <1>3, <1>5, <3>2, <3>4, EmbeddedKinds
    <3> QED
      BY <3>5
  <2> QED
    BY <1>4, <2>1, <2>2, <2>3
<1> QED
  BY <1>2, <1>3, <1>6

LEMMA SanitizedSendable ==
  ASSUME NEW s \in Stream, Orderly(s), Asks(Sanitized(s)) # {}
  PROVE  Sendable(Sanitized(s))
<1> DEFINE t == Sanitized(s)
<1>1. t \in Stream /\ Started(t)
  BY SanitizedOpens
<1>2. Opening(t)
  BY SanitizedAsks
<1>3. Orderly(t)
  BY OrderlySanitized
<1>4. Matched(t)
  BY MatchedSanitized
<1> HIDE DEF t
<1>5. Prompted(t)
  BY <1>1, <1>2, OpeningPrompted
<1> QED
  BY <1>1, <1>3, <1>4, <1>5 DEF Sendable, Answered, Matched, t

\* The open call answered as paused.
LEMMA PausedOrderly ==
  ASSUME NEW s, Sound(s), Waiting(s), NEW id \in Ids(s, "call"), id \notin Ids(s, "result"), NEW n \in Nat
  PROVE  LET t == Paused(s, id, n) IN t \in Stream /\ Orderly(t) /\ (Asks(s) # {} => Asks(t) # {})
<1> DEFINE e == Paired("result", id, n)
           u == <<e>>
           t == Paused(s, id, n)
<1>1. s \in Stream /\ Orderly(s)
  BY DEF Sound
<1>2. id \in Nat
  <2>1. PICK i \in DOMAIN s : s[i].kind = "call" /\ s[i].id = id
    BY <1>1, CallPlacement
  <2>2. s[i] \in Event
    BY <1>1, Positions DEF Stream
  <2> QED
    BY <2>1, <2>2, EventFacts DEF Identified
<1>3. e \in Event /\ e.kind = "result" /\ e.id = id
  BY <1>2, NewEvents DEF Identified
<1> HIDE DEF e
<1>4. u \in Stream /\ DOMAIN u = {1} /\ u[1] = e
  BY <1>3 DEF Stream
<1>5. t = s \o u
  BY <1>1, <1>3 DEF Paused, Stream, e
<1> HIDE DEF u, t
<1>6. Orderly(s \o u)
  <2>1. \A q \in DOMAIN u : u[q].kind = "result" /\ u[q].id \in Ids(s, "call") /\ u[q].id \notin Ids(s, "result")
    BY <1>3, <1>4
  <2>2. \A q, r \in DOMAIN u : u[q].id = u[r].id => q = r
    BY <1>4
  <2> QED
    BY <1>1, <1>4, <2>1, <2>2, OrderlyResults
<1>7. s \o u \in Stream /\ \A p \in DOMAIN s : p \in DOMAIN (s \o u) /\ (s \o u)[p] = s[p]
  BY <1>1, <1>4, AppendedAt
<1>8. t \in Stream /\ \A p \in DOMAIN s : p \in DOMAIN t /\ t[p] = s[p]
  BY <1>5, <1>7
<1>9. Asks(s) # {} => Asks(t) # {}
  BY <1>1, <1>8, Placement
<1> QED
  BY <1>5, <1>6, <1>8, <1>9 DEF t

\* An inquiry, whatever it leaves out.
LEMMA InquirySendable ==
  ASSUME NEW s, Sound(s), Waiting(s), Asks(s) # {}, NEW id \in Ids(s, "call"), id \notin Ids(s, "result"),
         NEW dropped, NEW n \in Nat
  PROVE  Sendable(InquiryStream(s, id, dropped, n))
<1> DEFINE p == Paused(s, id, n)
           whole == Sanitized(p)
           short == Shortened(whole, dropped)
<1>1. p \in Stream /\ Orderly(p) /\ Asks(p) # {}
  BY PausedOrderly
<1> HIDE DEF p
<1>2. whole \in Stream /\ Asks(whole) # {}
  BY <1>1, SanitizedOpens
<1>3. Sendable(whole)
  BY <1>1, <1>2, SanitizedSendable
<1> HIDE DEF whole
<1>4. Sendable(short)
  <2> DEFINE late == {i \in Conversation(whole) : Cardinality({j \in Conversation(whole) : j <= i}) > dropped}
             r == Retained(whole, late)
             t == Sanitized(r)
  <2>1. short = IF Asks(t) = {} THEN <<>> ELSE t
    BY DEF Shortened, Asks
  <2> HIDE DEF late, short
  <2>2. r \in Stream /\ \E K, m : Embeds(m, whole, K, r) /\ Added(m, K, r) = {}
    BY <1>2, RetainedEmbeds
  <2> HIDE DEF r
  <2>3. Orderly(r)
    <3>1. PICK K, m : Embeds(m, whole, K, r) /\ Added(m, K, r) = {}
      BY <2>2
    <3> QED
      BY <1>2, <1>3, <2>2, <3>1, OrderlySelected DEF Sendable
  <2>4. CASE Asks(t) # {}
    <3>1. Sendable(t)
      BY <2>2, <2>3, <2>4, SanitizedSendable
    <3> QED
      BY <2>1, <2>4, <3>1
  <2>5. CASE Asks(t) = {}
    <3>1. short = <<>>
      BY <2>1, <2>5
    <3> DEFINE none == <<>>
    <3>2. none \in Stream /\ DOMAIN none = {}
      BY DEF Stream
    <3> HIDE DEF none
    <3>3. Conversation(none) = {} /\ Turns(none) = {} /\ Asks(none) = {} /\ Calls(none) = {} /\ Results(none) = {}
      BY <3>2 DEF Conversation, Turns, Asks, Calls, Results, Where
    <3>4. Ids(none, "call") = {} /\ Ids(none, "result") = {}
      BY <3>2, CallPlacement
    <3>5. Sendable(none)
      BY <3>2, <3>3, <3>4 DEF Sendable, Started, Prompted, Orderly, Answered
    <3> QED
      BY <3>1, <3>5 DEF none
  <2> QED
    BY <2>4, <2>5
<1>5. InquiryStream(s, id, dropped, n) = IF dropped = 0 THEN StartTurn(whole, n) ELSE StartTurn(short, n)
  BY DEF InquiryStream, p, whole, short
<1> HIDE DEF short
<1>6. Sendable(StartTurn(whole, n)) /\ Sendable(StartTurn(short, n))
  BY <1>3, <1>4, SendableStartTurn
<1> QED
  BY <1>5, <1>6

\* A sequence flattened from its own elements.
LEMMA FlattenSingle ==
  ASSUME NEW E, NEW s \in Seq(E), NEW seqs, DOMAIN seqs = DOMAIN s, seqs \in Seq(Seq(E)),
         \A i \in DOMAIN s : seqs[i] = <<s[i]>>
  PROVE  FlattenSeq(seqs) = s
<1> DEFINE n == Len(s)
           t == FlattenSeq(seqs)
<1>1. n \in Nat /\ DOMAIN s = 1 .. n /\ Len(seqs) = n
  OBVIOUS
<1>2. t \in Seq(E) /\ \E at : LaidOut(at, seqs, Len(seqs), t)
  BY FlattenPlaces
<1>3. PICK at : LaidOut(at, seqs, n, t)
  BY <1>1, <1>2
<1> HIDE DEF t, n
<1>4. ASSUME NEW i \in 1 .. n PROVE Len(seqs[i]) = 1 /\ seqs[i][1] = s[i]
  <2>1. seqs[i] = <<s[i]>>
    BY <1>1
  <2> QED
    BY <2>1
<1>5. /\ at[0] = 0 /\ Len(t) = at[n]
      /\ \A i \in 0 .. n : at[i] \in Nat
      /\ \A i \in 1 .. n : at[i] = at[i - 1] + Len(seqs[i])
      /\ \A i \in 1 .. n : \A q \in 1 .. Len(seqs[i]) : t[at[i - 1] + q] = seqs[i][q]
  BY <1>3 DEF LaidOut
<1> DEFINE T == {i \in 0 .. n : at[i] = i}
<1>6. 0 \in T
  BY <1>1, <1>5
<1>7. ASSUME NEW i \in 0 .. n - 1, i \in T PROVE i + 1 \in T
  <2>1. i + 1 \in 1 .. n /\ (i + 1) - 1 = i /\ at[i] = i /\ i + 1 \in 0 .. n
    BY <1>1, <1>7
  <2>2. at[i + 1] = at[i] + 1
    BY <1>4, <1>5, <2>1
  <2> QED
    BY <2>1, <2>2
<1>8. ASSUME NEW k \in 0 .. n PROVE at[k] = k
  <2>1. k \in Nat /\ \A i \in 0 .. k - 1 : i \in 0 .. n - 1
    BY <1>1
  <2> HIDE DEF T
  <2>2. k \in T
    BY <1>6, <1>7, <2>1, InductionUpTo
  <2> QED
    BY <2>2 DEF T
<1>9. Len(t) = n
  BY <1>1, <1>5, <1>8
<1>10. ASSUME NEW i \in 1 .. n PROVE t[i] = s[i]
  <2>1. i - 1 \in 0 .. n /\ (i - 1) + 1 = i /\ 1 \in 1 .. 1
    BY <1>1
  <2>2. at[i - 1] = i - 1
    BY <1>8, <2>1
  <2>3. t[at[i - 1] + 1] = seqs[i][1]
    BY <1>4, <1>5, <2>1
  <2> QED
    BY <1>4, <2>1, <2>2, <2>3
<1>11. t \in Seq(E) /\ s \in Seq(E) /\ Len(s) = n
  BY <1>2 DEF n
<1>12. t = s
  BY <1>9, <1>10, <1>11
<1> QED
  BY <1>12 DEF t

\* Where everything is matched and nobody has spoken, sanitize removes at most a
\* trailing TurnStart.
LEMMA QuietBefore ==
  ASSUME NEW s \in Stream, Matched(s), Asks(s) = {}
  PROVE  BeforeNormalized(s) = TrailingTurnTrimmed(s)
<1>1. s \in Seq(Event) /\ DOMAIN s = 1 .. Len(s)
  BY Positions DEF Stream
<1>2. LeadingDropped(s) = s
  <2> DEFINE ask == FirstOf(Where(s, {"ask"}))
             K == {i \in DOMAIN s : i >= ask \/ IsGlobal(s[i]) \/ s[i].kind = "turn"}
  <2>1. ask = 0
    BY DEF FirstOf, Asks
  <2>2. \A i \in 1 .. Len(s) : i \in K
    BY <1>1, <2>1
  <2>3. LeadingDropped(s) = Pick(s, K)
    BY DEF LeadingDropped
  <2> HIDE DEF K
  <2> QED
    BY <1>1, <2>2, <2>3, PickAll
<1>3. ASSUME NEW kind, NEW partner, Ids(s, kind) = Ids(s, partner) PROVE OrphansRemoved(s, kind, partner) = s
  <2> DEFINE K == {i \in DOMAIN s : s[i].kind = kind => s[i].id \in Ids(s, partner)}
  <2>1. \A i \in DOMAIN s : s[i].kind = kind => s[i].id \in Ids(s, kind)
    BY <1>1, CallPlacement
  <2>2. \A i \in 1 .. Len(s) : i \in K
    BY <1>1, <1>3, <2>1
  <2>3. OrphansRemoved(s, kind, partner) = Pick(s, K)
    BY DEF OrphansRemoved
  <2> HIDE DEF K
  <2> QED
    BY <1>1, <2>2, <2>3, PickAll
<1>4. CallsAnswered(s) = s
  <2> DEFINE part(i) == IF s[i].kind = "call" /\ s[i].id \notin Ids(s, "result")
                        THEN <<s[i], Paired("result", s[i].id, s[i].n)>> ELSE <<s[i]>>
             seqs == [i \in DOMAIN s |-> part(i)]
  <2>1. CallsAnswered(s) = FlattenSeq(seqs)
    BY DEF CallsAnswered
  <2>2. ASSUME NEW i \in DOMAIN s PROVE part(i) = <<s[i]>> /\ part(i) \in Seq(Event)
    <3>1. s[i].kind = "call" => s[i].id \in Ids(s, "call")
      BY <1>1, CallPlacement
    <3>2. ~(s[i].kind = "call" /\ s[i].id \notin Ids(s, "result"))
      BY <3>1 DEF Matched
    <3>3. part(i) = <<s[i]>>
      BY <3>2
    <3>4. s[i] \in Event
      BY <1>1
    <3> HIDE DEF part
    <3> QED
      BY <3>3, <3>4
  <2> HIDE DEF part
  <2>3. DOMAIN seqs = DOMAIN s /\ \A i \in DOMAIN s : seqs[i] = <<s[i]>>
    BY <2>2
  <2>4. seqs \in Seq(Seq(Event))
    <3>1. seqs = [i \in 1 .. Len(s) |-> part(i)] /\ Len(s) \in Nat
      BY <1>1
    <3>2. \A i \in 1 .. Len(s) : part(i) \in Seq(Event)
      BY <1>1, <2>2
    <3> HIDE DEF seqs
    <3> QED
      BY <3>1, <3>2
  <2> HIDE DEF seqs
  <2> QED
    BY <1>1, <2>1, <2>3, <2>4, FlattenSingle
<1> QED
  BY <1>2, <1>3, <1>4 DEF BeforeNormalized, Matched

\* What keeps every one of the first places moves none of them back.
LEMMA EmbedsAbove ==
  ASSUME NEW s \in Stream, NEW t \in Stream, NEW K, NEW m, Embeds(m, s, K, t),
         NEW k \in Nat, \A i \in 1 .. k : i \in K
  PROVE  \A i \in 1 .. k : m[i] >= i
<1> DEFINE T == {n \in 0 .. k : \A i \in 1 .. n : m[i] >= i}
<1>1. 0 \in T
  OBVIOUS
<1>2. \A i \in 1 .. k : m[i] \in Nat /\ m[i] >= 1
  <2>1. DOMAIN t = 1 .. Len(t) /\ Len(t) \in Nat
    BY Positions DEF Stream
  <2>2. \A i \in 1 .. k : m[i] \in DOMAIN t
    BY DEF Embeds
  <2> QED
    BY <2>1, <2>2
<1>3. ASSUME NEW n \in 0 .. k - 1, n \in T PROVE n + 1 \in T
  <2>1. n \in Nat /\ n + 1 \in 1 .. k /\ n + 1 \in 0 .. k /\ \A i \in 1 .. n : m[i] >= i
    BY <1>3
  <2>2. m[n + 1] >= n + 1
    <3>1. CASE n = 0
      BY <1>2, <2>1, <3>1
    <3>2. CASE n # 0
      <4>1. n \in 1 .. n /\ n \in 1 .. k /\ n < n + 1
        BY <2>1, <3>2
      <4>2. m[n] < m[n + 1]
        BY <2>1, <4>1 DEF Embeds
      <4>3. m[n] >= n /\ m[n] \in Nat /\ m[n + 1] \in Nat
        BY <1>2, <2>1, <4>1
      <4> QED
        BY <2>1, <4>2, <4>3
    <3> QED
      BY <3>1, <3>2
  <2>3. \A i \in 1 .. n + 1 : i \in 1 .. n \/ i = n + 1
    BY <2>1
  <2>4. \A i \in 1 .. n + 1 : m[i] >= i
    BY <2>1, <2>2, <2>3
  <2> QED
    BY <2>1, <2>4
<1> HIDE DEF T
<1>4. k \in T
  BY <1>1, <1>3, InductionUpTo
<1> QED
  BY <1>4 DEF T

\* A stream that needs no repair and has no request has nothing but TurnStarts.
LEMMA UnaskedTurns ==
  ASSUME NEW s \in Stream, Sanitized(s) = s, Asks(s) = {}
  PROVE  Conversation(s) = Turns(s)
<1> DEFINE f == BeforeNormalized(s)
           x == LastOf(Conversation(s))
           K == DOMAIN s \ ({x} \cap Turns(s))
<1>1. Matched(s)
  BY MatchedSanitized
<1>2. f = TrailingTurnTrimmed(s) /\ s = TurnStartsNormalized(f)
  BY <1>1, QuietBefore, SanitizedIs
<1>3. /\ f \in Stream /\ K \subseteq DOMAIN s
      /\ \A i \in DOMAIN s : i \notin K => i \in Turns(s) /\ \A j \in Conversation(s) : j <= i
      /\ \A i \in DOMAIN s : i \notin Turns(s) => i \in K
  BY <1>2, TrailingTrimmedEmbeds
<1>4. PICK m : Embeds(m, s, K, f) /\ Added(m, K, f) = {}
  BY <1>2, TrailingTrimmedEmbeds
<1> HIDE DEF f, K, x
<1>5. Asks(f) = {}
  <2> SUFFICES ASSUME NEW p \in Asks(f) PROVE FALSE
    OBVIOUS
  <2>1. PICK i \in K : m[i] = p
    BY <1>3, <1>4, EmbeddedKinds, Placement
  <2>2. i \in Asks(s)
    BY <1>3, <1>4, <2>1, EmbeddedKinds
  <2> QED
    BY <2>2
<1>6. \/ s = f /\ Conversation(f) = Turns(f)
      \/ Collapses(f, s)
      \/ Inserts(f, s) /\ Conversation(f) # Turns(f)
  BY <1>2, <1>3, NormalizedCases
<1>7. CASE s = f /\ Conversation(f) = Turns(f)
  BY <1>7
<1>8. CASE Collapses(f, s)
  BY <1>5, <1>8 DEF Collapses
<1>9. CASE Inserts(f, s)
  <2> DEFINE w == [i \in DOMAIN f |-> IF i < 1 THEN i ELSE i + 1]
  <2>1. PICK stamp \in Nat : Embeds(w, f, DOMAIN f, s) /\ Added(w, DOMAIN f, s) = {1} /\ s[1] = Turn(stamp)
    BY <1>5, <1>9 DEF Inserts
  <2>2. /\ DOMAIN f = 1 .. Len(f) /\ Len(f) \in Nat /\ DOMAIN s = 1 .. Len(s) /\ Len(s) \in Nat
    BY <1>3, Positions DEF Stream
  <2>3. \A i \in DOMAIN f : w[i] = i + 1 /\ i \in Nat
    BY <2>2
  <2> HIDE DEF w
  <2>4. s[1].kind = "turn"
    BY <2>1, NewEvents
  <2>5. \A i \in DOMAIN f : i + 1 \in DOMAIN s /\ s[i + 1] = f[i]
    BY <2>1, <2>3 DEF Embeds
  <2>6. \A p \in DOMAIN s : p = 1 \/ \E i \in DOMAIN f : p = i + 1
    BY <1>3, <2>1, <2>3, EmbeddedKinds
  <2> DEFINE T == {k \in 0 .. Len(s) : \A i \in 1 .. k : i \in Conversation(s) => i \in Turns(s)}
  <2>7. 0 \in T
    BY <2>2
  <2>8. ASSUME NEW k \in 0 .. Len(s) - 1, k \in T PROVE k + 1 \in T
    <3>1. k \in Nat /\ k + 1 \in 0 .. Len(s) /\ \A i \in 1 .. k : i \in Conversation(s) => i \in Turns(s)
      BY <2>2, <2>8
    <3>2. ASSUME k + 1 \in Conversation(s), k + 1 \notin Turns(s) PROVE FALSE
      <4>1. k + 1 \in DOMAIN s /\ k + 1 # 1
        BY <2>4, <3>2, Placement
      <4>2. PICK i \in DOMAIN f : k + 1 = i + 1
        BY <2>6, <4>1
      <4>3. i = k
        BY <2>3, <3>1, <4>2
      <4>4. k \in DOMAIN f /\ f[k] = s[k + 1] /\ k \in 1 .. k
        BY <2>2, <2>5, <3>1, <4>2, <4>3
      <4>5. k \in Conversation(f) /\ k \notin Turns(f)
        BY <1>3, <3>2, <4>1, <4>4, Placement
      <4>6. PICK j \in K : m[j] = k
        BY <1>3, <1>4, <4>4, EmbeddedKinds
      <4>7. j \in Conversation(s) /\ j \notin Turns(s) /\ j \in Nat
        BY <1>3, <1>4, <4>5, <4>6, EmbeddedKinds, Placement
      <4>8. k < j
        <5>1. j \notin 1 .. k /\ j \in 1 .. Len(s)
          BY <1>3, <2>2, <3>1, <4>6, <4>7
        <5> QED
          BY <2>2, <3>1, <5>1
      <4>9. ASSUME NEW l \in 1 .. k PROVE l \in K
        <5>1. l \in DOMAIN s /\ l \in Nat /\ l < k + 1
          BY <2>2, <3>1, <4>9
        <5>2. ~(k + 1 <= l)
          BY <3>1, <5>1
        <5> QED
          BY <1>3, <3>2, <5>1, <5>2
      <4>10. m[k] >= k /\ k \in K
        BY <1>3, <1>4, <3>1, <4>4, <4>9, EmbedsAbove
      <4>11. m[k] < m[j]
        BY <1>3, <1>4, <4>6, <4>8, <4>10 DEF Embeds
      <4>12. m[k] \in DOMAIN f
        BY <1>4, <4>10 DEF Embeds
      <4>13. m[k] \in Nat
        BY <2>3, <4>12
      <4> QED
        BY <3>1, <4>6, <4>10, <4>11, <4>13
    <3>3. \A i \in 1 .. k + 1 : i \in 1 .. k \/ i = k + 1
      BY <3>1
    <3>4. \A i \in 1 .. k + 1 : i \in Conversation(s) => i \in Turns(s)
      BY <3>1, <3>2, <3>3
    <3> QED
      BY <3>1, <3>4
  <2> HIDE DEF T
  <2>9. Len(s) \in T
    BY <2>2, <2>7, <2>8, InductionUpTo
  <2>10. \A i \in Conversation(s) : i \in Turns(s)
    BY <2>2, <2>9, Placement DEF T
  <2>11. \A i \in Turns(s) : i \in Conversation(s)
    BY <1>3, Placement
  <2> QED
    BY <2>10, <2>11
<1> QED
  BY <1>6, <1>7, <1>8, <1>9

\* The turns a summary is made of.
SummaryPart(s, range) == {i \in Conversation(s) : TurnOf(s, i) \in range.from .. range.to}

\* In a stream that opens with a request, every event follows the request of its
\* own turn.
LEMMA AskInTurn ==
  ASSUME NEW s \in Stream, Started(s), Directed(s), Opening(s), NEW i \in Conversation(s), i \notin Turns(s)
  PROVE  \E a \in Asks(s) : a <= i /\ TurnOf(s, a) = TurnOf(s, i)
<1>1. PICK c \in Conversation(s), d \in Conversation(s) :
        /\ c \in Turns(s) /\ d \in Asks(s) /\ c < d
        /\ \A l \in Conversation(s) : l = c \/ l >= d
  BY DEF Opening
<1>2. PICK j \in Turns(s) : j <= i /\ TurnOf(s, j) = TurnOf(s, i)
  BY TurnBehind
<1>3. /\ \A l \in Conversation(s) : TurnOf(s, l) \in Nat
      /\ \A k, l \in Conversation(s) : k <= l => TurnOf(s, k) <= TurnOf(s, l)
  <2>1. Conversation(s) # {}
    OBVIOUS
  <2>2. TurnCount(s) \in Nat /\ \A l \in Conversation(s) : TurnOf(s, l) \in 0 .. TurnCount(s) - 1
    BY <2>1, TurnPlaces
  <2>3. \A k, l \in Conversation(s) : k <= l => TurnOf(s, k) <= TurnOf(s, l)
    BY <2>1, TurnPlaces
  <2> QED
    BY <2>2, <2>3
<1>4. j \in Conversation(s) /\ \A l \in Conversation(s) : l \in Nat
  BY <1>2, Placement
<1>5. ASSUME NEW a \in Asks(s), j <= a, a <= i PROVE TurnOf(s, a) = TurnOf(s, i)
  <2>1. a \in Conversation(s)
    BY <1>5, Placement
  <2>2. TurnOf(s, j) <= TurnOf(s, a) /\ TurnOf(s, a) <= TurnOf(s, i)
    BY <1>3, <1>4, <1>5, <2>1
  <2>3. TurnOf(s, a) \in Nat /\ TurnOf(s, i) \in Nat
    BY <1>3, <2>1
  <2> QED
    BY <1>2, <2>2, <2>3
<1>6. i # j
  BY <1>2
<1>7. CASE j = c
  <2>1. i >= d
    BY <1>1, <1>6, <1>7
  <2>2. j <= d /\ d <= i
    BY <1>1, <1>4, <1>7, <2>1
  <2> QED
    BY <1>1, <1>5, <2>2
<1>8. CASE j # c
  <2>1. j >= d
    BY <1>1, <1>4, <1>8
  <2>2. j # d
    BY <1>1, <1>2, Placement
  <2>3. d < j
    BY <1>1, <1>4, <2>1, <2>2
  <2>4. Direct(s, j)
    BY <1>1, <1>2, <2>3, SpeechPlaces DEF Directed
  <2>5. PICK a \in Asks(s) : j < a /\ \A l \in Conversation(s) : l <= j \/ a <= l
    BY <2>4 DEF Direct
  <2>6. a \in Nat
    BY <1>4, <2>5, Placement
  <2>7. ~(i <= j)
    BY <1>2, <1>4, <1>6
  <2>8. j <= a /\ a <= i
    BY <1>4, <2>5, <2>6, <2>7
  <2> QED
    BY <1>5, <2>5, <2>8
<1> QED
  BY <1>7, <1>8

\* Whole turns of a stream that needs no repair.
LEMMA SummarySendable ==
  ASSUME NEW s, Sound(s), Sanitized(s) = s, NEW range, NEW n \in Nat
  PROVE  Sendable(SummaryStream(s, range, n))
<1> DEFINE K == SummaryPart(s, range)
           y == Pick(s, K)
<1>1. s \in Stream /\ Started(s) /\ Directed(s) /\ Orderly(s) /\ Matched(s)
  BY SoundSanitized DEF Sound
<1>2. /\ K \subseteq Conversation(s)
      /\ \A i \in K, j \in Conversation(s) : TurnOf(s, j) = TurnOf(s, i) => j \in K
  BY DEF SummaryPart
<1>3. SummaryStream(s, range, n) = StartTurn(y, n)
  BY DEF SummaryStream, SummaryPart
<1> HIDE DEF K
<1>4. K \subseteq DOMAIN s
  BY <1>1, <1>2, Placement
<1>5. y \in Stream /\ \E m : Embeds(m, s, K, y) /\ Added(m, K, y) = {}
  BY <1>1, <1>4, PickOf
<1>6. PICK m : Embeds(m, s, K, y) /\ Added(m, K, y) = {}
  BY <1>5
<1> HIDE DEF y
<1>7. ASSUME NEW p \in Conversation(y)
      PROVE  \E i \in K : i \in Conversation(s) /\ m[i] = p /\ (p \in Turns(y) <=> i \in Turns(s))
  <2>1. p \in DOMAIN y
    BY <1>5, Placement
  <2>2. PICK i \in K : m[i] = p
    BY <1>1, <1>5, <1>6, <2>1, EmbeddedKinds
  <2> QED
    BY <1>1, <1>2, <1>5, <1>6, <2>2, EmbeddedKinds
<1>8. Started(y)
  <2> SUFFICES ASSUME NEW p \in Conversation(y) PROVE \E q \in Turns(y) : q <= p
    BY DEF Started
  <2>1. PICK i \in K : i \in Conversation(s) /\ m[i] = p
    BY <1>7
  <2>2. PICK j \in Turns(s) : j <= i /\ TurnOf(s, j) = TurnOf(s, i)
    BY <1>1, <2>1, TurnBehind
  <2>3. j \in K
    BY <1>1, <1>2, <2>1, <2>2, Placement
  <2>4. m[j] \in Turns(y)
    BY <1>1, <1>5, <1>6, <2>2, <2>3, EmbeddedKinds
  <2>5. m[j] <= m[i]
    BY <1>1, <1>5, <1>6, <2>1, <2>2, <2>3, EmbeddedOrder
  <2> QED
    BY <2>1, <2>4, <2>5
<1>9. Prompted(y)
  <2> SUFFICES ASSUME NEW p \in Conversation(y), p \notin Turns(y) PROVE \E q \in Asks(y) : q <= p
    BY DEF Prompted
  <2>1. PICK i \in K : i \in Conversation(s) /\ m[i] = p /\ i \notin Turns(s)
    BY <1>7
  <2>2. Asks(s) # {}
    <3>1. Conversation(s) # Turns(s)
      BY <2>1
    <3> QED
      BY <1>1, <3>1, UnaskedTurns
  <2>3. Opening(s)
    BY <2>2, SoundSanitized
  <2>4. PICK a \in Asks(s) : a <= i /\ TurnOf(s, a) = TurnOf(s, i)
    BY <1>1, <2>1, <2>3, AskInTurn
  <2>5. a \in K
    BY <1>1, <1>2, <2>1, <2>4, Placement
  <2>6. m[a] \in Asks(y)
    BY <1>1, <1>5, <1>6, <2>4, <2>5, EmbeddedKinds
  <2>7. m[a] <= m[i]
    BY <1>1, <1>5, <1>6, <2>1, <2>4, <2>5, EmbeddedOrder
  <2> QED
    BY <2>1, <2>6, <2>7
<1>10. Orderly(y)
  BY <1>1, <1>5, <1>6, OrderlySelected
<1>11. Answered(y)
  <2>1. \A p \in DOMAIN y : \E i \in K : m[i] = p /\ i \in DOMAIN s /\ y[p] = s[i]
    BY <1>1, <1>5, <1>6, EmbeddedKinds
  <2>2. \A i \in K : i \in DOMAIN s /\ m[i] \in DOMAIN y /\ y[m[i]] = s[i]
    BY <1>1, <1>5, <1>6, EmbeddedKinds
  <2>3. ASSUME NEW i \in Calls(s), NEW j \in Results(s), s[i].id = s[j].id PROVE i \in K <=> j \in K
    <3>1. TurnOf(s, i) = TurnOf(s, j)
      BY <1>1, <2>3, PairShown
    <3>2. i \in Conversation(s) /\ j \in Conversation(s)
      BY <1>1, CallPlacement
    <3> QED
      BY <1>2, <3>1, <3>2
  <2>4. ASSUME NEW id \in Ids(y, "call") PROVE id \in Ids(y, "result")
    <3>1. PICK p \in DOMAIN y : y[p].kind = "call" /\ y[p].id = id
      BY <1>5, CallPlacement
    <3>2. PICK i \in K : i \in DOMAIN s /\ s[i].kind = "call" /\ s[i].id = id
      BY <2>1, <3>1
    <3>3. id \in Ids(s, "call")
      BY <1>1, <3>2, CallPlacement
    <3>4. id \in Ids(s, "result")
      BY <1>1, <3>3 DEF Matched
    <3>5. PICK j \in DOMAIN s : s[j].kind = "result" /\ s[j].id = id
      BY <1>1, <3>4, CallPlacement
    <3>6. i \in Calls(s) /\ j \in Results(s)
      BY <1>1, <3>2, <3>5, CallPlacement
    <3>7. j \in K
      BY <2>3, <3>2, <3>5, <3>6
    <3> QED
      BY <1>5, <2>2, <3>5, <3>7, CallPlacement
  <2>5. ASSUME NEW id \in Ids(y, "result") PROVE id \in Ids(y, "call")
    <3>1. PICK p \in DOMAIN y : y[p].kind = "result" /\ y[p].id = id
      BY <1>5, CallPlacement
    <3>2. PICK j \in K : j \in DOMAIN s /\ s[j].kind = "result" /\ s[j].id = id
      BY <2>1, <3>1
    <3>3. id \in Ids(s, "result")
      BY <1>1, <3>2, CallPlacement
    <3>4. id \in Ids(s, "call")
      BY <1>1, <3>3 DEF Matched
    <3>5. PICK i \in DOMAIN s : s[i].kind = "call" /\ s[i].id = id
      BY <1>1, <3>4, CallPlacement
    <3>6. i \in Calls(s) /\ j \in Results(s)
      BY <1>1, <3>2, <3>5, CallPlacement
    <3>7. i \in K
      BY <2>3, <3>2, <3>5, <3>6
    <3> QED
      BY <1>5, <2>2, <3>5, <3>7, CallPlacement
  <2> QED
    BY <2>4, <2>5 DEF Answered
<1>12. Sendable(y)
  BY <1>5, <1>8, <1>9, <1>10, <1>11 DEF Sendable
<1> QED
  BY <1>3, <1>12, SendableStartTurn

\* Every stream a request is made from.
LEMMA RequestsSendable ==
  ASSUME Progress, SoundProgress
  PROVE  \A s \in Requests : Sendable(s)
<1>1. Sound(stream) /\ clock \in Nat
  BY ClockFacts DEF SoundProgress
<1>2. CASE phase = "request"
  <2>1. stream \in Stream /\ Orderly(stream)
    BY <1>1 DEF Sound
  <2>2. Asks(stream) # {}
    BY <1>2 DEF SoundProgress, Idle
  <2>3. Asks(Sanitized(stream)) # {}
    BY <1>1, <2>2, SoundSanitized
  <2>4. Sendable(Sanitized(stream))
    BY <2>1, <2>3, SanitizedSendable
  <2>5. Requests = {Sanitized(stream)}
    BY <1>2 DEF Requests, Running, Idle
  <2> QED
    BY <2>4, <2>5
<1>3. CASE Running
  <2>1. Waiting(stream) /\ Asks(stream) # {}
    BY <1>3 DEF SoundProgress, Running, Idle
  <2>2. ASSUME NEW id \in Unanswered, NEW k \in Lengths PROVE Sendable(InquiryStream(stream, id, k, clock))
    <3>1. id \in Ids(stream, "call") /\ id \notin Ids(stream, "result")
      BY <1>1, UnansweredOpen
    <3> QED
      BY <1>1, <2>1, <3>1, InquirySendable
  <2>3. Requests = {InquiryStream(stream, id, k, clock) : id \in Unanswered, k \in Lengths}
    BY <1>3 DEF Requests, Running, Idle
  <2> QED
    BY <2>2, <2>3
<1>4. CASE Idle /\ Sanitized(stream) = stream
  <2>1. \A r \in Ranges(stream) : Sendable(SummaryStream(stream, r, clock))
    BY <1>1, <1>4, SummarySendable
  <2>2. Requests = {SummaryStream(stream, r, clock) : r \in Ranges(stream)}
    BY <1>4 DEF Requests, Running, Idle
  <2> QED
    BY <2>1, <2>2
<1>5. CASE phase # "request" /\ ~Running /\ ~(Idle /\ Sanitized(stream) = stream)
  <2>1. Requests = {}
    BY <1>5 DEF Requests
  <2> QED
    BY <2>1
<1> QED
  BY <1>2, <1>3, <1>4, <1>5

\* Whatever a provider is asked, the user speaks first in it and every call is
\* followed by its one result before the user speaks again: the request of a turn,
\* an inquiry about a call that waits, the summary of a range.
THEOREM RequestsAlwaysAccepted == Spec => []RequestsAccepted
<1>1. Progress /\ SoundProgress => RequestsAccepted
  <2> SUFFICES ASSUME Progress, SoundProgress, NEW s \in Requests PROVE Accepted(Sent(s))
    BY DEF RequestsAccepted
  <2>1. Sendable(s)
    BY RequestsSendable
  <2> QED
    BY <2>1, SendableAccepted
<1> QED
  BY <1>1, StreamsStaySound, PTL
==================================================================================
