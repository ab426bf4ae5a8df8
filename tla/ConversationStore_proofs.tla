------------------------ MODULE ConversationStore_proofs ------------------------
(***************************************************************************)
(* Proofs about ConversationStore, for any processes, commands, edits and  *)
(* bounds.  The types hold.  Until a process that unarchives, which takes  *)
(* no lock, meets another one: at most one process has calls that change   *)
(* the conversation, and replacing the files of a copy one by one never    *)
(* makes a readable copy unreadable.  Until one of the lapses but a stale  *)
(* trash: a process that locks works with all that was saved.              *)
(***************************************************************************)
EXTENDS ConversationStore, FiniteSetTheorems, SequenceTheorems, TLAPS

Facts == INSTANCE Selection_proofs

StartupCalls == {"check", "trash", "index", "load"}
FileCalls == {"import", "copy", "mkdir", "write", "rename", "saved", "drop", "archive"}
RestoreCalls == {"unarchive", "restore"}
AnyCall ==
  [do : (StartupCalls \cup FileCalls \cup RestoreCalls) \ {"copy"}, root : Roots,
   file : Files \cup {"none"}]
    \cup [do : {"copy"}, root : Roots, file : SUBSET Files]

WritesBase(call, root) ==
  call.do \in {"write", "rename"} /\ call.root = root /\ call.file = "base"
WritesEvents(call) == call.do \in {"write", "rename"} /\ call.file = "events"

\* A write of the events is right behind the write of the base configuration
\* of the same copy; only the first call can be a rename.
Ordered(s) ==
  \A i \in 1 .. Len(s) :
    /\ s[i].do = "rename" => i = 1
    /\ WritesEvents(s[i]) => i = 1 \/ WritesBase(s[i - 1], s[i].root)

\* A list of calls that may stand behind any other.
Fresh(s) ==
  /\ s \in Seq(AnyCall)
  /\ \A i \in 1 .. Len(s) : s[i].do \in FileCalls /\ s[i].do # "rename"
  /\ \A i \in 1 .. Len(s) : WritesEvents(s[i]) => i # 1 /\ WritesBase(s[i - 1], s[i].root)

\* Such a list is in order on its own ...
LEMMA FreshIsOrdered == ASSUME NEW s, Fresh(s) PROVE Ordered(s)
BY DEF Fresh, Ordered

\* ... and behind another.
LEMMA FreshConcat == ASSUME NEW s, NEW t, Fresh(s), Fresh(t) PROVE Fresh(s \o t)
<1>1. s \in Seq(AnyCall) /\ t \in Seq(AnyCall)
  BY DEF Fresh
<1>2. s \o t \in Seq(AnyCall) /\ Len(s \o t) = Len(s) + Len(t)
  BY <1>1
<1>3. ASSUME NEW i \in 1 .. Len(s \o t)
      PROVE  /\ (s \o t)[i].do \in FileCalls /\ (s \o t)[i].do # "rename"
             /\ WritesEvents((s \o t)[i])
                  => i # 1 /\ WritesBase((s \o t)[i - 1], (s \o t)[i].root)
  <2>1. CASE i <= Len(s)
    <3>1. (s \o t)[i] = s[i] /\ (i # 1 => (s \o t)[i - 1] = s[i - 1])
      BY <1>1, <1>2, <2>1
    <3> QED
      BY <3>1, <2>1, <1>1 DEF Fresh
  <2>2. CASE i > Len(s)
    <3>1. /\ i - Len(s) \in 1 .. Len(t)
          /\ (s \o t)[i] = t[i - Len(s)]
          /\ i - Len(s) # 1 => (s \o t)[i - 1] = t[i - Len(s) - 1]
      BY <1>1, <1>2, <2>2
    <3>2. i # 1 \/ i - Len(s) = 1
      BY <1>1, <2>2
    <3> QED
      BY <3>1, <3>2, <2>2, <1>1 DEF Fresh
  <2> QED
    BY <2>1, <2>2, <1>1
<1> QED
  BY <1>2, <1>3 DEF Fresh

\* One call that writes no file of its own.
LEMMA FreshCall ==
  ASSUME NEW do \in {"import", "mkdir", "saved", "drop", "archive"}, NEW r \in Roots
  PROVE  Fresh(<<In(do, r)>>)
<1> DEFINE s == <<In(do, r)>>
<1>1. s \in Seq(AnyCall) /\ Len(s) = 1 /\ s[1].do = do
  BY DEF In, Call, AnyCall, Files, FileCalls
<1> HIDE DEF s
<1>2. Fresh(s)
  BY <1>1 DEF Fresh, FileCalls, WritesEvents
<1> QED
  BY <1>2 DEF s

\* The writes of one copy: the base configuration before the events.
LEMMA FreshWrites == ASSUME NEW r \in Roots PROVE Fresh(PersistTo(r))
<1> DEFINE s == WriteFiles(r)
<1>1. s \in Seq(AnyCall) /\ Len(s) = 3
  BY DEF WriteFiles, Call, AnyCall, Files, FileCalls
<1>2. ASSUME NEW i \in 1 .. 3
      PROVE  /\ s[i].do \in FileCalls /\ s[i].do # "rename"
             /\ WritesEvents(s[i]) => i # 1 /\ WritesBase(s[i - 1], s[i].root)
  <2>1. CASE i = 1
    BY <2>1 DEF WriteFiles, Call, FileCalls, WritesEvents
  <2>2. CASE i = 2
    BY <2>2 DEF WriteFiles, Call, FileCalls, WritesEvents
  <2>3. CASE i = 3
    BY <2>3 DEF WriteFiles, Call, FileCalls, WritesEvents, WritesBase
  <2> QED
    BY <2>1, <2>2, <2>3
<1> HIDE DEF s
<1>3. Fresh(s)
  BY <1>1, <1>2 DEF Fresh
<1>4. Fresh(WriteFiles(r))
  BY <1>3 DEF s
<1> QED
  BY <1>4, FreshCall, FreshConcat DEF PersistTo

\* A save, whatever the projection.
LEMMA FreshPersist == ASSUME NEW b PROVE Fresh(Persist(b))
<1>1. "user" \in Roots /\ "workspace" \in Roots
  BY DEF Roots
<1>2. Fresh(<<In("import", "user")>> \o PersistTo("user"))
  BY <1>1, FreshCall, FreshWrites, FreshConcat
<1>3. Fresh(<<In("import", "user")>> \o PersistTo("user") \o <<In("saved", "user")>>)
  BY <1>1, <1>2, FreshCall, FreshConcat
<1>4. Fresh(IF b THEN PersistTo("workspace") ELSE <<In("drop", "workspace")>>)
  BY <1>1, FreshCall, FreshWrites
<1> QED
  BY <1>3, <1>4, FreshConcat DEF Persist

\* The two renames of archiving.
LEMMA FreshMoves == Fresh(Moves)
<1> DEFINE s == Moves
<1>1. s \in Seq(AnyCall) /\ Len(s) = 2 /\ s[1].do = "archive" /\ s[2].do = "archive"
  BY DEF Moves, In, Call, AnyCall, Files, FileCalls, Roots
<1> HIDE DEF s
<1>2. Fresh(s)
  BY <1>1 DEF Fresh, FileCalls, WritesEvents
<1> QED
  BY <1>2 DEF s

-----------------------------------------------------------------------------
(* Directories.                                                            *)

\* What is known of a directory, whatever its times are.
IsDir(d) ==
  /\ d = [there |-> d.there, has |-> d.has, at |-> d.at, tmp |-> d.tmp]
  /\ d.has \in [Files -> Content]
  /\ ~d.there => d.tmp = {} /\ \A f \in Files : d.has[f] = Absent

DirsOK == live = [r \in Roots |-> live[r]] /\ \A r \in Roots : IsDir(live[r])

\* A set of edits is neither an absent nor a torn file.
LEMMA EditsAreGood ==
  ASSUME NEW c \in SUBSET Edits
  PROVE  Good(c) /\ c \in Content /\ c # NothingKnown
<1>1. MaxEdits \in Nat
  BY ConstantsAssumption
<1>2. \A n \in c : n \in Nat
  BY <1>1 DEF Edits
<1>3. c # {-1}
  <2>1. SUFFICES ASSUME c = {-1} PROVE FALSE
    OBVIOUS
  <2>2. -1 \in Nat
    BY <1>2, <2>1
  <2> QED
    BY <2>2
<1>4. c # {-2}
  <2>1. SUFFICES ASSUME c = {-2} PROVE FALSE
    OBVIOUS
  <2>2. -2 \in Nat
    BY <1>2, <2>1
  <2> QED
    BY <2>2
<1> QED
  BY <1>3, <1>4 DEF Good, Content, NothingKnown, Torn, Absent

IsRecord(d) == d = [there |-> d.there, has |-> d.has, at |-> d.at, tmp |-> d.tmp]

\* The fields of a changed directory.
LEMMA ThereSet ==
  ASSUME NEW d, IsRecord(d), NEW b
  PROVE  [d EXCEPT !.there = b] = [there |-> b, has |-> d.has, at |-> d.at, tmp |-> d.tmp]
BY DEF IsRecord

\* The same for the files and their times.
LEMMA Refilled ==
  ASSUME NEW d, IsRecord(d), NEW has, NEW at
  PROVE  [d EXCEPT !.has = has, !.at = at] = [there |-> d.there, has |-> has, at |-> at, tmp |-> d.tmp]
<1> DEFINE e == [d EXCEPT !.has = has, !.at = at]
<1>1. d = [there |-> d.there, has |-> d.has, at |-> d.at, tmp |-> d.tmp]
  BY DEF IsRecord
<1>2. e = [d EXCEPT !.has = has, !.at = at]
  OBVIOUS
<1> HIDE DEF e
<1>3. e = [there |-> d.there, has |-> has, at |-> at, tmp |-> d.tmp]
  BY <1>1, <1>2
<1> QED
  BY <1>3 DEF e

\* A new directory, and one that is not there.
LEMMA NewDirs == IsDir(EmptyDir) /\ IsDir(NoDir) /\ ~Loadable(NoDir)
<1>1. Absent \in Content
  BY DEF Content
<1>2. /\ EmptyDir.has = [f \in Files |-> Absent] /\ EmptyDir.tmp = {}
      /\ EmptyDir = [there |-> EmptyDir.there, has |-> EmptyDir.has, at |-> EmptyDir.at,
                     tmp |-> EmptyDir.tmp]
  BY DEF EmptyDir
<1>3. /\ NoDir.has = [f \in Files |-> Absent] /\ NoDir.there = FALSE /\ NoDir.tmp = {}
      /\ NoDir = [there |-> NoDir.there, has |-> NoDir.has, at |-> NoDir.at,
                  tmp |-> NoDir.tmp]
  <2>1. NoDir = [there |-> FALSE, has |-> EmptyDir.has, at |-> EmptyDir.at, tmp |-> {}]
    BY <1>2, ThereSet DEF NoDir, IsRecord
  <2> QED
    BY <1>2, <2>1
<1> QED
  BY <1>1, <1>2, <1>3 DEF IsDir, Loadable, Good, Files

\* A file is replaced in a directory that is there.
LEMMA PutDir ==
  ASSUME NEW d, IsDir(d), d.there, NEW f, NEW c \in Content
  PROVE  IsDir(Put(d, f, c)) /\ Put(d, f, c).has = [d.has EXCEPT ![f] = c]
<1> DEFINE e == Put(d, f, c)
<1>1. /\ e.there = d.there /\ e.has = [d.has EXCEPT ![f] = c]
      /\ e = [there |-> e.there, has |-> e.has, at |-> e.at, tmp |-> e.tmp]
  <2> DEFINE has == [d.has EXCEPT ![f] = c]
             at == [d.at EXCEPT ![f] = Now]
             tmp == d.tmp \ {f}
  <2>1. e = [d EXCEPT !.has = has, !.at = at, !.tmp = tmp]
    BY DEF Put
  <2>2. d = [there |-> d.there, has |-> d.has, at |-> d.at, tmp |-> d.tmp]
    BY DEF IsDir
  <2> HIDE DEF e, has, at, tmp
  <2>3. e = [there |-> d.there, has |-> has, at |-> at, tmp |-> tmp]
    BY <2>1, <2>2
  <2> QED
    BY <2>3 DEF has
<1>2. e.has \in [Files -> Content]
  BY <1>1 DEF IsDir
<1> QED
  BY <1>1, <1>2 DEF IsDir

\* One copy changes, the other does not.
LEMMA SetDir ==
  ASSUME DirsOK, NEW r \in Roots, NEW d, IsDir(d), Set(r, d)
  PROVE  DirsOK' /\ live'[r] = d /\ \A q \in Roots \ {r} : live'[q] = live[q]
<1>1. live' = [q \in Roots |-> IF q = r THEN d ELSE live[q]]
  BY DEF Set, DirsOK
<1> QED
  BY <1>1 DEF DirsOK

-----------------------------------------------------------------------------
(* The calls a process still has to make.                                  *)

\* What the holder of the lock may have to do.
Work(s) == s \in Seq(AnyCall) /\ Ordered(s) /\ \A i \in 1 .. Len(s) : s[i].do \in FileCalls

\* Nothing to do is in order.
LEMMA EmptyWork == Work(<<>>)
<1>1. <<>> \in Seq(AnyCall) /\ Len(<<>>) = 0
  OBVIOUS
<1> QED
  BY <1>1 DEF Work, Ordered

\* A new list of calls is in order, and does not begin with the events.
LEMMA FreshWork ==
  ASSUME NEW s, Fresh(s)
  PROVE  Work(s) /\ (s # <<>> => ~WritesEvents(s[1]))
<1>1. s # <<>> => 1 \in 1 .. Len(s)
  BY DEF Fresh
<1> QED
  BY <1>1, FreshIsOrdered DEF Work, Fresh

\* One call less.
LEMMA TailWork ==
  ASSUME NEW s, Work(s), s # <<>>
  PROVE  /\ Work(Tail(s))
         /\ Tail(s) # <<>> /\ WritesEvents(Tail(s)[1]) => WritesBase(s[1], Tail(s)[1].root)
<1>1. s \in Seq(AnyCall) /\ Len(s) \in Nat /\ Len(s) >= 1
  BY DEF Work
<1>2. Tail(s) \in Seq(AnyCall) /\ Len(Tail(s)) = Len(s) - 1
  BY <1>1
<1>3. \A i \in 1 .. Len(Tail(s)) : i + 1 \in 1 .. Len(s) /\ Tail(s)[i] = s[i + 1]
  BY <1>1, <1>2
<1>4. \A i \in 1 .. Len(Tail(s)) : i # 1 => Tail(s)[i - 1] = s[i]
  BY <1>1, <1>2
<1>5. ASSUME NEW i \in 1 .. Len(Tail(s))
      PROVE  /\ Tail(s)[i].do \in FileCalls
             /\ Tail(s)[i].do # "rename"
             /\ WritesEvents(Tail(s)[i]) => WritesBase(s[i], Tail(s)[i].root)
  <2>1. i + 1 # 1 /\ (i + 1) - 1 = i
    BY <1>2
  <2> QED
    BY <1>3, <2>1 DEF Work, Ordered
<1>6. Ordered(Tail(s))
  BY <1>4, <1>5 DEF Ordered
<1>7. Tail(s) # <<>> => 1 \in 1 .. Len(Tail(s))
  BY <1>2
<1> QED
  BY <1>2, <1>5, <1>6, <1>7 DEF Work

\* A rename is never second.
LEMMA TailRename ==
  ASSUME NEW s, Work(s), s # <<>>, Tail(s) # <<>>
  PROVE  Tail(s)[1].do # "rename"
<1>1. Len(s) >= 2 /\ Len(s) \in Nat /\ Tail(s)[1] = s[2] /\ 2 \in 1 .. Len(s)
  BY DEF Work
<1> QED
  BY <1>1 DEF Work, Ordered

\* The first call is replaced by another that does as much for the second.
LEMMA ReplaceHead ==
  ASSUME NEW s, Work(s), s # <<>>, NEW c \in AnyCall, c.do \in FileCalls,
         \A r \in Roots : WritesBase(s[1], r) => WritesBase(c, r)
  PROVE  Work(<<c>> \o Tail(s)) /\ (<<c>> \o Tail(s))[1] = c /\ <<c>> \o Tail(s) # <<>>
<1> DEFINE t == Tail(s)
           u == <<c>> \o t
<1>1. Work(t) /\ (t # <<>> /\ WritesEvents(t[1]) => WritesBase(s[1], t[1].root))
  BY TailWork
<1>2. t \in Seq(AnyCall)
  BY <1>1 DEF Work
<1> HIDE DEF t
<1>3. u \in Seq(AnyCall) /\ Len(u) = Len(t) + 1 /\ u[1] = c
  BY <1>2
<1>4. \A i \in 2 .. Len(u) : i - 1 \in 1 .. Len(t) /\ u[i] = t[i - 1]
  BY <1>2, <1>3
<1>5. \A i \in 1 .. Len(t) : t[i] \in AnyCall
  BY <1>2
<1> HIDE DEF u
<1>6. ASSUME NEW i \in 1 .. Len(u)
      PROVE  /\ u[i].do \in FileCalls
             /\ u[i].do = "rename" => i = 1
             /\ WritesEvents(u[i]) => i = 1 \/ WritesBase(u[i - 1], u[i].root)
  <2>1. CASE i = 1
    BY <1>3, <2>1
  <2>2. CASE i = 2
    <3>1. u[i] = t[1] /\ u[i - 1] = c /\ 1 \in 1 .. Len(t) /\ t # <<>> /\ t[1].root \in Roots
      BY <1>2, <1>3, <1>4, <1>5, <2>2 DEF AnyCall
    <3>2. t[1].do \in FileCalls
      BY <1>1, <3>1 DEF Work
    <3>3. t[1].do # "rename"
      BY TailRename, <3>1 DEF t
    <3> QED
      BY <1>1, <3>1, <3>2, <3>3
  <2>3. CASE i > 2
    <3>1. /\ u[i] = t[i - 1] /\ u[i - 1] = t[i - 2] /\ i - 1 \in 1 .. Len(t)
          /\ (i - 1) - 1 = i - 2 /\ i - 1 # 1
      BY <1>2, <1>3, <1>4, <2>3
    <3> QED
      BY <1>1, <3>1 DEF Work, Ordered
  <2> QED
    BY <1>3, <2>1, <2>2, <2>3
<1>7. Work(u)
  BY <1>3, <1>6 DEF Work, Ordered
<1> QED
  BY <1>3, <1>7 DEF u, t

\* A list with one more call before it.
LEMMA Prepended ==
  ASSUME NEW S, NEW c \in S, NEW t \in Seq(S)
  PROVE  /\ <<c>> \o t \in Seq(S) /\ Len(<<c>> \o t) = Len(t) + 1
         /\ (<<c>> \o t)[1] = c
         /\ \A i \in 2 .. Len(t) + 1 : i - 1 \in 1 .. Len(t) /\ (<<c>> \o t)[i] = t[i - 1]
OBVIOUS

-----------------------------------------------------------------------------
(* The clock.                                                              *)

\* Numbers that have a bound have a latest.
LEMMA LatestExists ==
  ASSUME NEW n \in Nat, NEW S, S \in SUBSET (0 .. n), S # {}
  PROVE  Latest(S) \in S /\ \A m \in S : m <= Latest(S)
<1>1. SUFFICES ASSUME \A k \in S : \E m \in S : ~(m <= k) PROVE FALSE
  BY DEF Latest
<1> DEFINE T == {k \in 0 .. n : \A m \in S : m <= n - k}
<1>2. 0 \in T
  OBVIOUS
<1>3. ASSUME NEW i \in 0 .. n - 1, i \in T PROVE i + 1 \in T
  <2>1. n - i \notin S
    BY <1>1, <1>3
  <2>2. \A m \in S : m \in 0 .. n /\ m <= n - i /\ m # n - i
    BY <1>3, <2>1
  <2> QED
    BY <2>2
<1> HIDE DEF T
<1>4. n \in T
  BY <1>2, <1>3, Facts!InductionUpTo
<1>5. \A m \in S : m = 0
  BY <1>4 DEF T
<1>6. PICK k \in S : TRUE
  OBVIOUS
<1>7. k = 0 /\ \A m \in S : m <= k
  BY <1>5, <1>6
<1> QED
  BY <1>1, <1>6, <1>7

\* The times of all copies have a bound.
Times == \E n \in Nat : \A dir \in Copies : \A f \in Files : dir.at[f] <= n

\* A number above them all.
LEMMA NowIsLater ==
  ASSUME Times, \A dir \in Copies : dir.at \in [Files -> Nat]
  PROVE  /\ Now \in Nat
         /\ \A dir \in Copies : \A f \in Files : dir.at[f] < Now
<1> DEFINE S == {0} \cup UNION {{dir.at[f] : f \in Files} : dir \in Copies}
<1>1. PICK n \in Nat : \A dir \in Copies : \A f \in Files : dir.at[f] <= n
  BY DEF Times
<1>2. \A dir \in Copies, f \in Files : dir.at[f] \in 0 .. n /\ dir.at[f] \in S
  BY <1>1
<1>3. S \in SUBSET (0 .. n) /\ S # {}
  BY <1>2
<1>4. Now = 1 + Latest(S)
  BY DEF Now
<1> HIDE DEF S
<1>5. Latest(S) \in 0 .. n /\ \A m \in S : m <= Latest(S)
  BY <1>3, LatestExists
<1>6. Now \in Nat /\ \A m \in 0 .. n : m \in S => m < Now
  BY <1>4, <1>5
<1> QED
  BY <1>2, <1>6

-----------------------------------------------------------------------------
(* Directories.                                                            *)

Shape(d) == d = [there |-> d.there, has |-> d.has, at |-> d.at, tmp |-> d.tmp]

\* The fields of a directory.
LEMMA DirShape ==
  ASSUME NEW d \in Dir
  PROVE  /\ Shape(d) /\ d.there \in BOOLEAN /\ d.has \in [Files -> Content]
         /\ d.at \in [Files -> Nat] /\ d.tmp \in SUBSET Files
BY DEF Dir, Shape

\* A record with these fields is one.
LEMMA ShapeDir ==
  ASSUME NEW there \in BOOLEAN, NEW has \in [Files -> Content], NEW at \in [Files -> Nat],
         NEW tmp \in SUBSET Files
  PROVE  [there |-> there, has |-> has, at |-> at, tmp |-> tmp] \in Dir
BY DEF Dir

\* No directory, and an empty one.
LEMMA EmptyDirs ==
  /\ EmptyDir \in Dir /\ NoDir \in Dir /\ ~Exists(NoDir) /\ Exists(EmptyDir)
  /\ \A f \in Files : /\ EmptyDir.at[f] = 0 /\ NoDir.at[f] = 0
                      /\ EmptyDir.has[f] = Absent /\ NoDir.has[f] = Absent
<1> DEFINE has == [f \in Files |-> Absent]
           at == [f \in Files |-> 0]
<1>1. has \in [Files -> Content] /\ at \in [Files -> Nat]
  BY DEF Content
<1>2. EmptyDir = [there |-> TRUE, has |-> has, at |-> at, tmp |-> {}]
  BY DEF EmptyDir
<1>3. NoDir = [there |-> FALSE, has |-> has, at |-> at, tmp |-> {}]
  <2>1. NoDir = [EmptyDir EXCEPT !.there = FALSE]
    BY DEF NoDir
  <2> HIDE DEF has, at
  <2> QED
    BY <1>2, <2>1
<1>4. \A f \in Files : has[f] = Absent /\ at[f] = 0
  OBVIOUS
<1> HIDE DEF has, at
<1>5. EmptyDir \in Dir /\ NoDir \in Dir
  BY <1>1, <1>2, <1>3, ShapeDir
<1> QED
  BY <1>2, <1>3, <1>4, <1>5 DEF Exists

\* A file is replaced.
LEMMA PutShape ==
  ASSUME NEW d \in Dir, NEW f \in Files, NEW c \in Content, Now \in Nat
  PROVE  /\ Put(d, f, c) \in Dir /\ Put(d, f, c).there = d.there
         /\ \A g \in Files : /\ Put(d, f, c).has[g] = IF g = f THEN c ELSE d.has[g]
                            /\ Put(d, f, c).at[g] = IF g = f THEN Now ELSE d.at[g]
<1> DEFINE has == [d.has EXCEPT ![f] = c]
           at == [d.at EXCEPT ![f] = Now]
           tmp == d.tmp \ {f}
           e == Put(d, f, c)
<1>1. e = [d EXCEPT !.has = has, !.at = at, !.tmp = tmp]
  BY DEF Put
<1>2. d = [there |-> d.there, has |-> d.has, at |-> d.at, tmp |-> d.tmp] /\ d.there \in BOOLEAN
  BY DirShape DEF Shape
<1>3. has \in [Files -> Content] /\ at \in [Files -> Nat] /\ tmp \in SUBSET Files
  BY DirShape
<1> HIDE DEF has, at, tmp, e
<1>4. e = [there |-> d.there, has |-> has, at |-> at, tmp |-> tmp]
  BY <1>1, <1>2
<1>5. e \in Dir
  BY <1>2, <1>3, <1>4, ShapeDir
<1>6. e.there = d.there /\ e.has = has /\ e.at = at
  BY <1>4
<1>7. \A g \in Files : has[g] = (IF g = f THEN c ELSE d.has[g]) /\ at[g] = IF g = f THEN Now ELSE d.at[g]
  BY DirShape DEF has, at
<1>8. /\ e \in Dir /\ e.there = d.there
      /\ \A g \in Files : /\ e.has[g] = IF g = f THEN c ELSE d.has[g]
                         /\ e.at[g] = IF g = f THEN Now ELSE d.at[g]
  BY <1>5, <1>6, <1>7
<1> QED
  BY <1>8 DEF e

\* A file is removed.
Without(d, f) == [d EXCEPT !.has[f] = Absent, !.at[f] = 0]

\* What is left when a file is removed.
LEMMA RemovedShape ==
  ASSUME NEW d \in Dir, NEW f \in Files
  PROVE  /\ Without(d, f) \in Dir /\ Without(d, f).there = d.there
         /\ \A g \in Files : /\ Without(d, f).has[g] = IF g = f THEN Absent ELSE d.has[g]
                            /\ Without(d, f).at[g] = IF g = f THEN 0 ELSE d.at[g]
<1> DEFINE has == [d.has EXCEPT ![f] = Absent]
           at == [d.at EXCEPT ![f] = 0]
           e == Without(d, f)
<1>1. e = [d EXCEPT !.has = has, !.at = at]
  BY DirShape DEF Without
<1>2. d = [there |-> d.there, has |-> d.has, at |-> d.at, tmp |-> d.tmp] /\ d.there \in BOOLEAN
      /\ d.tmp \in SUBSET Files
  BY DirShape DEF Shape
<1>3. has \in [Files -> Content] /\ at \in [Files -> Nat]
  BY DirShape DEF Content
<1>4. \A g \in Files : has[g] = (IF g = f THEN Absent ELSE d.has[g]) /\ at[g] = IF g = f THEN 0 ELSE d.at[g]
  BY DirShape
<1> HIDE DEF has, at, e
<1>5. e = [there |-> d.there, has |-> has, at |-> at, tmp |-> d.tmp]
  BY <1>1, <1>2
<1>6. e \in Dir
  BY <1>2, <1>3, <1>5, ShapeDir
<1>7. e.there = d.there /\ e.has = has /\ e.at = at
  BY <1>5
<1>8. /\ e \in Dir /\ e.there = d.there
      /\ \A g \in Files : /\ e.has[g] = IF g = f THEN Absent ELSE d.has[g]
                         /\ e.at[g] = IF g = f THEN 0 ELSE d.at[g]
  BY <1>4, <1>6, <1>7
<1> QED
  BY <1>8 DEF e

\* Temporary files come and go.
LEMMA TmpShape ==
  ASSUME NEW d \in Dir, NEW there \in BOOLEAN, NEW tmp \in SUBSET Files
  PROVE  LET e == [d EXCEPT !.there = there, !.tmp = tmp] IN
         e \in Dir /\ e.there = there /\ e.has = d.has /\ e.at = d.at /\ e.tmp = tmp
<1> DEFINE e == [d EXCEPT !.there = there, !.tmp = tmp]
<1>1. e = [d EXCEPT !.there = there, !.tmp = tmp]
  OBVIOUS
<1>2. d = [there |-> d.there, has |-> d.has, at |-> d.at, tmp |-> d.tmp]
  BY DirShape DEF Shape
<1> HIDE DEF e
<1>3. e = [there |-> there, has |-> d.has, at |-> d.at, tmp |-> tmp]
  BY <1>1, <1>2
<1>4. e \in Dir
  BY <1>3, DirShape, ShapeDir
<1>5. e.there = there /\ e.has = d.has /\ e.at = d.at /\ e.tmp = tmp
  BY <1>3
<1> QED
  BY <1>4, <1>5 DEF e

\* The same for leftovers alone.
LEMMA CleanedShape ==
  ASSUME NEW d \in Dir
  PROVE  LET e == [d EXCEPT !.tmp = {}] IN
         e \in Dir /\ e.there = d.there /\ e.has = d.has /\ e.at = d.at /\ e.tmp = {}
<1> DEFINE e == [d EXCEPT !.tmp = {}]
<1>1. e = [d EXCEPT !.tmp = {}]
  OBVIOUS
<1>2. d = [there |-> d.there, has |-> d.has, at |-> d.at, tmp |-> d.tmp]
  BY DirShape DEF Shape
<1> HIDE DEF e
<1>3. e = [there |-> d.there, has |-> d.has, at |-> d.at, tmp |-> {}]
  BY <1>1, <1>2
<1>4. e \in Dir
  BY <1>3, DirShape, ShapeDir
<1>5. e.there = d.there /\ e.has = d.has /\ e.at = d.at /\ e.tmp = {}
  BY <1>3
<1> QED
  BY <1>4, <1>5 DEF e

-----------------------------------------------------------------------------
(* The disk.                                                               *)

NothingHidden == \A r \in Roots : /\ ~Exists(live[r]) => live[r] = NoDir
                                  /\ ~Exists(archive[r]) => archive[r] = NoDir

DiskOK ==
  /\ live \in [Roots -> Dir] /\ archive \in [Roots -> Dir] /\ trash \in SUBSET Dir
  /\ NothingHidden /\ \A dir \in trash : Exists(dir)
  /\ Times

\* The clock goes on.
LEMMA DiskNow ==
  ASSUME DiskOK
  PROVE  Now \in Nat /\ \A dir \in Copies : dir \in Dir /\ \A f \in Files : dir.at[f] < Now
<1>1. \A dir \in Copies : dir \in Dir
  BY DEF DiskOK, Copies, Places
<1>2. \A dir \in Copies : dir.at \in [Files -> Nat]
  BY <1>1, DirShape
<1> QED
  BY <1>1, <1>2, NowIsLater DEF DiskOK

\* A time is not new, or it is the clock's.
Dated(d) == \A f \in Files : \/ d.at[f] = 0 \/ d.at[f] = Now
                             \/ \E old \in Copies : d.at[f] = old.at[f]

\* What is there already is dated.
LEMMA KeptDates ==
  ASSUME DiskOK
  PROVE  /\ \A r \in Roots : Dated(live[r]) /\ Dated(archive[r])
         /\ \A dir \in trash : Dated(dir)
<1>1. ASSUME NEW r \in Roots, NEW d \in {live[r], archive[r]}
      PROVE  Dated(d)
  <2>1. CASE Exists(d)
    BY <2>1 DEF Dated, Copies, Places
  <2>2. CASE ~Exists(d)
    BY <2>2, EmptyDirs DEF Dated, DiskOK, NothingHidden
  <2> QED
    BY <2>1, <2>2
<1>2. ASSUME NEW d \in trash
      PROVE  Dated(d)
  <2>1. CASE Exists(d)
    BY <2>1 DEF Dated, Copies
  <2>2. CASE ~Exists(d)
    BY <2>2 DEF DiskOK
  <2> QED
    BY <2>1, <2>2
<1> QED
  BY <1>1, <1>2

\* The disk after a step that leaves it in order.
LEMMA DiskStep ==
  ASSUME DiskOK, live' \in [Roots -> Dir], archive' \in [Roots -> Dir],
         trash' \in SUBSET Dir, NothingHidden', \A dir \in trash' : Exists(dir),
         \A r \in Roots : Dated(live'[r]) /\ Dated(archive'[r]),
         \A dir \in trash' : Dated(dir)
  PROVE  DiskOK'
<1>1. Now \in Nat /\ \A dir \in Copies : dir \in Dir /\ \A f \in Files : dir.at[f] < Now
  BY DiskNow
<1>2. \A dir \in Copies : dir.at \in [Files -> Nat]
  BY <1>1, DirShape
<1>3. ASSUME NEW d \in Dir, Dated(d), NEW f \in Files
      PROVE  d.at[f] <= Now
  <2>1. CASE d.at[f] = 0 \/ d.at[f] = Now
    BY <1>1, <2>1
  <2>2. ASSUME NEW old \in Copies, d.at[f] = old.at[f]
        PROVE  d.at[f] <= Now
    <3>1. old.at[f] \in Nat /\ old.at[f] < Now
      BY <1>1, <1>2, <2>2
    <3> QED
      BY <1>1, <2>2, <3>1
  <2> QED
    BY <1>3, <2>1, <2>2 DEF Dated
<1>4. \A dir \in Copies' : dir \in Dir /\ Dated(dir)
  BY DEF Copies, Places
<1>5. Times'
  <2>1. \A dir \in Copies' : \A f \in Files : dir.at[f] <= Now
    BY <1>3, <1>4
  <2> DEFINE n == Now
  <2>2. n \in Nat /\ \A dir \in Copies' : \A f \in Files : dir.at[f] <= n
    BY <1>1, <2>1
  <2> HIDE DEF n
  <2> QED
    BY <2>2 DEF Times
<1> QED
  BY <1>5 DEF DiskOK

\* One live copy changes.
LEMMA LiveStep ==
  ASSUME DiskOK, NEW r \in Roots, NEW d \in Dir, Dated(d), Exists(d) \/ d = NoDir,
         Set(r, d), archive' = archive, trash' = trash
  PROVE  DiskOK'
<1>1. live' = [live EXCEPT ![r] = d] /\ live \in [Roots -> Dir]
  BY DEF Set, DiskOK
<1>2. live' \in [Roots -> Dir] /\ \A q \in Roots : live'[q] = IF q = r THEN d ELSE live[q]
  BY <1>1
<1>3. NothingHidden' /\ \A q \in Roots : Dated(live'[q]) /\ Dated(archive'[q])
  BY <1>2, KeptDates DEF DiskOK, NothingHidden
<1> QED
  BY <1>2, <1>3, KeptDates, DiskStep DEF DiskOK

\* Nothing on the disk changes.
LEMMA SameDisk == ASSUME DiskOK, UNCHANGED disk PROVE DiskOK'
BY DEF disk, DiskOK, NothingHidden, Times, Copies, Places

-----------------------------------------------------------------------------
(* The calls.                                                              *)

PhaseNames == {"off", "starting", "found", "missing", "locked", "leaving", "restoring"}
LapseNames == {"stale copy", "stale trash", "stale read", "half restored", "unlocked"}
Restful == {"check", "trash", "index", "import", "mkdir", "saved", "drop", "archive"}
WorkCalls ==
  [do : Restful, root : Roots, file : {"none"}]
    \cup [do : {"write", "rename"}, root : Roots, file : Files]
    \cup [do : {"copy"}, root : Roots, file : SUBSET Files]
TypedCalls == WorkCalls \cup [do : {"load", "unarchive", "restore"}, root : Roots, file : {"none"}]

\* Writing takes something to write.
Writes(s) == \E i \in 1 .. Len(s) : s[i].do \in {"write", "rename", "saved"}

TodoOK(p) ==
  /\ todo[p] \in Seq(TypedCalls)
  /\ \A i \in 1 .. Len(todo[p]) : todo[p][i].do = "restore" => i = Len(todo[p])
  /\ Writes(todo[p]) => memory[p] \in SUBSET Edits /\ todo[p] \in Seq(WorkCalls)

MindOK ==
  /\ lock \in Procs \cup {NoProc}
  /\ phase \in [Procs -> PhaseNames]
  /\ bad \in [Procs -> SUBSET Roots]
  /\ memory \in [Procs -> {NothingKnown} \cup SUBSET Edits]
  /\ projected \in [Procs -> BOOLEAN]
  /\ saved \in SUBSET Edits
  /\ lapses \subseteq LapseNames

TodosOK == todo \in [Procs -> Seq(TypedCalls)] /\ \A p \in Procs : TodoOK(p)
LockedKnows ==
  \A p \in Procs : phase[p] = "locked" => memory[p] \in SUBSET Edits /\ todo[p] \in Seq(WorkCalls)

TypeInv == MindOK /\ DiskOK /\ TodosOK /\ LockedKnows

\* What the invariant is for.
LEMMA TypeInvTypes == TypeInv => TypeOK
BY DEF TypeInv, MindOK, PhaseNames, LapseNames, DiskOK, NothingHidden, TypeOK, Places

\* The next call.
LEMMA NextCall ==
  ASSUME TypeInv, NEW p \in Procs, NEW kinds, At(p, kinds)
  PROVE  /\ todo[p] # <<>> /\ todo[p] \in Seq(TypedCalls) /\ Len(todo[p]) \in Nat
         /\ 1 \in 1 .. Len(todo[p])
         /\ Current(p) = todo[p][1] /\ Current(p) \in TypedCalls
         /\ Current(p).do \in kinds /\ Current(p).root \in Roots
         /\ Current(p).do \in {"write", "rename"} => Current(p).file \in Files
         /\ Current(p).do = "copy" => Current(p).file \in SUBSET Files
         /\ Current(p).do \in {"write", "rename", "saved"}
              => memory[p] \in SUBSET Edits /\ todo[p] \in Seq(WorkCalls)
<1>1. todo[p] # <<>> /\ todo[p] \in Seq(TypedCalls) /\ Current(p).do \in kinds /\ TodoOK(p)
  BY DEF TypeInv, TodosOK, TodoOK, At
<1>2. 1 \in 1 .. Len(todo[p]) /\ Current(p) = todo[p][1] /\ Len(todo[p]) \in Nat
  BY <1>1 DEF Current
<1>3. Current(p) \in TypedCalls
  BY <1>1, <1>2
<1>4. /\ Current(p).root \in Roots
      /\ Current(p).do \in {"write", "rename"} => Current(p).file \in Files
      /\ Current(p).do = "copy" => Current(p).file \in SUBSET Files
  BY <1>3 DEF TypedCalls, WorkCalls, Restful
<1>5. Current(p).do \in {"write", "rename", "saved"}
        => memory[p] \in SUBSET Edits /\ todo[p] \in Seq(WorkCalls)
  BY <1>1, <1>2 DEF TodoOK, Writes
<1> QED
  BY <1>1, <1>2, <1>3, <1>4, <1>5

\* Only p's calls and memory change, and they fit each other.
LEMMA TodoStep ==
  ASSUME TypeInv, NEW p \in Procs, NEW s, todo' = [todo EXCEPT ![p] = s],
         NEW m, memory' = [memory EXCEPT ![p] = m],
         s \in Seq(TypedCalls), \A i \in 1 .. Len(s) : s[i].do = "restore" => i = Len(s),
         Writes(s) => m \in SUBSET Edits /\ s \in Seq(WorkCalls)
  PROVE  TodosOK'
<1>1. todo' \in [Procs -> Seq(TypedCalls)] /\ todo'[p] = s /\ \A q \in Procs \ {p} : todo'[q] = todo[q]
  BY DEF TypeInv, TodosOK
<1>2. memory'[p] = m /\ \A q \in Procs \ {p} : memory'[q] = memory[q]
  BY DEF TypeInv, MindOK
<1>3. ASSUME NEW q \in Procs
      PROVE  TodoOK(q)'
  <2>1. CASE q = p
    BY <1>1, <1>2, <2>1 DEF TodoOK, Writes
  <2>2. CASE q # p
    BY <1>1, <1>2, <2>2 DEF TypeInv, TodosOK, TodoOK, Writes
  <2> QED
    BY <2>1, <2>2
<1> QED
  BY <1>1, <1>3 DEF TodosOK

\* The rest of a list.
LEMMA TailItems ==
  ASSUME NEW S, NEW s \in Seq(S), s # <<>>
  PROVE  /\ Tail(s) \in Seq(S) /\ Len(Tail(s)) = Len(s) - 1
         /\ Len(s) \in Nat /\ Len(Tail(s)) \in Nat
         /\ \A i \in 1 .. Len(Tail(s)) : i + 1 \in 1 .. Len(s) /\ Tail(s)[i] = s[i + 1]
<1>1. Tail(s) \in Seq(S) /\ Len(Tail(s)) = Len(s) - 1 /\ Len(s) \in Nat /\ Len(Tail(s)) \in Nat
  OBVIOUS
<1>2. \A i \in 1 .. Len(Tail(s)) : i + 1 \in 1 .. Len(s) /\ Tail(s)[i] = s[i + 1]
  BY <1>1
<1> QED
  BY <1>1, <1>2

\* One call less.
LEMMA ShorterTodo ==
  ASSUME NEW s \in Seq(TypedCalls), s # <<>>,
         \A i \in 1 .. Len(s) : s[i].do = "restore" => i = Len(s)
  PROVE  /\ Tail(s) \in Seq(TypedCalls) /\ Len(Tail(s)) \in Nat
         /\ \A i \in 1 .. Len(Tail(s)) : Tail(s)[i].do = "restore" => i = Len(Tail(s))
         /\ Writes(Tail(s)) => Writes(s)
         /\ s \in Seq(WorkCalls) => Tail(s) \in Seq(WorkCalls)
<1> DEFINE t == Tail(s)
<1>1. t \in Seq(TypedCalls) /\ Len(t) = Len(s) - 1 /\ Len(s) \in Nat /\ Len(t) \in Nat
  BY TailItems
<1>2. \A i \in 1 .. Len(t) : i + 1 \in 1 .. Len(s) /\ t[i] = s[i + 1]
  BY TailItems
<1>3. s \in Seq(WorkCalls) => t \in Seq(WorkCalls)
  OBVIOUS
<1> HIDE DEF t
<1>4. ASSUME NEW i \in 1 .. Len(t), t[i].do = "restore"
      PROVE  i = Len(t)
  <2>1. PICK k \in 1 .. Len(s) : k = i + 1 /\ s[k].do = "restore"
    BY <1>2, <1>4
  <2>2. k = Len(s)
    BY <2>1
  <2> QED
    BY <1>1, <2>1, <2>2
<1>5. Writes(t) => Writes(s)
  BY <1>2 DEF Writes
<1> QED
  BY <1>1, <1>3, <1>4, <1>5 DEF t

\* Another call in the place of the first.
LEMMA ReplacedTodo ==
  ASSUME NEW s \in Seq(TypedCalls), s # <<>>,
         \A i \in 1 .. Len(s) : s[i].do = "restore" => i = Len(s), NEW c \in WorkCalls,
         c.do \in {"write", "rename", "saved"} => Writes(s)
  PROVE  LET t == <<c>> \o Tail(s) IN
         /\ t \in Seq(TypedCalls)
         /\ \A i \in 1 .. Len(t) : t[i].do = "restore" => i = Len(t)
         /\ Writes(t) => Writes(s)
         /\ s \in Seq(WorkCalls) => t \in Seq(WorkCalls)
<1> DEFINE u == Tail(s)
           t == <<c>> \o u
<1>1. /\ u \in Seq(TypedCalls) /\ Len(u) \in Nat
      /\ \A i \in 1 .. Len(u) : u[i].do = "restore" => i = Len(u)
      /\ Writes(u) => Writes(s)
      /\ s \in Seq(WorkCalls) => u \in Seq(WorkCalls)
  BY ShorterTodo
<1> HIDE DEF u
<1>2. c \in TypedCalls /\ c.do # "restore"
  BY DEF TypedCalls, WorkCalls, Restful
<1>3. /\ t \in Seq(TypedCalls) /\ Len(t) = Len(u) + 1 /\ t[1] = c
      /\ \A i \in 2 .. Len(u) + 1 : i - 1 \in 1 .. Len(u) /\ t[i] = u[i - 1]
  BY <1>1, <1>2, Prepended
<1>4. s \in Seq(WorkCalls) => t \in Seq(WorkCalls)
  BY <1>1, Prepended
<1> HIDE DEF t
<1>5. ASSUME NEW i \in 1 .. Len(t)
      PROVE  /\ t[i].do = "restore" => i = Len(t)
             /\ t[i].do \in {"write", "rename", "saved"} => Writes(s)
  <2>1. CASE i = 1
    BY <1>2, <1>3, <2>1
  <2>2. CASE i # 1
    <3>1. i \in 2 .. Len(u) + 1
      BY <1>1, <1>3, <2>2
    <3>2. t[i] = u[i - 1] /\ i - 1 \in 1 .. Len(u) /\ (i - 1 = Len(u) => i = Len(t))
      BY <1>1, <1>3, <3>1
    <3> QED
      BY <1>1, <3>2 DEF Writes
  <2> QED
    BY <2>1, <2>2
<1>6. Writes(t) => Writes(s)
  BY <1>5 DEF Writes
<1>7. /\ t \in Seq(TypedCalls)
      /\ \A i \in 1 .. Len(t) : t[i].do = "restore" => i = Len(t)
      /\ Writes(t) => Writes(s)
      /\ s \in Seq(WorkCalls) => t \in Seq(WorkCalls)
  BY <1>3, <1>4, <1>5, <1>6
<1> QED
  BY <1>7 DEF t, u

\* Lists of calls on files.
LEMMA Saving ==
  ASSUME NEW b
  PROVE  /\ Persist(b) \in Seq(WorkCalls) /\ Moves \in Seq(WorkCalls)
         /\ Persist(b) \o Moves \in Seq(WorkCalls)
<1>1. ASSUME NEW do \in Restful, NEW r \in Roots PROVE <<In(do, r)>> \in Seq(WorkCalls)
  BY <1>1 DEF In, Call, WorkCalls
<1>2. ASSUME NEW r \in Roots PROVE PersistTo(r) \in Seq(WorkCalls)
  <2>1. WriteFiles(r) \in Seq(WorkCalls)
    BY DEF WriteFiles, Call, WorkCalls, Files
  <2>2. <<In("mkdir", r)>> \in Seq(WorkCalls)
    BY <1>1 DEF Restful
  <2> QED
    BY <2>1, <2>2 DEF PersistTo
<1>3. /\ <<In("import", "user")>> \in Seq(WorkCalls) /\ <<In("saved", "user")>> \in Seq(WorkCalls)
      /\ <<In("drop", "workspace")>> \in Seq(WorkCalls)
  BY <1>1 DEF Restful, Roots
<1>4. PersistTo("user") \in Seq(WorkCalls) /\ PersistTo("workspace") \in Seq(WorkCalls)
  BY <1>2 DEF Roots
<1>5. Persist(b) \in Seq(WorkCalls)
  BY <1>3, <1>4 DEF Persist
<1>6. Moves \in Seq(WorkCalls)
  BY DEF Moves, In, Call, WorkCalls, Restful, Roots
<1> QED
  BY <1>5, <1>6

\* Calls on files alone restore nothing.
LEMMA WorkIsTyped ==
  ASSUME NEW s \in Seq(WorkCalls)
  PROVE  /\ s \in Seq(TypedCalls)
         /\ \A i \in 1 .. Len(s) : s[i].do = "restore" => i = Len(s)
<1>1. \A c \in WorkCalls : c \in TypedCalls /\ c.do # "restore"
  BY DEF TypedCalls, WorkCalls, Restful
<1> QED
  BY <1>1

\* What a process does when it starts.
LEMMA StartingCalls ==
  ASSUME NEW p
  PROVE  LET s == Startup(p) IN
         /\ s \in Seq(TypedCalls) /\ ~Writes(s)
         /\ \A i \in 1 .. Len(s) : s[i].do = "restore" => i = Len(s)
<1> DEFINE Calm == [do : {"check", "index", "load"}, root : Roots, file : {"none"}]
           head == <<In("check", "workspace"), In("check", "user"), In("index", "user")>>
           tail == IF p \in Eager THEN <<In("load", "user")>> ELSE <<>>
           s == Startup(p)
<1>1. head \in Seq(Calm)
  BY DEF In, Call, Roots
<1>2. tail \in Seq(Calm)
  <2>1. <<In("load", "user")>> \in Seq(Calm) /\ <<>> \in Seq(Calm)
    BY DEF In, Call, Roots
  <2> HIDE DEF Calm
  <2> QED
    BY <2>1
<1>3. s = head \o tail
  BY DEF Startup
<1> HIDE DEF head, tail, s
<1>4. s \in Seq(Calm)
  BY <1>1, <1>2, <1>3
<1>5. \A c \in Calm : c \in TypedCalls /\ c.do \notin {"restore", "write", "rename", "saved"}
  BY DEF TypedCalls, WorkCalls, Restful
<1> HIDE DEF Calm
<1>6. /\ s \in Seq(TypedCalls) /\ ~Writes(s)
      /\ \A i \in 1 .. Len(s) : s[i].do = "restore" => i = Len(s)
  BY <1>4, <1>5 DEF Writes
<1> QED
  BY <1>6 DEF s

\* What a step does to the calls of p when it touches no others.
TodoKept(p) ==
  /\ \A q \in Procs \ {p} : todo'[q] = todo[q]
  /\ todo[p] \in Seq(WorkCalls) => todo'[p] \in Seq(WorkCalls)

\* The calls after a step of p that does not touch its memory.
LEMMA KeptTodos ==
  ASSUME TypeInv, NEW p \in Procs, memory' = memory, NEW s, todo' = [todo EXCEPT ![p] = s],
         s \in Seq(TypedCalls), \A i \in 1 .. Len(s) : s[i].do = "restore" => i = Len(s),
         Writes(s) => memory[p] \in SUBSET Edits /\ s \in Seq(WorkCalls),
         todo[p] \in Seq(WorkCalls) => s \in Seq(WorkCalls)
  PROVE  TodosOK' /\ TodoKept(p) /\ todo'[p] = s
<1>1. memory' = [memory EXCEPT ![p] = memory[p]]
  BY DEF TypeInv, MindOK
<1>2. todo'[p] = s /\ \A q \in Procs \ {p} : todo'[q] = todo[q]
  BY DEF TypeInv, TodosOK
<1> QED
  BY <1>1, <1>2, TodoStep DEF TodoKept

\* The same lists of calls, shorter ones, ones with another first call.
LEMMA SameTodos ==
  ASSUME TypeInv, NEW p \in Procs, memory' = memory, todo' = todo
  PROVE  TodosOK' /\ TodoKept(p)
BY DEF TypeInv, TodosOK, TodoOK, Writes, TodoKept

\* A call is done, the others stay.
LEMMA ProceedTodos ==
  ASSUME TypeInv, NEW p \in Procs, todo[p] # <<>>, Proceed(p), memory' = memory
  PROVE  TodosOK' /\ TodoKept(p)
<1> DEFINE s == Tail(todo[p])
<1>1. TodoOK(p) /\ todo[p] \in Seq(TypedCalls)
  BY DEF TypeInv, TodosOK
<1>2. /\ s \in Seq(TypedCalls)
      /\ \A i \in 1 .. Len(s) : s[i].do = "restore" => i = Len(s)
      /\ Writes(s) => Writes(todo[p])
      /\ todo[p] \in Seq(WorkCalls) => s \in Seq(WorkCalls)
  BY <1>1, ShorterTodo DEF TodoOK
<1>3. todo' = [todo EXCEPT ![p] = s]
  BY DEF Proceed
<1> HIDE DEF s
<1> QED
  BY <1>1, <1>2, <1>3, KeptTodos DEF TodoOK

\* A call gives way to another.
LEMMA InsteadTodos ==
  ASSUME TypeInv, NEW p \in Procs, todo[p] # <<>>, NEW c \in WorkCalls, Instead(p, <<c>>),
         c.do \in {"write", "rename", "saved"} => todo[p][1].do \in {"write", "rename", "saved"},
         memory' = memory
  PROVE  TodosOK' /\ TodoKept(p)
<1> DEFINE s == <<c>> \o Tail(todo[p])
<1>1. TodoOK(p) /\ todo[p] \in Seq(TypedCalls)
  BY DEF TypeInv, TodosOK
<1>2. 1 \in 1 .. Len(todo[p])
  BY <1>1
<1>3. c.do \in {"write", "rename", "saved"} => Writes(todo[p])
  BY <1>2 DEF Writes
<1>4. /\ s \in Seq(TypedCalls)
      /\ \A i \in 1 .. Len(s) : s[i].do = "restore" => i = Len(s)
      /\ Writes(s) => Writes(todo[p])
      /\ todo[p] \in Seq(WorkCalls) => s \in Seq(WorkCalls)
  BY <1>1, <1>3, ReplacedTodo DEF TodoOK
<1>5. todo' = [todo EXCEPT ![p] = s]
  BY DEF Instead
<1> HIDE DEF s
<1> QED
  BY <1>1, <1>4, <1>5, KeptTodos DEF TodoOK

\* Work on files begins in the place of what was to do.
LEMMA WorkTodos ==
  ASSUME TypeInv, NEW p \in Procs, NEW m \in SUBSET Edits, memory' = [memory EXCEPT ![p] = m],
         NEW s \in Seq(WorkCalls), todo' = [todo EXCEPT ![p] = s]
  PROVE  TodosOK'
BY WorkIsTyped, TodoStep

\* Nothing is left to do.
LEMMA EmptyTodos ==
  ASSUME TypeInv, NEW p \in Procs, NEW m, memory' = [memory EXCEPT ![p] = m],
         todo' = [todo EXCEPT ![p] = <<>>]
  PROVE  TodosOK'
<1> DEFINE s == <<>>
<1>1. s \in Seq(TypedCalls)
  OBVIOUS
<1>2. Len(s) = 0
  OBVIOUS
<1>3. todo' = [todo EXCEPT ![p] = s]
  OBVIOUS
<1> HIDE DEF s
<1>4. \A i \in 1 .. Len(s) : FALSE
  BY <1>2
<1>5. ~Writes(s) /\ \A i \in 1 .. Len(s) : s[i].do = "restore" => i = Len(s)
  BY <1>4 DEF Writes
<1> QED
  BY <1>1, <1>3, <1>5, TodoStep

\* A save is given up.
LEMMA GiveUpTodos ==
  ASSUME TypeInv, NEW p \in Procs, GiveUp(p), memory' = memory
  PROVE  TodosOK' /\ TodoKept(p)
<1>1. CASE todo' = [todo EXCEPT ![p] = Moves]
  <2> DEFINE s == Moves
  <2>1. s \in Seq(TypedCalls) /\ \A i \in 1 .. Len(s) : s[i].do = "restore" => i = Len(s)
    BY Saving, WorkIsTyped
  <2>6. s \in Seq(WorkCalls)
    BY Saving
  <2>2. Len(s) = 2 /\ s[1].do = "archive" /\ s[2].do = "archive"
    BY DEF Moves, In, Call
  <2> HIDE DEF s
  <2>3. \A i \in 1 .. Len(s) : s[i].do = "archive"
    BY <2>2
  <2>4. ~Writes(s)
    BY <2>3 DEF Writes
  <2>5. todo' = [todo EXCEPT ![p] = s]
    BY <1>1 DEF s
  <2> QED
    BY <2>1, <2>4, <2>5, <2>6, KeptTodos
<1>2. CASE todo' = [todo EXCEPT ![p] = <<>>]
  <2>1. memory' = [memory EXCEPT ![p] = memory[p]]
    BY DEF TypeInv, MindOK
  <2>2. TodosOK'
    BY <1>2, <2>1, EmptyTodos
  <2>3. TodoKept(p)
    <3>1. todo'[p] = <<>> /\ \A q \in Procs \ {p} : todo'[q] = todo[q]
      BY <1>2 DEF TypeInv, TodosOK
    <3> QED
      BY <3>1 DEF TodoKept
  <2> QED
    BY <2>2, <2>3
<1>3. todo' = [todo EXCEPT ![p] = Moves] \/ todo' = [todo EXCEPT ![p] = <<>>]
  BY DEF GiveUp
<1> QED
  BY <1>1, <1>2, <1>3

-----------------------------------------------------------------------------
(* Every step keeps the types.                                             *)

\* A process changes its phase, its memory, or both.
LEMMA PhaseStep ==
  ASSUME TypeInv, NEW p \in Procs,
         NEW x \in PhaseNames,
         phase' = [phase EXCEPT ![p] = x],
         NEW m \in {NothingKnown} \cup SUBSET Edits, memory' = [memory EXCEPT ![p] = m],
         \A q \in Procs \ {p} : todo'[q] = todo[q],
         x = "locked" => m \in SUBSET Edits /\ todo'[p] \in Seq(WorkCalls)
  PROVE  /\ phase' \in [Procs -> PhaseNames]
         /\ memory' \in [Procs -> {NothingKnown} \cup SUBSET Edits]
         /\ LockedKnows'
<1>1. /\ phase' \in [Procs -> PhaseNames]
      /\ phase'[p] = x /\ \A q \in Procs \ {p} : phase'[q] = phase[q]
  BY DEF TypeInv, MindOK
<1>2. /\ memory' \in [Procs -> {NothingKnown} \cup SUBSET Edits]
      /\ memory'[p] = m /\ \A q \in Procs \ {p} : memory'[q] = memory[q]
  BY DEF TypeInv, MindOK
<1> QED
  BY <1>1, <1>2 DEF TypeInv, LockedKnows

\* A call changes the disk and the list of calls.
LEMMA CallStep ==
  ASSUME TypeInv, NEW p \in Procs, KeepsMind(p), saved' \in SUBSET Edits, DiskOK', TodosOK',
         TodoKept(p)
  PROVE  TypeInv'
BY DEF TypeInv, MindOK, KeepsMind, LockedKnows, TodoKept

\* Each action keeps the types: a process starts ...
LEMMA StartTypes == ASSUME TypeInv, NEW p \in Procs, Start(p) PROVE TypeInv'
<1>1. /\ UNCHANGED <<disk, lock, bad, memory, projected, saved, lapses>>
      /\ phase' = [phase EXCEPT ![p] = "starting"] /\ todo' = [todo EXCEPT ![p] = Startup(p)]
  BY DEF Start
<1>2. memory' = [memory EXCEPT ![p] = memory[p]] /\ memory[p] \in {NothingKnown} \cup SUBSET Edits
  BY <1>1 DEF TypeInv, MindOK
<1>3. TodosOK'
  BY <1>1, <1>2, StartingCalls, TodoStep
<1>4. \A q \in Procs \ {p} : todo'[q] = todo[q]
  BY <1>1 DEF TypeInv, TodosOK
<1>5. DiskOK'
  BY <1>1, SameDisk DEF TypeInv
<1> QED
  BY <1>1, <1>2, <1>3, <1>4, <1>5, PhaseStep DEF TypeInv, MindOK, PhaseNames

\* ... validates a copy, and removes leftovers ...
LEMMA CheckTypes == ASSUME TypeInv, NEW p \in Procs, Check(p) PROVE TypeInv'
<1> DEFINE r == Current(p).root
<1>1. r \in Roots /\ todo[p] # <<>>
  BY NextCall DEF Check
<1>2. TodosOK' /\ TodoKept(p)
  BY <1>1, ProceedTodos DEF Check
<1>3. bad' \in [Procs -> SUBSET Roots]
  BY <1>1 DEF Check, TypeInv, MindOK
<1>4. DiskOK'
  <2>1. CASE Exists(live[r])
    <3> DEFINE d == [live[r] EXCEPT !.tmp = {}]
    <3>1. live[r] \in Dir /\ Dated(live[r])
      BY <1>1, KeptDates DEF TypeInv, DiskOK
    <3>2. d \in Dir /\ d.there = live[r].there /\ d.at = live[r].at
      BY <3>1, CleanedShape
    <3>3. Set(r, d) /\ archive' = archive /\ trash' = trash
      BY <2>1 DEF Check
    <3> HIDE DEF d, r
    <3> QED
      BY <1>1, <2>1, <3>1, <3>2, <3>3, LiveStep DEF Dated, Exists, TypeInv
  <2>2. CASE ~Exists(live[r])
    BY <2>2, SameDisk DEF Check, TypeInv, disk
  <2> QED
    BY <2>1, <2>2
<1> QED
  BY <1>2, <1>3, <1>4 DEF Check, TypeInv, MindOK, LockedKnows, TodoKept

\* What is found to be trash goes before everything else.
LEMMA ProbeTypes == ASSUME TypeInv, NEW p \in Procs, Probe(p) PROVE TypeInv'
<1> DEFINE r == FirstOf(bad[p])
<1>1. r \in Roots /\ todo[p] # <<>>
  BY NextCall DEF Probe, FirstOf, Roots
<1>2. bad' \in [Procs -> SUBSET Roots]
  BY <1>1 DEF Probe, TypeInv, MindOK
<1>3. DiskOK'
  BY SameDisk DEF Probe, TypeInv
<1>4. TodosOK' /\ TodoKept(p)
  <2>1. CASE todo' = todo
    BY <2>1, SameTodos DEF Probe
  <2>2. CASE todo' = [todo EXCEPT ![p] = <<In("trash", r)>> \o @]
    <3> DEFINE c == In("trash", r)
               u == todo[p]
               t == <<c>> \o u
    <3>1. c \in WorkCalls /\ c \in TypedCalls /\ c.do = "trash"
      BY <1>1 DEF In, Call, TypedCalls, WorkCalls, Restful
    <3>2. TodoOK(p) /\ u \in Seq(TypedCalls) /\ Len(u) \in Nat
      BY DEF TypeInv, TodosOK
    <3>3. todo' = [todo EXCEPT ![p] = t]
      BY <2>2
    <3>4. u # <<>>
      BY <1>1
    <3>5. /\ \A i \in 1 .. Len(u) : u[i].do = "restore" => i = Len(u)
          /\ Writes(u) => memory[p] \in SUBSET Edits /\ u \in Seq(WorkCalls)
      BY <3>2 DEF TodoOK
    <3> HIDE DEF c, u
    <3>6. /\ t \in Seq(TypedCalls) /\ Len(t) = Len(u) + 1 /\ t[1] = c
          /\ \A i \in 2 .. Len(u) + 1 : i - 1 \in 1 .. Len(u) /\ t[i] = u[i - 1]
      BY <3>1, <3>2, Prepended
    <3>7. u \in Seq(WorkCalls) => t \in Seq(WorkCalls)
      BY <3>1, Prepended
    <3> HIDE DEF t
    <3>8. ASSUME NEW i \in 1 .. Len(t)
          PROVE  /\ t[i].do = "restore" => i = Len(t)
                 /\ t[i].do \in {"write", "rename", "saved"} => Writes(u)
      <4>1. CASE i = 1
        BY <3>1, <3>6, <4>1
      <4>2. CASE i # 1
        <5>1. i \in 2 .. Len(u) + 1
          BY <3>2, <3>6, <4>2
        <5>2. t[i] = u[i - 1] /\ i - 1 \in 1 .. Len(u) /\ (i - 1 = Len(u) => i = Len(t))
          BY <3>2, <3>6, <5>1
        <5> QED
          BY <3>5, <5>2 DEF Writes
      <4> QED
        BY <4>1, <4>2
    <3>9. Writes(t) => Writes(u)
      BY <3>8 DEF Writes
    <3>10. memory' = memory
      BY DEF Probe
    <3>11. Writes(t) => memory[p] \in SUBSET Edits /\ t \in Seq(WorkCalls)
      BY <3>5, <3>7, <3>9
    <3>12. todo[p] \in Seq(WorkCalls) => t \in Seq(WorkCalls)
      BY <3>7 DEF u
    <3> QED
      BY <3>3, <3>6, <3>8, <3>10, <3>11, <3>12, KeptTodos
  <2> QED
    BY <2>1, <2>2 DEF Probe
<1> QED
  BY <1>2, <1>3, <1>4 DEF Probe, TypeInv, MindOK, LockedKnows, TodoKept

\* ... trashes one ...
LEMMA TrashTypes == ASSUME TypeInv, NEW p \in Procs, Trash(p) PROVE TypeInv'
<1> DEFINE r == Current(p).root
<1>1. r \in Roots /\ todo[p] # <<>>
  BY NextCall DEF Trash
<1>2. TodosOK' /\ TodoKept(p)
  BY <1>1, ProceedTodos DEF Trash
<1>3. lapses' \subseteq LapseNames
  BY DEF Trash, Lapse, Noted, LapseNames, TypeInv, MindOK
<1>4. DiskOK'
  <2>1. live' = [live EXCEPT ![r] = NoDir] /\ archive' = archive
        /\ trash' = IF Exists(live[r]) THEN trash \cup {live[r]} ELSE trash
    BY DEF Trash, Set
  <2>2. DiskOK
    BY DEF TypeInv
  <2> HIDE DEF r
  <2>3. live' \in [Roots -> Dir] /\ \A q \in Roots : live'[q] = IF q = r THEN NoDir ELSE live[q]
    BY <1>1, <2>1, <2>2, EmptyDirs DEF DiskOK
  <2>4. trash' \in SUBSET Dir /\ \A dir \in trash' : Exists(dir) /\ Dated(dir)
    BY <1>1, <2>1, <2>2, KeptDates DEF DiskOK
  <2>5. Dated(NoDir)
    BY EmptyDirs DEF Dated
  <2>6. NothingHidden' /\ \A q \in Roots : Dated(live'[q]) /\ Dated(archive'[q])
    BY <2>1, <2>2, <2>3, <2>5, KeptDates DEF DiskOK, NothingHidden
  <2> QED
    BY <2>1, <2>2, <2>3, <2>4, <2>6, DiskStep DEF DiskOK
<1> QED
  BY <1>2, <1>3, <1>4 DEF Trash, TypeInv, MindOK, LockedKnows, TodoKept

\* ... notes where the conversation is ...
LEMMA IndexTypes == ASSUME TypeInv, NEW p \in Procs, Index(p) PROVE TypeInv'
<1>1. todo[p] # <<>>
  BY NextCall DEF Index
<1>2. TodosOK' /\ TodoKept(p)
  BY <1>1, ProceedTodos DEF Index
<1>3. projected' \in [Procs -> BOOLEAN]
  BY DEF Index, Projects, TypeInv, MindOK
<1>4. DiskOK'
  BY SameDisk DEF Index, TypeInv
<1>5. memory' = [memory EXCEPT ![p] = memory[p]] /\ memory[p] \in {NothingKnown} \cup SUBSET Edits
  BY DEF Index, TypeInv, MindOK
<1>6. \E x \in {"found", "missing"} : phase' = [phase EXCEPT ![p] = x]
  BY DEF Index
<1>7. phase' \in [Procs -> PhaseNames] /\ LockedKnows'
  BY <1>2, <1>5, <1>6, PhaseStep DEF TodoKept, PhaseNames
<1> QED
  BY <1>2, <1>3, <1>4, <1>7 DEF Index, TypeInv, MindOK

\* What a process reads.
LEMMA LoadedTyped == ASSUME DiskOK PROVE Loaded \in {NothingKnown} \cup SUBSET Edits
<1> DEFINE d == Newer({"base", "events"})
<1>1. d \in Dir
  BY DEF Newer, DiskOK, Roots
<1>2. d.has["events"] \in Content
  BY <1>1, DirShape DEF Files
<1> HIDE DEF d
<1>3. ASSUME Loadable(d)
      PROVE  d.has["events"] \ {LegacyMark} \in SUBSET Edits
  BY <1>2, <1>3 DEF Loadable, Good, Content
<1> QED
  BY <1>3 DEF Loaded, d

\* ... reads it early ...
LEMMA EagerLoadTypes == ASSUME TypeInv, NEW p \in Procs, EagerLoad(p) PROVE TypeInv'
<1> DEFINE s == todo[p]
           t == Tail(s)
<1>1. todo[p] # <<>> /\ 1 \in 1 .. Len(s) /\ s[1].do = "load" /\ s \in Seq(TypedCalls) /\ TodoOK(p)
  <2>1. At(p, {"load"})
    BY DEF EagerLoad
  <2>2. TodoOK(p)
    BY DEF TypeInv, TodosOK
  <2> QED
    BY <2>1, <2>2, NextCall
<1>2. Loaded \in {NothingKnown} \cup SUBSET Edits
  BY LoadedTyped DEF TypeInv
<1>3. s \notin Seq(WorkCalls)
  <2>1. SUFFICES ASSUME s \in Seq(WorkCalls) PROVE FALSE
    OBVIOUS
  <2> HIDE DEF s
  <2>2. s[1] \in WorkCalls
    BY <1>1, <2>1
  <2> QED
    BY <1>1, <2>2 DEF WorkCalls, Restful
<1>4. /\ \A i \in 1 .. Len(s) : s[i].do = "restore" => i = Len(s)
      /\ ~Writes(s)
  BY <1>1, <1>3 DEF TodoOK
<1>5. /\ t \in Seq(TypedCalls)
      /\ \A i \in 1 .. Len(t) : t[i].do = "restore" => i = Len(t)
      /\ ~Writes(t)
  <2> HIDE DEF s
  <2> QED
    BY <1>1, <1>4, ShorterTodo DEF s
<1>6. todo' = [todo EXCEPT ![p] = t] /\ memory' = [memory EXCEPT ![p] = Loaded] /\ phase' = phase
  BY DEF EagerLoad, Proceed
<1>7. TodosOK'
  <2> HIDE DEF t
  <2> QED
    BY <1>5, <1>6, TodoStep
<1>8. phase' = [phase EXCEPT ![p] = phase[p]] /\ \A q \in Procs \ {p} : todo'[q] = todo[q]
  BY <1>6 DEF TypeInv, MindOK, TodosOK
<1>9. phase[p] # "locked"
  BY <1>3 DEF TypeInv, LockedKnows
<1>10. /\ memory' \in [Procs -> {NothingKnown} \cup SUBSET Edits] /\ LockedKnows'
  BY <1>2, <1>6, <1>8, <1>9, PhaseStep DEF TypeInv, MindOK
<1>11. DiskOK'
  BY SameDisk DEF EagerLoad, TypeInv
<1> QED
  BY <1>6, <1>7, <1>10, <1>11 DEF EagerLoad, TypeInv, MindOK

\* A process that leaves.
LEMMA OffTypes ==
  ASSUME TypeInv, NEW p \in Procs, Off(p), todo' = [todo EXCEPT ![p] = <<>>],
         bad' \in [Procs -> SUBSET Roots], lapses' \subseteq LapseNames,
         UNCHANGED <<disk, saved>>
  PROVE  TypeInv'
<1>1. TodosOK'
  BY EmptyTodos DEF Off
<1>2. \A q \in Procs \ {p} : todo'[q] = todo[q]
  BY DEF TypeInv, TodosOK
<1>3. /\ phase' \in [Procs -> PhaseNames]
      /\ memory' \in [Procs -> {NothingKnown} \cup SUBSET Edits] /\ LockedKnows'
  BY <1>2, PhaseStep DEF Off, PhaseNames
<1>4. DiskOK'
  BY SameDisk DEF TypeInv
<1>5. lock' \in Procs \cup {NoProc} /\ projected' \in [Procs -> BOOLEAN]
  BY DEF Off, TypeInv, MindOK
<1> QED
  BY <1>1, <1>3, <1>4, <1>5 DEF TypeInv, MindOK

\* A process that ends, and one that is killed, keep nothing.
LEMMA LeaveTypes == ASSUME TypeInv, NEW p \in Procs, Leave(p) PROVE TypeInv'
<1>1. todo' = [todo EXCEPT ![p] = <<>>]
  BY DEF Leave, TypeInv, TodosOK
<1> QED
  BY <1>1, OffTypes DEF Leave, TypeInv, MindOK

\* The same for one that is killed.
LEMMA CrashTypes == ASSUME TypeInv, NEW p \in Procs, Crash(p) PROVE TypeInv'
BY OffTypes DEF Crash, TypeInv, MindOK

\* A process with work to do, or with none, and something to write.
LEMMA BeginTypes ==
  ASSUME TypeInv, NEW p \in Procs, NEW x \in {"locked", "leaving"},
         phase' = [phase EXCEPT ![p] = x], NEW m \in SUBSET Edits,
         memory' = [memory EXCEPT ![p] = m], NEW s \in Seq(WorkCalls),
         todo' = [todo EXCEPT ![p] = s], lock' \in Procs \cup {NoProc},
         projected' \in [Procs -> BOOLEAN], saved' \in SUBSET Edits,
         lapses' \subseteq LapseNames, UNCHANGED <<disk, bad>>
  PROVE  TypeInv'
<1>1. TodosOK'
  BY WorkTodos
<1>2. todo'[p] = s /\ \A q \in Procs \ {p} : todo'[q] = todo[q]
  BY DEF TypeInv, TodosOK
<1>3. /\ phase' \in [Procs -> PhaseNames]
      /\ memory' \in [Procs -> {NothingKnown} \cup SUBSET Edits] /\ LockedKnows'
  BY <1>2, PhaseStep DEF PhaseNames
<1>4. DiskOK'
  BY SameDisk DEF TypeInv
<1> QED
  BY <1>1, <1>3, <1>4 DEF TypeInv, MindOK

\* A lock is taken with content that was read.
LEMMA AcquireTypes == ASSUME TypeInv, NEW p \in Procs, Acquire(p) PROVE TypeInv'
<1> DEFINE content == IF memory[p] = NothingKnown THEN Loaded ELSE memory[p]
<1>1. todo' = [todo EXCEPT ![p] = <<>>]
  BY DEF Acquire, Ready, TypeInv, TodosOK
<1>2. content \in {NothingKnown} \cup SUBSET Edits
  BY LoadedTyped DEF TypeInv, MindOK
<1>3. lapses' \subseteq LapseNames /\ bad' = bad /\ UNCHANGED <<disk, saved>>
  BY DEF Acquire, Noted, LapseNames, TypeInv, MindOK
<1>4. CASE content = NothingKnown
  <2>1. Off(p)
    BY <1>4 DEF Acquire
  <2> QED
    BY <1>1, <1>3, <2>1, OffTypes DEF TypeInv, MindOK
<1>5. CASE content # NothingKnown
  <2>1. /\ lock' = p /\ memory' = [memory EXCEPT ![p] = content]
        /\ phase' = [phase EXCEPT ![p] = "locked"] /\ projected' = projected
    BY <1>5 DEF Acquire
  <2>2. content \in SUBSET Edits
    BY <1>2, <1>5
  <2> HIDE DEF content
  <2>3. <<>> \in Seq(WorkCalls)
    OBVIOUS
  <2> QED
    BY <1>1, <1>3, <2>1, <2>2, <2>3, BeginTypes DEF TypeInv, MindOK
<1> QED
  BY <1>4, <1>5

\* A new conversation is empty.
LEMMA CreateTypes == ASSUME TypeInv, NEW p \in Procs, Create(p) PROVE TypeInv'
<1>1. todo' = [todo EXCEPT ![p] = <<>>] /\ <<>> \in Seq(WorkCalls)
  BY DEF Create, Ready, TypeInv, TodosOK
<1>2. projected' \in [Procs -> BOOLEAN]
  BY DEF Create, TypeInv, MindOK
<1>3. {} \in SUBSET Edits
  OBVIOUS
<1>4. lapses' \subseteq LapseNames
  BY DEF Create, Lapse, Noted, LapseNames, TypeInv, MindOK
<1> QED
  BY <1>1, <1>2, <1>3, <1>4, BeginTypes DEF Create, TypeInv, MindOK

\* The memory of a process that holds the lock.
LEMMA LockedMemory ==
  ASSUME TypeInv, NEW p \in Procs, phase[p] = "locked"
  PROVE  /\ memory[p] \in SUBSET Edits /\ memory = [memory EXCEPT ![p] = memory[p]]
         /\ phase = [phase EXCEPT ![p] = "locked"]
BY DEF TypeInv, MindOK, LockedKnows

\* A save, ...
LEMMA SaveTypes == ASSUME TypeInv, NEW p \in Procs, Save(p) PROVE TypeInv'
<1>1. phase[p] = "locked" /\ phase' = phase /\ UNCHANGED <<disk, lock, bad, lapses, projected, saved>>
  BY DEF Save, Begins, Ready
<1>2. \E m \in SUBSET Edits : memory' = [memory EXCEPT ![p] = m]
  BY <1>1, LockedMemory DEF Save
<1>3. todo' = [todo EXCEPT ![p] = Persist(projected[p])] /\ Persist(projected[p]) \in Seq(WorkCalls)
  BY Saving DEF Save
<1> QED
  BY <1>1, <1>2, <1>3, LockedMemory, BeginTypes DEF TypeInv, MindOK

\* ... a change of the projection, ...
LEMMA ProjectTypes == ASSUME TypeInv, NEW p \in Procs, Project(p) PROVE TypeInv'
<1>1. phase[p] = "locked" /\ phase' = phase /\ UNCHANGED <<disk, lock, bad, lapses, memory, saved>>
  BY DEF Project, Begins, Ready
<1>2. todo' = [todo EXCEPT ![p] = Persist(~projected[p])] /\ Persist(~projected[p]) \in Seq(WorkCalls)
  BY Saving DEF Project
<1>3. projected' \in [Procs -> BOOLEAN]
  BY DEF Project, TypeInv, MindOK
<1> QED
  BY <1>1, <1>2, <1>3, LockedMemory, BeginTypes DEF TypeInv, MindOK

\* ... an archiving, ...
LEMMA ArchiveTypes == ASSUME TypeInv, NEW p \in Procs, Archive(p) PROVE TypeInv'
<1>1. /\ phase[p] = "locked" /\ phase' = [phase EXCEPT ![p] = "leaving"]
      /\ UNCHANGED <<disk, lock, bad, lapses, projected, memory, saved>>
  BY DEF Archive, Begins, Ready
<1>2. /\ todo' = [todo EXCEPT ![p] = Persist(projected[p]) \o Moves]
      /\ Persist(projected[p]) \o Moves \in Seq(WorkCalls)
  BY Saving DEF Archive
<1> QED
  BY <1>1, <1>2, LockedMemory, BeginTypes DEF TypeInv, MindOK

\* ... a removal ...
LEMMA RemoveTypes == ASSUME TypeInv, NEW p \in Procs, Remove(p) PROVE TypeInv'
<1> DEFINE s == <<In("drop", "workspace"), In("drop", "user")>>
<1>1. /\ phase[p] = "locked" /\ phase' = [phase EXCEPT ![p] = "leaving"] /\ saved' = {}
      /\ UNCHANGED <<disk, lock, bad, lapses, projected, memory>>
  BY DEF Remove, Begins, Ready
<1>2. todo' = [todo EXCEPT ![p] = s]
  BY DEF Remove
<1>3. s \in Seq(WorkCalls)
  BY DEF In, Call, WorkCalls, Restful, Roots
<1> HIDE DEF s
<1> QED
  BY <1>1, <1>2, <1>3, LockedMemory, BeginTypes DEF TypeInv, MindOK

\* ... and an unarchiving set up their calls.
LEMMA UnarchiveTypes == ASSUME TypeInv, NEW p \in Procs, Unarchive(p) PROVE TypeInv'
<1> DEFINE s == <<In("unarchive", "workspace"), In("unarchive", "user")>>
<1>1. /\ phase' = [phase EXCEPT ![p] = "restoring"] /\ todo' = [todo EXCEPT ![p] = s]
      /\ UNCHANGED <<disk, lock, bad, memory, saved>>
  BY DEF Unarchive, Begins
<1>2. projected' \in [Procs -> BOOLEAN]
  BY DEF Unarchive, Projects, TypeInv, MindOK
<1>3. s \in Seq(TypedCalls) /\ Len(s) = 2
  BY DEF In, Call, TypedCalls, Roots
<1>4. s[1].do = "unarchive" /\ s[2].do = "unarchive"
  BY DEF In, Call
<1> HIDE DEF s
<1>5. \A i \in 1 .. Len(s) : i = 1 \/ i = 2
  BY <1>3
<1>6. ~Writes(s)
  BY <1>4, <1>5 DEF Writes
<1>7. \A i \in 1 .. Len(s) : s[i].do = "restore" => i = Len(s)
  BY <1>3, <1>4, <1>5
<1>8. memory' = [memory EXCEPT ![p] = memory[p]] /\ memory[p] \in {NothingKnown} \cup SUBSET Edits
  BY <1>1 DEF TypeInv, MindOK
<1>9. TodosOK'
  BY <1>1, <1>3, <1>6, <1>7, <1>8, TodoStep
<1>10. \A q \in Procs \ {p} : todo'[q] = todo[q]
  BY <1>1 DEF TypeInv, TodosOK
<1>11. "restoring" \in PhaseNames /\ "restoring" # "locked"
  BY DEF PhaseNames
<1>12. /\ phase' \in [Procs -> PhaseNames]
       /\ memory' \in [Procs -> {NothingKnown} \cup SUBSET Edits] /\ LockedKnows'
  BY <1>1, <1>8, <1>10, <1>11, PhaseStep
<1>13. DiskOK'
  BY <1>1, SameDisk DEF TypeInv
<1>14. lapses' \subseteq LapseNames
  BY DEF Unarchive, Lapse, Noted, LapseNames, TypeInv, MindOK
<1> QED
  BY <1>1, <1>2, <1>9, <1>12, <1>13, <1>14 DEF TypeInv, MindOK

\* The calls: the import of the projection ...
LEMMA ImportTypes == ASSUME TypeInv, NEW p \in Procs, Import(p) PROVE TypeInv'
<1>1. todo[p] # <<>> /\ todo[p][1].do = "import"
  BY NextCall DEF Import
<1>2. "user" \in Roots /\ memory' = memory /\ KeepsMind(p) /\ saved' = saved
  BY DEF Import, KeepsMind, Roots
<1>3. CASE ~Exists(live["user"]) /\ Exists(live["workspace"])
  <2> DEFINE c == Copy(Written(live["workspace"]))
  <2>1. Set("user", EmptyDir) /\ Instead(p, <<c>>) /\ archive' = archive /\ trash' = trash
    BY <1>3 DEF Import
  <2>2. c \in WorkCalls /\ c.do = "copy"
    BY DEF Copy, Call, Written, WorkCalls, Roots
  <2> HIDE DEF c
  <2>3. TodosOK' /\ TodoKept(p)
    BY <1>1, <1>2, <2>1, <2>2, InsteadTodos
  <2>4. DiskOK'
    BY <1>2, <2>1, EmptyDirs, LiveStep DEF Dated, TypeInv
  <2> QED
    BY <1>2, <2>3, <2>4, CallStep DEF TypeInv, MindOK
<1>4. CASE ~(~Exists(live["user"]) /\ Exists(live["workspace"]))
  <2>1. Proceed(p) /\ UNCHANGED disk
    BY <1>4 DEF Import, disk
  <2>2. TodosOK' /\ TodoKept(p)
    BY <1>1, <1>2, <2>1, ProceedTodos
  <2> QED
    BY <1>2, <2>1, <2>2, SameDisk, CallStep DEF TypeInv, MindOK
<1> QED
  BY <1>3, <1>4

\* A file of a copy that is there is replaced.
LEMMA PutDisk ==
  ASSUME DiskOK, NEW r \in Roots, Exists(live[r]), NEW f \in Files, NEW c \in Content,
         Set(r, Put(live[r], f, c)), archive' = archive, trash' = trash
  PROVE  DiskOK'
<1> DEFINE d == Put(live[r], f, c)
<1>1. live[r] \in Dir /\ Dated(live[r]) /\ Now \in Nat
  BY KeptDates, DiskNow DEF DiskOK
<1>2. /\ d \in Dir /\ d.there = live[r].there
      /\ \A g \in Files : d.at[g] = IF g = f THEN Now ELSE live[r].at[g]
  BY <1>1, PutShape
<1>3. Set(r, d)
  OBVIOUS
<1> HIDE DEF d
<1>4. Dated(d)
  BY <1>1, <1>2 DEF Dated
<1> QED
  BY <1>2, <1>3, <1>4, LiveStep DEF Exists

\* ... copies a file, with a time of now ...
LEMMA CopyFileTypes == ASSUME TypeInv, NEW p \in Procs, CopyFile(p) PROVE TypeInv'
<1> DEFINE F == Current(p).file
<1>1. todo[p] # <<>> /\ F \in SUBSET Files /\ todo[p][1].do = "copy"
  BY NextCall DEF CopyFile
<1>2. /\ "user" \in Roots /\ memory' = memory /\ KeepsMind(p) /\ saved' = saved
      /\ archive' = archive /\ trash' = trash
  BY DEF CopyFile, KeepsMind, Roots
<1>3. PICK f \in F :
        LET rest == F \ {f} IN
        IF Exists(live["user"]) /\ live["workspace"].has[f] # Absent
          THEN \/ /\ Set("user", Put(live["user"], f, Torn))
                  /\ UNCHANGED todo
               \/ /\ Set("user", Put(live["user"], f, live["workspace"].has[f]))
                  /\ Instead(p, IF rest = {} THEN <<>> ELSE <<Copy(rest)>>)
          ELSE GiveUp(p) /\ UNCHANGED live
  BY DEF CopyFile
<1>4. f \in Files /\ Torn \in Content /\ live["workspace"].has[f] \in Content
  <2>1. live["workspace"] \in Dir
    BY DEF TypeInv, DiskOK, Roots
  <2> QED
    BY <1>1, <2>1, DirShape DEF Content
<1> DEFINE rest == F \ {f}
<1>5. CASE /\ Exists(live["user"]) /\ Set("user", Put(live["user"], f, Torn)) /\ UNCHANGED todo
  <2>1. DiskOK'
    BY <1>2, <1>4, <1>5, PutDisk DEF TypeInv
  <2> QED
    BY <1>2, <1>5, <2>1, SameTodos, CallStep DEF TypeInv, MindOK
<1>6. CASE /\ Exists(live["user"])
           /\ Set("user", Put(live["user"], f, live["workspace"].has[f]))
           /\ Instead(p, IF rest = {} THEN <<>> ELSE <<Copy(rest)>>)
  <2>1. DiskOK'
    BY <1>2, <1>4, <1>6, PutDisk DEF TypeInv
  <2>2. CASE rest # {}
    <3> DEFINE c == Copy(rest)
    <3>1. Instead(p, <<c>>) /\ c \in WorkCalls /\ c.do = "copy"
      BY <1>1, <1>6, <2>2 DEF Copy, Call, WorkCalls, Roots
    <3> HIDE DEF c
    <3>2. TodosOK' /\ TodoKept(p)
      BY <1>1, <1>2, <3>1, InsteadTodos
    <3> QED
      BY <1>2, <2>1, <3>2, CallStep DEF TypeInv, MindOK
  <2>3. CASE rest = {}
    <3> DEFINE t == Tail(todo[p])
    <3>1. todo[p] \in Seq(TypedCalls)
      BY DEF TypeInv, TodosOK
    <3>2. t \in Seq(TypedCalls)
      BY <1>1, <3>1, TailItems
    <3>3. todo' = [todo EXCEPT ![p] = <<>> \o t]
      BY <1>6, <2>3 DEF Instead
    <3> HIDE DEF t
    <3>4. <<>> \o t = t
      BY <3>2
    <3>5. Proceed(p)
      BY <3>3, <3>4 DEF Proceed, t
    <3>6. TodosOK' /\ TodoKept(p)
      BY <1>1, <1>2, <3>5, ProceedTodos
    <3> QED
      BY <1>2, <2>1, <3>6, CallStep DEF TypeInv, MindOK
  <2> QED
    BY <2>2, <2>3
<1>7. CASE GiveUp(p) /\ UNCHANGED live
  <2>1. DiskOK'
    BY <1>2, <1>7, SameDisk DEF TypeInv, disk
  <2> QED
    BY <1>2, <1>7, <2>1, GiveUpTodos, CallStep DEF TypeInv, MindOK
<1> QED
  BY <1>3, <1>5, <1>6, <1>7

\* ... a directory is made ...
LEMMA MkdirTypes == ASSUME TypeInv, NEW p \in Procs, Mkdir(p) PROVE TypeInv'
<1> DEFINE r == Root(p)
<1>1. todo[p] # <<>> /\ r \in Roots
  BY NextCall DEF Mkdir, Root
<1>2. /\ memory' = memory /\ KeepsMind(p) /\ saved' = saved /\ archive' = archive /\ trash' = trash
      /\ Proceed(p) /\ (live' = live \/ Set(r, EmptyDir))
  BY DEF Mkdir, KeepsMind
<1> HIDE DEF r
<1>3. DiskOK'
  <2>1. CASE live' = live
    BY <1>2, <2>1, SameDisk DEF TypeInv, disk
  <2>2. CASE Set(r, EmptyDir)
    BY <1>1, <1>2, <2>2, EmptyDirs, LiveStep DEF Dated, TypeInv
  <2> QED
    BY <1>2, <2>1, <2>2
<1>4. TodosOK' /\ TodoKept(p)
  BY <1>1, <1>2, ProceedTodos
<1> QED
  BY <1>2, <1>3, <1>4, CallStep DEF TypeInv, MindOK

\* ... a temporary file is written ...
LEMMA WriteTmpTypes == ASSUME TypeInv, NEW p \in Procs, WriteTmp(p) PROVE TypeInv'
<1> DEFINE r == Root(p)
           f == Current(p).file
<1>1. todo[p] # <<>> /\ r \in Roots /\ f \in Files /\ todo[p][1].do = "write"
  BY NextCall DEF WriteTmp, Root
<1>2. /\ memory' = memory /\ KeepsMind(p) /\ saved' = saved /\ archive' = archive /\ trash' = trash
  BY DEF WriteTmp, KeepsMind
<1>3. CASE live[r].has[f] = Wanted(p)
  <2>1. Proceed(p) /\ UNCHANGED disk
    BY <1>2, <1>3 DEF WriteTmp, disk
  <2>2. TodosOK' /\ TodoKept(p)
    BY <1>1, <1>2, <2>1, ProceedTodos
  <2> QED
    BY <1>2, <2>1, <2>2, SameDisk, CallStep DEF TypeInv, MindOK
<1>4. CASE live[r].has[f] # Wanted(p)
  <2> DEFINE tmp == live[r].tmp \cup {f}
             d == [live[r] EXCEPT !.there = TRUE, !.tmp = tmp]
             c == Call("rename", r, f)
  <2>1. Set(r, d) /\ Instead(p, <<c>>)
    BY <1>4 DEF WriteTmp
  <2>2. live[r] \in Dir /\ Dated(live[r]) /\ TRUE \in BOOLEAN
    BY <1>1, KeptDates DEF TypeInv, DiskOK
  <2>3. tmp \in SUBSET Files
    BY <1>1, <2>2, DirShape
  <2>4. c \in WorkCalls
    BY <1>1 DEF Call, WorkCalls
  <2> HIDE DEF tmp, c
  <2>5. d \in Dir /\ d.there = TRUE /\ d.at = live[r].at
    BY <2>2, <2>3, TmpShape
  <2> HIDE DEF d, r, f
  <2>6. DiskOK'
    BY <1>1, <1>2, <2>1, <2>2, <2>5, LiveStep DEF TypeInv, Dated, Exists
  <2>7. TodosOK' /\ TodoKept(p)
    BY <1>1, <1>2, <2>1, <2>4, InsteadTodos
  <2> QED
    BY <1>2, <2>6, <2>7, CallStep DEF TypeInv, MindOK
<1> QED
  BY <1>3, <1>4

\* What is written is a set of edits.
LEMMA WantedTyped ==
  ASSUME TypeInv, NEW p \in Procs, At(p, {"write", "rename"})
  PROVE  Wanted(p) \in Content
BY NextCall DEF Wanted, Content

\* ... and takes the place of the file ...
LEMMA RenameTypes == ASSUME TypeInv, NEW p \in Procs, Rename(p) PROVE TypeInv'
<1> DEFINE r == Root(p)
           f == Current(p).file
           w == Wanted(p)
<1>1. todo[p] # <<>> /\ r \in Roots /\ f \in Files
  BY NextCall DEF Rename, Root
<1>2. w \in Content
  BY WantedTyped DEF Rename, At
<1>3. /\ memory' = memory /\ KeepsMind(p) /\ saved' = saved /\ archive' = archive /\ trash' = trash
  BY DEF Rename, KeepsMind
<1>4. CASE f \in live[r].tmp
  <2>1. Set(r, Put(live[r], f, w)) /\ Proceed(p)
    BY <1>4 DEF Rename
  <2> HIDE DEF r, f, w
  <2>2. Exists(live[r])
    <3>1. ~Exists(live[r]) => live[r] = NoDir
      BY <1>1 DEF TypeInv, DiskOK, NothingHidden
    <3>2. NoDir.tmp = {}
      BY NewDirs, EmptyDirs DEF IsDir, Exists
    <3> QED
      BY <1>4, <3>1, <3>2
  <2>3. DiskOK'
    BY <1>1, <1>2, <1>3, <2>1, <2>2, PutDisk DEF TypeInv
  <2>4. TodosOK' /\ TodoKept(p)
    BY <1>1, <1>3, <2>1, ProceedTodos
  <2> QED
    BY <1>3, <2>3, <2>4, CallStep DEF TypeInv, MindOK
<1>5. CASE f \notin live[r].tmp
  <2>1. GiveUp(p) /\ UNCHANGED disk
    BY <1>3, <1>5 DEF Rename, disk
  <2>2. DiskOK'
    BY <2>1, SameDisk DEF TypeInv
  <2> QED
    BY <1>3, <2>1, <2>2, GiveUpTodos, CallStep DEF TypeInv, MindOK
<1> QED
  BY <1>4, <1>5

\* A removed file has no time any more.
LEMMA RemovedDated ==
  ASSUME NEW d \in Dir, NEW f \in Files, Dated(d)
  PROVE  Without(d, f) \in Dir /\ Dated(Without(d, f)) /\ Without(d, f).there = d.there
<1>1. /\ Without(d, f) \in Dir /\ Without(d, f).there = d.there
      /\ \A g \in Files : Without(d, f).at[g] = 0 \/ Without(d, f).at[g] = d.at[g]
  BY RemovedShape
<1> QED
  BY <1>1 DEF Dated

\* What has files is there.
LEMMA WrittenExists ==
  ASSUME DiskOK, NEW r \in Roots
  PROVE  /\ Written(live[r]) # {} => Exists(live[r])
         /\ Written(archive[r]) # {} => Exists(archive[r])
BY EmptyDirs DEF DiskOK, NothingHidden, Written

\* ... files are removed ...
LEMMA DropTypes == ASSUME TypeInv, NEW p \in Procs, Drop(p) PROVE TypeInv'
<1> DEFINE r == Root(p)
<1>1. todo[p] # <<>> /\ r \in Roots
  BY NextCall DEF Drop, Root
<1>2. /\ memory' = memory /\ KeepsMind(p) /\ saved' = saved /\ archive' = archive /\ trash' = trash
  BY DEF Drop, KeepsMind
<1>3. CASE Written(live[r]) = {}
  <2>1. Set(r, NoDir) /\ Proceed(p)
    BY <1>3 DEF Drop
  <2> HIDE DEF r
  <2>2. DiskOK'
    BY <1>1, <1>2, <2>1, EmptyDirs, LiveStep DEF Dated, TypeInv
  <2>3. TodosOK' /\ TodoKept(p)
    BY <1>1, <1>2, <2>1, ProceedTodos
  <2> QED
    BY <1>2, <2>2, <2>3, CallStep DEF TypeInv, MindOK
<1>4. CASE Written(live[r]) # {}
  <2>1. PICK f \in Written(live[r]) : Set(r, [live[r] EXCEPT !.has[f] = Absent, !.at[f] = 0])
    BY <1>4 DEF Drop
  <2>2. todo' = todo
    BY <1>4 DEF Drop
  <2>3. f \in Files /\ live[r] \in Dir /\ Dated(live[r]) /\ Exists(live[r])
    BY <1>1, <1>4, KeptDates, WrittenExists DEF Written, TypeInv, DiskOK
  <2> DEFINE e == Without(live[r], f)
  <2>4. e \in Dir /\ Dated(e) /\ e.there = live[r].there
    BY <2>3, RemovedDated
  <2>5. Set(r, e)
    BY <2>1 DEF Without
  <2> HIDE DEF e, r
  <2>6. DiskOK'
    BY <1>1, <1>2, <2>3, <2>4, <2>5, LiveStep DEF Exists, TypeInv
  <2> QED
    BY <1>2, <2>2, <2>6, SameTodos, CallStep DEF TypeInv, MindOK
<1> QED
  BY <1>3, <1>4

\* ... the durable copy is complete ...
LEMMA SavedTypes == ASSUME TypeInv, NEW p \in Procs, Saved(p) PROVE TypeInv'
<1>1. todo[p] # <<>> /\ memory[p] \in SUBSET Edits
  BY NextCall DEF Saved, At
<1>2. memory' = memory /\ KeepsMind(p) /\ saved' = saved \cup memory[p] /\ UNCHANGED disk /\ Proceed(p)
  BY DEF Saved, KeepsMind
<1>3. TodosOK' /\ TodoKept(p)
  BY <1>1, <1>2, ProceedTodos
<1>4. saved' \in SUBSET Edits /\ DiskOK'
  BY <1>1, <1>2, SameDisk DEF TypeInv, MindOK
<1> QED
  BY <1>2, <1>3, <1>4, CallStep

\* A directory moves, or a file that is in its way goes.
SomeMove(r, from, into, from2, into2) ==
  \/ from2 = from /\ into2 = into
  \/ from2 = from /\ Exists(into[r]) /\ \E f \in Files : into2 = [into EXCEPT ![r] = Without(into[r], f)]
  \/ from2 = [from EXCEPT ![r] = NoDir] /\ into2 = [into EXCEPT ![r] = from[r]]
Orderly(dirs) ==
  dirs \in [Roots -> Dir] /\ \A q \in Roots : Dated(dirs[q]) /\ (~Exists(dirs[q]) => dirs[q] = NoDir)

\* Both roots keep directories.
LEMMA MovedDirs ==
  ASSUME NEW from, NEW into, NEW r \in Roots, NEW from2, NEW into2, Orderly(from), Orderly(into),
         SomeMove(r, from, into, from2, into2)
  PROVE  Orderly(from2) /\ Orderly(into2)
<1>1. CASE from2 = from /\ into2 = into
  BY <1>1
<1>2. ASSUME from2 = from, Exists(into[r]), NEW f \in Files,
             into2 = [into EXCEPT ![r] = Without(into[r], f)]
      PROVE  Orderly(into2)
  <2> DEFINE e == Without(into[r], f)
  <2>1. e \in Dir /\ Dated(e) /\ e.there = into[r].there
    BY RemovedDated DEF Orderly
  <2>2. into2 = [into EXCEPT ![r] = e]
    BY <1>2
  <2> HIDE DEF e
  <2>3. into2 \in [Roots -> Dir] /\ \A q \in Roots : into2[q] = IF q = r THEN e ELSE into[q]
    BY <2>1, <2>2 DEF Orderly
  <2> QED
    BY <1>2, <2>1, <2>3 DEF Exists, Orderly
<1>3. CASE from2 = [from EXCEPT ![r] = NoDir] /\ into2 = [into EXCEPT ![r] = from[r]]
  <2>1. /\ from2 \in [Roots -> Dir] /\ into2 \in [Roots -> Dir]
        /\ \A q \in Roots : /\ from2[q] = IF q = r THEN NoDir ELSE from[q]
                            /\ into2[q] = IF q = r THEN from[r] ELSE into[q]
    BY <1>3, EmptyDirs DEF Orderly
  <2>2. Dated(NoDir)
    BY EmptyDirs DEF Dated
  <2> QED
    BY <2>1, <2>2 DEF Orderly
<1> QED
  BY <1>1, <1>2, <1>3 DEF SomeMove

\* The three ways a move goes on.
LEMMA MoveWays ==
  ASSUME TypeInv, NEW p \in Procs, todo[p] # <<>>, Root(p) \in Roots, memory' = memory,
         Proceed(p) \/ todo' = todo
  PROVE  TodosOK' /\ TodoKept(p)
BY ProceedTodos, SameTodos

\* ... a copy moves to the archive ...
LEMMA ToArchiveTypes == ASSUME TypeInv, NEW p \in Procs, ToArchive(p) PROVE TypeInv'
<1> DEFINE r == Root(p)
<1>1. todo[p] # <<>> /\ r \in Roots
  BY NextCall DEF ToArchive, Root
<1>2. /\ memory' = memory /\ KeepsMind(p) /\ saved' = saved /\ trash' = trash
  BY DEF ToArchive, KeepsMind
<1>3. /\ Proceed(p) \/ todo' = todo
      /\ \/ live' = live /\ archive' = archive
         \/ /\ live' = live /\ Written(archive[r]) # {}
            /\ \E f \in Written(archive[r]) : archive' = [archive EXCEPT ![r].has[f] = Absent, ![r].at[f] = 0]
         \/ live' = [live EXCEPT ![r] = NoDir] /\ archive' = [archive EXCEPT ![r] = live[r]]
  BY DEF ToArchive, MoveOver, Proceed
<1>4. TodosOK' /\ TodoKept(p)
  BY <1>1, <1>2, <1>3, MoveWays
<1>5. DiskOK
  BY DEF TypeInv
<1> HIDE DEF r
<1>6. Orderly(live) /\ Orderly(archive)
  BY <1>5, KeptDates DEF DiskOK, NothingHidden, Orderly
<1>7. SomeMove(r, live, archive, live', archive')
  <2>1. ASSUME NEW f \in Written(archive[r]), live' = live,
               archive' = [archive EXCEPT ![r].has[f] = Absent, ![r].at[f] = 0]
        PROVE  SomeMove(r, live, archive, live', archive')
    <3>1. f \in Files /\ Exists(archive[r])
      BY <1>1, <1>5, WrittenExists DEF Written
    <3>2. archive' = [archive EXCEPT ![r] = Without(archive[r], f)]
      BY <1>1, <1>6, <2>1, <3>1 DEF Orderly, Without
    <3> QED
      BY <2>1, <3>1, <3>2 DEF SomeMove
  <2> QED
    BY <1>3, <2>1 DEF SomeMove
<1>8. Orderly(live') /\ Orderly(archive')
  BY <1>1, <1>6, <1>7, MovedDirs
<1>9. DiskOK'
  BY <1>2, <1>5, <1>8, KeptDates, DiskStep DEF DiskOK, NothingHidden, Orderly
<1> QED
  BY <1>2, <1>4, <1>9, CallStep DEF TypeInv, MindOK

\* What is left to do once a directory was moved from the archive.
RestOfMove(p) ==
  (IF Root(p) = "workspace" THEN <<In("unarchive", "user")>> ELSE <<>>) \o <<In("restore", "user")>>

\* Either list.
LEMMA RestLists ==
  ASSUME NEW p
  PROVE  RestOfMove(p) = IF Root(p) = "workspace" THEN <<In("unarchive", "user"), In("restore", "user")>>
                         ELSE <<In("restore", "user")>>
<1> DEFINE u == In("unarchive", "user")
           c == In("restore", "user")
<1> HIDE DEF u, c
<1>1. <<u>> \o <<c>> = <<u, c>>
  <2> DEFINE s == <<u>> \o <<c>>
             t == <<u, c>>
  <2>1. /\ s \in Seq({u, c}) /\ Len(s) = 2 /\ s[1] = u /\ s[2] = c
        /\ t \in Seq({u, c}) /\ Len(t) = 2 /\ t[1] = u /\ t[2] = c
    OBVIOUS
  <2> HIDE DEF s, t
  <2>2. \A i \in 1 .. Len(s) : s[i] = t[i]
    BY <2>1
  <2>3. s = t
    BY <2>1, <2>2, SeqEqual
  <2> QED
    BY <2>3 DEF s, t
<1>2. <<>> \o <<c>> = <<c>>
  <2>1. <<c>> \in Seq({c})
    OBVIOUS
  <2> QED
    BY <2>1
<1> USE DEF u, c
<1> QED
  BY <1>1, <1>2 DEF RestOfMove

\* It writes nothing yet, and restoring is the last of it.
LEMMA RestTyped ==
  ASSUME NEW p
  PROVE  /\ RestOfMove(p) \in Seq(TypedCalls) /\ ~Writes(RestOfMove(p))
         /\ \A i \in 1 .. Len(RestOfMove(p)) :
              RestOfMove(p)[i].do = "restore" => i = Len(RestOfMove(p))
<1> DEFINE u == In("unarchive", "user")
           c == In("restore", "user")
           s == RestOfMove(p)
<1>1. u \in TypedCalls /\ c \in TypedCalls /\ u.do = "unarchive" /\ c.do = "restore"
  BY DEF In, Call, TypedCalls, Roots
<1>2. s = <<u, c>> \/ s = <<c>>
  BY RestLists
<1> HIDE DEF u, c, s
<1>3. /\ s \in Seq(TypedCalls)
      /\ \A i \in 1 .. Len(s) : s[i].do \in {"unarchive", "restore"} /\ (s[i].do = "restore" => i = Len(s))
  <2>1. CASE s = <<u, c>>
    BY <1>1, <2>1
  <2>2. CASE s = <<c>>
    BY <1>1, <2>2
  <2> QED
    BY <1>2, <2>1, <2>2
<1>4. ~Writes(s)
  BY <1>3 DEF Writes
<1> QED
  BY <1>3, <1>4 DEF s

\* ... and from it ...
LEMMA FromArchiveTypes == ASSUME TypeInv, NEW p \in Procs, FromArchive(p) PROVE TypeInv'
<1> DEFINE r == Root(p)
           rest == RestOfMove(p)
<1>1. todo[p] # <<>> /\ r \in Roots /\ 1 \in 1 .. Len(todo[p]) /\ todo[p][1].do = "unarchive"
      /\ TodoOK(p)
  <2>1. At(p, {"unarchive"})
    BY DEF FromArchive
  <2>2. TodoOK(p)
    BY DEF TypeInv, TodosOK
  <2> QED
    BY <2>1, <2>2, NextCall DEF Root
<1>2. /\ memory' = memory /\ KeepsMind(p) /\ saved' = saved /\ trash' = trash
  BY DEF FromArchive, KeepsMind
<1>3. /\ Proceed(p) \/ todo' = todo \/ todo' = [todo EXCEPT ![p] = rest]
      /\ \/ archive' = archive /\ live' = live
         \/ /\ archive' = archive /\ Written(live[r]) # {}
            /\ \E f \in Written(live[r]) : live' = [live EXCEPT ![r].has[f] = Absent, ![r].at[f] = 0]
         \/ archive' = [archive EXCEPT ![r] = NoDir] /\ live' = [live EXCEPT ![r] = archive[r]]
  BY DEF FromArchive, MoveOver, RestOfMove
<1>4. TodosOK' /\ TodoKept(p)
  <2>1. CASE Proceed(p) \/ todo' = todo
    BY <1>1, <1>2, <2>1, MoveWays
  <2>2. CASE todo' = [todo EXCEPT ![p] = rest]
    <3>1. todo[p] \notin Seq(WorkCalls)
      <4>1. SUFFICES ASSUME todo[p] \in Seq(WorkCalls) PROVE FALSE
        OBVIOUS
      <4>2. todo[p][1] \in WorkCalls
        BY <1>1, <4>1
      <4> QED
        BY <1>1, <4>2 DEF WorkCalls, Restful
    <3>2. rest \in Seq(TypedCalls) /\ ~Writes(rest)
          /\ \A i \in 1 .. Len(rest) : rest[i].do = "restore" => i = Len(rest)
      BY RestTyped
    <3> HIDE DEF rest
    <3> QED
      BY <1>2, <2>2, <3>1, <3>2, KeptTodos
  <2> QED
    BY <1>3, <2>1, <2>2
<1>5. DiskOK
  BY DEF TypeInv
<1> HIDE DEF r
<1>6. Orderly(archive) /\ Orderly(live)
  BY <1>5, KeptDates DEF DiskOK, NothingHidden, Orderly
<1>7. SomeMove(r, archive, live, archive', live')
  <2>1. ASSUME NEW f \in Written(live[r]), archive' = archive,
               live' = [live EXCEPT ![r].has[f] = Absent, ![r].at[f] = 0]
        PROVE  SomeMove(r, archive, live, archive', live')
    <3>1. f \in Files /\ Exists(live[r])
      BY <1>1, <1>5, WrittenExists DEF Written
    <3>2. live' = [live EXCEPT ![r] = Without(live[r], f)]
      BY <1>1, <1>6, <2>1, <3>1 DEF Orderly, Without
    <3> QED
      BY <2>1, <3>1, <3>2 DEF SomeMove
  <2> QED
    BY <1>3, <2>1 DEF SomeMove
<1>8. Orderly(archive') /\ Orderly(live')
  BY <1>1, <1>6, <1>7, MovedDirs
<1>9. DiskOK'
  BY <1>2, <1>5, <1>8, KeptDates, DiskStep DEF DiskOK, NothingHidden, Orderly
<1> QED
  BY <1>2, <1>4, <1>9, CallStep DEF TypeInv, MindOK

\* Restoring is the last call, so what it sets out to write is all there is.
LEMMA RestoreTodo ==
  ASSUME TypeInv, NEW p \in Procs, Restore(p)
  PROVE  todo' = [todo EXCEPT ![p] = IF Loaded = NothingKnown THEN <<>> ELSE Persist(projected[p])]
<1> DEFINE s == todo[p]
           t == Tail(s)
           w == IF Loaded = NothingKnown THEN <<>> ELSE Persist(projected[p])
<1>1. s # <<>> /\ 1 \in 1 .. Len(s) /\ s[1].do = "restore" /\ s \in Seq(TypedCalls) /\ TodoOK(p)
  <2>1. At(p, {"restore"})
    BY DEF Restore
  <2>2. TodoOK(p)
    BY DEF TypeInv, TodosOK
  <2> QED
    BY <2>1, <2>2, NextCall
<1>2. Len(s) = 1
  BY <1>1 DEF TodoOK
<1>3. t = <<>>
  <2> HIDE DEF s
  <2>1. t \in Seq(TypedCalls) /\ Len(t) = 0
    BY <1>1, <1>2, TailItems
  <2> HIDE DEF t
  <2> QED
    BY <2>1
<1>4. w \in Seq(WorkCalls)
  <2>1. <<>> \in Seq(WorkCalls)
    OBVIOUS
  <2> QED
    BY <2>1, Saving
<1>5. todo' = [todo EXCEPT ![p] = w \o t]
  BY DEF Restore, Instead
<1> HIDE DEF w, t, s
<1>6. w \o t = w
  BY <1>3, <1>4
<1>7. todo' = [todo EXCEPT ![p] = w]
  BY <1>5, <1>6
<1> QED
  BY <1>7 DEF w

\* ... and what was unarchived is written back.
LEMMA RestoreTypes == ASSUME TypeInv, NEW p \in Procs, Restore(p) PROVE TypeInv'
<1> DEFINE s == todo[p]
           w == IF Loaded = NothingKnown THEN <<>> ELSE Persist(projected[p])
<1>1. s # <<>> /\ 1 \in 1 .. Len(s) /\ s[1].do = "restore" /\ s \in Seq(TypedCalls) /\ TodoOK(p)
  <2>1. At(p, {"restore"})
    BY DEF Restore
  <2>2. TodoOK(p)
    BY DEF TypeInv, TodosOK
  <2> QED
    BY <2>1, <2>2, NextCall
<1>4. w \in Seq(WorkCalls) /\ (Loaded = NothingKnown => w = <<>>)
  <2>1. <<>> \in Seq(WorkCalls)
    OBVIOUS
  <2> QED
    BY <2>1, Saving
<1>6. s \notin Seq(WorkCalls)
  <2>1. SUFFICES ASSUME s \in Seq(WorkCalls) PROVE FALSE
    OBVIOUS
  <2> HIDE DEF s
  <2>2. s[1] \in WorkCalls
    BY <1>1, <2>1
  <2> QED
    BY <1>1, <2>2 DEF WorkCalls, Restful
<1>7. phase[p] # "locked"
  BY <1>6 DEF TypeInv, LockedKnows
<1>8. todo' = [todo EXCEPT ![p] = w]
  BY RestoreTodo
<1> HIDE DEF w, s
<1>9. memory' = [memory EXCEPT ![p] = Loaded] /\ UNCHANGED <<disk, lock, phase, bad, projected, saved>>
  BY DEF Restore
<1>10. Loaded \in {NothingKnown} \cup SUBSET Edits
  BY LoadedTyped DEF TypeInv
<1>11. /\ w \in Seq(TypedCalls)
       /\ \A i \in 1 .. Len(w) : w[i].do = "restore" => i = Len(w)
  BY <1>4, WorkIsTyped
<1>12. Writes(w) => Loaded \in SUBSET Edits /\ w \in Seq(WorkCalls)
  <2>1. CASE Loaded = NothingKnown
    <3>1. Len(w) = 0
      BY <1>4, <2>1
    <3>2. ~Writes(w)
      BY <3>1 DEF Writes
    <3> QED
      BY <3>2
  <2>2. CASE Loaded # NothingKnown
    BY <1>4, <1>10, <2>2
  <2> QED
    BY <2>1, <2>2
<1>13. TodosOK'
  BY <1>8, <1>9, <1>11, <1>12, TodoStep
<1>14. phase' = [phase EXCEPT ![p] = phase[p]] /\ \A q \in Procs \ {p} : todo'[q] = todo[q]
  BY <1>8, <1>9 DEF TypeInv, MindOK, TodosOK
<1>15. phase[p] \in PhaseNames
  BY DEF TypeInv, MindOK
<1>16. memory' \in [Procs -> {NothingKnown} \cup SUBSET Edits] /\ LockedKnows'
  BY <1>7, <1>9, <1>10, <1>14, <1>15, PhaseStep
<1>17. DiskOK'
  BY <1>9, SameDisk DEF TypeInv
<1>18. lapses' \subseteq LapseNames
  BY DEF Restore, Lapse, Noted, LapseNames, TypeInv, MindOK
<1> QED
  BY <1>9, <1>13, <1>16, <1>17, <1>18 DEF TypeInv, MindOK

\* The copies there are at the start.
LEMMA FirstShape ==
  ASSUME NEW legacy \in BOOLEAN
  PROVE  /\ FirstCopy(legacy) \in Dir /\ Exists(FirstCopy(legacy))
         /\ \A f \in Files : FirstCopy(legacy).at[f] <= 1
<1> DEFINE has == [metadata |-> {1}, base |-> IF legacy THEN Absent ELSE {},
                   events |-> IF legacy THEN {1, LegacyMark} ELSE {1}]
           at == [metadata |-> 1, base |-> IF legacy THEN 0 ELSE 1, events |-> 1]
           d == FirstCopy(legacy)
           has0 == [f \in Files |-> Absent]
           at0 == [f \in Files |-> 0]
<1>1. d = [EmptyDir EXCEPT !.has = has, !.at = at]
  BY DEF FirstCopy
<1>2. 1 \in Edits
  BY ConstantsAssumption DEF Edits
<1>3. has \in [Files -> Content]
  BY <1>2 DEF Files, Content
<1>4. at \in [Files -> Nat] /\ \A f \in Files : at[f] <= 1
  BY DEF Files
<1>5. EmptyDir = [there |-> TRUE, has |-> has0, at |-> at0, tmp |-> {}]
  BY DEF EmptyDir
<1> HIDE DEF has, at, d, has0, at0
<1>6. d = [there |-> TRUE, has |-> has, at |-> at, tmp |-> {}]
  BY <1>1, <1>5
<1>7. d \in Dir
  BY <1>3, <1>4, <1>6, ShapeDir
<1>8. d.there /\ d.at = at
  BY <1>6
<1> QED
  BY <1>4, <1>7, <1>8 DEF d, Exists

\* The types hold at the start, ...
LEMMA InitTypes == Init => TypeInv
<1> SUFFICES ASSUME Init PROVE TypeInv
  OBVIOUS
<1>1. PICK kept \in SUBSET Roots, legacy \in BOOLEAN, archived \in BOOLEAN :
        /\ live = IF archived THEN [r \in Roots |-> NoDir]
                  ELSE [r \in Roots |-> IF r \in kept THEN FirstCopy(legacy) ELSE NoDir]
        /\ archive = IF archived THEN [r \in Roots |-> IF r \in kept THEN FirstCopy(legacy) ELSE NoDir]
                     ELSE [r \in Roots |-> NoDir]
        /\ saved = IF kept = {} THEN {} ELSE {1}
  BY DEF Init
<1>2. ASSUME NEW r \in Roots, NEW d \in {live[r], archive[r]}
      PROVE  d \in {FirstCopy(legacy), NoDir}
  BY <1>1, <1>2
<1>3. \A d \in {FirstCopy(legacy), NoDir} :
        d \in Dir /\ (~Exists(d) => d = NoDir) /\ \A f \in Files : d.at[f] <= 1
  BY FirstShape, EmptyDirs
<1>4. live \in [Roots -> Dir] /\ archive \in [Roots -> Dir]
  BY <1>1, <1>3
<1>5. trash = {}
  BY DEF Init
<1>6. NothingHidden
  BY <1>2, <1>3 DEF NothingHidden
<1>7. Times
  <2>1. \A dir \in Copies : \A f \in Files : dir.at[f] <= 1
    BY <1>2, <1>3, <1>5 DEF Copies, Places
  <2> QED
    BY <2>1 DEF Times
<1>8. DiskOK
  BY <1>4, <1>5, <1>6, <1>7 DEF DiskOK
<1>9. 1 \in Edits
  BY ConstantsAssumption DEF Edits
<1>10. MindOK
  BY <1>1, <1>9 DEF Init, MindOK, PhaseNames
<1>11. LockedKnows
  BY DEF Init, LockedKnows
<1>12. TodosOK
  <2>1. <<>> \in Seq(TypedCalls) /\ Len(<<>>) = 0
    OBVIOUS
  <2>2. \A p \in Procs : todo[p] \in Seq(TypedCalls) /\ Len(todo[p]) = 0
    BY <2>1 DEF Init
  <2>3. todo \in [Procs -> Seq(TypedCalls)]
    BY <2>1 DEF Init
  <2>4. \A p \in Procs : \A i \in 1 .. Len(todo[p]) : FALSE
    BY <2>2
  <2> QED
    BY <2>2, <2>3, <2>4 DEF TodosOK, TodoOK, Writes
<1> QED
  BY <1>8, <1>10, <1>11, <1>12 DEF TypeInv

\* ... every step keeps them, ...
LEMMA NextTypes == TypeInv /\ [Next]_vars => TypeInv'
<1> SUFFICES ASSUME TypeInv, [Next]_vars PROVE TypeInv'
  OBVIOUS
<1>1. CASE UNCHANGED vars
  <2>1. UNCHANGED <<lock, phase, todo, bad, memory, projected, saved, lapses, disk>>
    BY <1>1 DEF vars
  <2> QED
    BY <2>1, SameDisk DEF TypeInv, MindOK, TodosOK, TodoOK, Writes, LockedKnows
<1>2. ASSUME NEW p \in Procs, Run(p) \/ Crash(p)
      PROVE  TypeInv'
  BY <1>2, StartTypes, CheckTypes, ProbeTypes, TrashTypes, IndexTypes, EagerLoadTypes, AcquireTypes,
     CreateTypes, SaveTypes, ProjectTypes, ArchiveTypes, UnarchiveTypes, RemoveTypes, LeaveTypes,
     ImportTypes, CopyFileTypes, MkdirTypes, WriteTmpTypes, RenameTypes, DropTypes, SavedTypes,
     ToArchiveTypes, FromArchiveTypes, RestoreTypes, CrashTypes DEF Run
<1> QED
  BY <1>1, <1>2 DEF Next

\* ... so they hold throughout.
LEMMA StoreTypes == Spec => []TypeInv
<1>1. Init => TypeInv
  BY InitTypes
<1>2. TypeInv /\ [Next]_vars => TypeInv'
  BY NextTypes
<1> QED
  BY <1>1, <1>2, PTL DEF Spec

\* In every reachable state the variables have the values the code gives them,
\* whoever locks or unarchives what: directories, their files and times, the
\* calls still to make, and what is in memory where something is written from it.
THEOREM TypeCorrect == Spec => []TypeOK
<1>1. TypeInv => TypeOK
  BY TypeInvTypes
<1> QED
  BY <1>1, StoreTypes, PTL

(* The inductive invariant.                                                *)

Memories == {NothingKnown} \cup SUBSET Edits

StateOK ==
  /\ phase \in [Procs -> PhaseNames]
  /\ todo \in [Procs -> Seq(AnyCall)]
  /\ memory \in [Procs -> Memories]
  /\ DirsOK

\* When the events are next, the base configuration is there, or the copy was
\* not readable before.
EventsNext(p) ==
  todo[p] # <<>> /\ WritesEvents(todo[p][1])
    => \/ live[todo[p][1].root].has["base"] # Absent
       \/ ~Loadable(live[todo[p][1].root])

Busy(p) == phase[p] \in {"locked", "leaving", "restoring"}

\* What a process that unarchives has to do before it writes anything.
RestorePlans ==
  {<<In("unarchive", "workspace"), In("unarchive", "user")>>, <<In("unarchive", "user")>>,
   <<In("unarchive", "user"), In("restore", "user")>>, <<In("restore", "user")>>, <<>>}

Works(p) == memory[p] \in SUBSET Edits /\ Work(todo[p]) /\ EventsNext(p)
Restores(p) == phase[p] = "restoring" /\ todo[p] \in RestorePlans
Working(p) ==
  /\ lock = IF phase[p] = "restoring" THEN NoProc ELSE p
  /\ Works(p) \/ Restores(p)
StartingUp(p) == \A i \in 1 .. Len(todo[p]) : todo[p][i].do \in StartupCalls

\* Only one process works on files; the others start up.
ProcInv(p) == IF Busy(p) THEN Working(p) ELSE StartingUp(p)
Alone ==
  /\ \A p, q \in Procs : Busy(p) /\ Busy(q) => p = q
  /\ lock # NoProc => lock \in Procs /\ Busy(lock)

Inv == StateOK /\ Alone /\ \A p \in Procs : ProcInv(p)

\* What a step of p leaves to the others.
Only(p) ==
  \A q \in Procs \ {p} : phase'[q] = phase[q] /\ todo'[q] = todo[q] /\ memory'[q] = memory[q]
LiveKept == \A r \in Roots : Loadable(live'[r]) => live'[r].has = live[r].has

\* The step of another process keeps what is q's.
LEMMA Others ==
  ASSUME Inv, NEW q \in Procs, phase'[q] = phase[q], todo'[q] = todo[q],
         memory'[q] = memory[q], Busy(q) => lock' = lock /\ LiveKept
  PROVE  ProcInv(q)'
<1>1. CASE Busy(q)
  <2>1. Working(q) /\ lock' = lock /\ LiveKept /\ Busy(q)'
    BY <1>1 DEF Inv, ProcInv, Busy
  <2>2. CASE Works(q)
    <3>1. EventsNext(q)'
      <4>1. SUFFICES ASSUME todo[q] # <<>>, WritesEvents(todo[q][1]),
                            Loadable(live'[todo[q][1].root])
                     PROVE  live'[todo[q][1].root].has["base"] # Absent
        BY DEF EventsNext, WritesEvents, Loadable
      <4>2. todo[q][1].root \in Roots
        <5>1. todo[q] \in Seq(AnyCall) /\ 1 \in 1 .. Len(todo[q])
          BY <2>2, <4>1 DEF Works, Work
        <5>2. todo[q][1] \in AnyCall
          BY <5>1
        <5> QED
          BY <5>2 DEF AnyCall
      <4>3. live'[todo[q][1].root].has = live[todo[q][1].root].has
        BY <2>1, <4>1, <4>2 DEF LiveKept
      <4>4. Loadable(live[todo[q][1].root])
        BY <4>1, <4>3 DEF Loadable
      <4> QED
        BY <2>2, <4>1, <4>3, <4>4 DEF Works, EventsNext
    <3> QED
      BY <2>1, <2>2, <3>1 DEF ProcInv, Working, Works
  <2>3. CASE Restores(q)
    BY <2>1, <2>3 DEF ProcInv, Working, Restores
  <2> QED
    BY <2>1, <2>2, <2>3 DEF Working
<1>2. CASE ~Busy(q)
  BY <1>2 DEF Inv, ProcInv, Busy, StartingUp
<1> QED
  BY <1>1, <1>2

\* The step of a process that works on no files, before and after it.
LEMMA AssembleIdle ==
  ASSUME Inv, NEW p \in Procs, ~Busy(p), ~Busy(p)', StateOK', ProcInv(p)', Only(p), LiveKept,
         lock' = lock
  PROVE  Inv'
<1>1. ASSUME NEW q \in Procs, q # p
      PROVE  ProcInv(q)' /\ Busy(q)' = Busy(q)
  BY <1>1, Others DEF Only, Busy
<1>2. \A q \in Procs : Busy(q)' => Busy(q)
  BY <1>1
<1>3. \A q \in Procs : Busy(q) => Busy(q)'
  BY <1>1
<1>4. Alone'
  BY <1>2, <1>3 DEF Inv, Alone
<1> QED
  BY <1>1, <1>4 DEF Inv

\* The step of the only process that may work on files.
LEMMA AssembleAlone ==
  ASSUME Inv, NEW p \in Procs, \A q \in Procs \ {p} : ~Busy(q), StateOK', ProcInv(p)', Only(p),
         lock' = NoProc \/ (lock' = p /\ Busy(p)')
  PROVE  Inv'
<1>1. ASSUME NEW q \in Procs, q # p
      PROVE  ProcInv(q)' /\ ~Busy(q)'
  BY <1>1, Others DEF Only, Busy
<1>2. Alone'
  BY <1>1 DEF Alone
<1> QED
  BY <1>1, <1>2 DEF Inv

\* Nobody works on files beside p.
LEMMA BusyAlone == ASSUME Inv, NEW p \in Procs, Busy(p) PROVE \A q \in Procs \ {p} : ~Busy(q)
BY DEF Inv, Alone

-----------------------------------------------------------------------------
(* Starting up, locking and leaving.                                       *)

\* The next call.
LEMMA HeadCall ==
  ASSUME Inv, NEW p \in Procs, NEW kinds, At(p, kinds)
  PROVE  /\ todo[p] # <<>> /\ todo[p] \in Seq(AnyCall) /\ 1 \in 1 .. Len(todo[p])
         /\ Current(p) = todo[p][1] /\ todo[p][1].do \in kinds
         /\ todo[p][1] \in AnyCall /\ todo[p][1].root \in Roots
<1>1. todo[p] # <<>> /\ todo[p] \in Seq(AnyCall) /\ Current(p).do \in kinds
  BY DEF Inv, StateOK, At
<1>2. 1 \in 1 .. Len(todo[p]) /\ Current(p) = todo[p][1]
  BY <1>1 DEF Current
<1>3. todo[p][1] \in AnyCall
  BY <1>1, <1>2
<1>4. todo[p][1].root \in Roots
  BY <1>3 DEF AnyCall
<1> QED
  BY <1>1, <1>2, <1>3, <1>4

\* What is unarchived is not written to yet.
LEMMA RestoreHead ==
  ASSUME NEW s \in RestorePlans, s # <<>>
  PROVE  s[1].do \in RestoreCalls
BY DEF RestorePlans, In, Call, RestoreCalls

\* A call of the startup is made by a process that works on nothing ...
LEMMA IdleAt ==
  ASSUME Inv, NEW p \in Procs, NEW kinds \in SUBSET StartupCalls, At(p, kinds)
  PROVE  ~Busy(p) /\ StartingUp(p)
<1>1. todo[p] # <<>> /\ todo[p][1].do \in StartupCalls /\ 1 \in 1 .. Len(todo[p])
  BY HeadCall
<1>2. todo[p][1].do \notin FileCalls /\ todo[p][1].do \notin RestoreCalls
  BY <1>1 DEF StartupCalls, FileCalls, RestoreCalls
<1>3. ~Works(p)
  BY <1>1, <1>2 DEF Works, Work
<1>4. ~Restores(p)
  BY <1>1, <1>2, RestoreHead DEF Restores
<1> QED
  BY <1>3, <1>4 DEF Inv, ProcInv, Working

\* ... a call on files by one that works on them, ...
LEMMA BusyAt ==
  ASSUME Inv, NEW p \in Procs, NEW kinds \in SUBSET FileCalls, At(p, kinds)
  PROVE  Busy(p) /\ Works(p)
<1>1. todo[p] # <<>> /\ todo[p][1].do \in FileCalls /\ 1 \in 1 .. Len(todo[p])
  BY HeadCall
<1>2. todo[p][1].do \notin StartupCalls /\ todo[p][1].do \notin RestoreCalls
  BY <1>1 DEF StartupCalls, FileCalls, RestoreCalls
<1>3. ~StartingUp(p)
  BY <1>1, <1>2 DEF StartingUp
<1>4. ~Restores(p)
  BY <1>1, <1>2, RestoreHead DEF Restores
<1> QED
  BY <1>3, <1>4 DEF Inv, ProcInv, Working

\* ... and a call on the archive by one that unarchives.
LEMMA RestoringAt ==
  ASSUME Inv, NEW p \in Procs, NEW kinds \in SUBSET RestoreCalls, At(p, kinds)
  PROVE  Busy(p) /\ Restores(p) /\ lock = NoProc
<1>1. todo[p] # <<>> /\ todo[p][1].do \in RestoreCalls /\ 1 \in 1 .. Len(todo[p])
  BY HeadCall
<1>2. todo[p][1].do \notin StartupCalls /\ todo[p][1].do \notin FileCalls
  BY <1>1 DEF StartupCalls, FileCalls, RestoreCalls
<1>3. ~StartingUp(p)
  BY <1>1, <1>2 DEF StartingUp
<1>4. ~Works(p)
  BY <1>1, <1>2 DEF Works, Work
<1> QED
  BY <1>3, <1>4 DEF Inv, ProcInv, Working, Restores

\* The calls of the startup.
LEMMA StartupTodo ==
  ASSUME NEW p
  PROVE  Startup(p) \in Seq(AnyCall) /\ \A i \in 1 .. Len(Startup(p)) : Startup(p)[i].do \in StartupCalls
<1> DEFINE s == <<In("check", "workspace"), In("check", "user"), In("index", "user")>>
           t == IF p \in Eager THEN <<In("load", "user")>> ELSE <<>>
<1>1. s \in Seq(AnyCall) /\ \A i \in 1 .. Len(s) : s[i].do \in StartupCalls
  BY DEF In, Call, AnyCall, Roots, Files, StartupCalls
<1>2. t \in Seq(AnyCall) /\ \A i \in 1 .. Len(t) : t[i].do \in StartupCalls
  <2>1. CASE p \in Eager
    <3>1. t = <<In("load", "user")>>
      BY <2>1
    <3> HIDE DEF t
    <3> QED
      BY <3>1 DEF In, Call, AnyCall, Roots, Files, StartupCalls
  <2>2. CASE p \notin Eager
    <3>1. t = <<>>
      BY <2>2
    <3> HIDE DEF t
    <3> QED
      BY <3>1
  <2> QED
    BY <2>1, <2>2
<1>3. Startup(p) = s \o t
  BY DEF Startup
<1> HIDE DEF s, t
<1>4. s \o t \in Seq(AnyCall) /\ Len(s \o t) = Len(s) + Len(t)
  BY <1>1, <1>2
<1>5. ASSUME NEW i \in 1 .. Len(s \o t)
      PROVE  (s \o t)[i].do \in StartupCalls
  <2>1. CASE i <= Len(s)
    BY <1>1, <1>2, <1>4, <2>1
  <2>2. CASE i > Len(s)
    <3>1. i - Len(s) \in 1 .. Len(t) /\ (s \o t)[i] = t[i - Len(s)]
      BY <1>1, <1>2, <1>4, <2>2
    <3> QED
      BY <1>2, <3>1
  <2> QED
    BY <2>1, <2>2, <1>1
<1> QED
  BY <1>3, <1>4, <1>5

\* Disk and lock untouched.
LEMMA StartStep == ASSUME Inv, NEW p \in Procs, Start(p) PROVE Inv'
<1>1. StateOK'
  BY StartupTodo DEF Inv, StateOK, PhaseNames, Start, DirsOK, disk
<1>2. ProcInv(p)'
  BY StartupTodo DEF Inv, StateOK, Start, ProcInv, Busy, StartingUp
<1>3. Only(p) /\ LiveKept /\ lock' = lock /\ ~Busy(p) /\ ~Busy(p)'
  BY DEF Start, Inv, StateOK, Only, LiveKept, Busy, disk
<1> QED
  BY <1>1, <1>2, <1>3, AssembleIdle

\* What is left of the calls of a process that starts up.
LEMMA StartupTail ==
  ASSUME Inv, NEW p \in Procs, todo[p] # <<>>, StartingUp(p)
  PROVE  /\ Tail(todo[p]) \in Seq(AnyCall)
         /\ \A i \in 1 .. Len(Tail(todo[p])) : Tail(todo[p])[i].do \in StartupCalls
<1>1. todo[p] \in Seq(AnyCall)
  BY DEF Inv, StateOK
<1>2. Tail(todo[p]) \in Seq(AnyCall) /\ Len(Tail(todo[p])) = Len(todo[p]) - 1
  BY <1>1
<1>3. \A i \in 1 .. Len(Tail(todo[p])) : i + 1 \in 1 .. Len(todo[p]) /\ Tail(todo[p])[i] = todo[p][i + 1]
  BY <1>1, <1>2
<1> QED
  BY <1>2, <1>3 DEF StartingUp

\* Leftovers of writes are removed.
LEMMA CheckStep == ASSUME Inv, NEW p \in Procs, Check(p) PROVE Inv'
<1>1. At(p, {"check"}) /\ todo[p] # <<>> /\ todo[p][1].root \in Roots /\ Current(p) = todo[p][1]
  BY HeadCall DEF Check
<1>2. ~Busy(p) /\ StartingUp(p)
  BY <1>1, IdleAt DEF StartupCalls
<1>3. phase' = phase /\ memory' = memory /\ lock' = lock /\ todo' = [todo EXCEPT ![p] = Tail(@)]
  BY DEF Check, Proceed
<1>4. DirsOK' /\ LiveKept
  <2> DEFINE r == todo[p][1].root
             d == [live[r] EXCEPT !.tmp = {}]
  <2>1. CASE live' = live
    BY <2>1 DEF Inv, StateOK, DirsOK, LiveKept
  <2>2. CASE Exists(live[r]) /\ Set(r, d)
    <3>1. IsDir(live[r]) /\ live[r].there
      BY <1>1, <2>2 DEF Inv, StateOK, DirsOK, Exists
    <3>2. IsDir(d) /\ d.has = live[r].has
      BY <3>1 DEF IsDir
    <3>3. DirsOK' /\ live'[r] = d /\ \A q \in Roots \ {r} : live'[q] = live[q]
      BY <1>1, <2>2, <3>2, SetDir DEF Inv, StateOK
    <3> QED
      BY <3>2, <3>3 DEF LiveKept
  <2> QED
    BY <1>1, <2>1, <2>2 DEF Check
<1>5. StateOK'
  BY <1>1, <1>2, <1>3, <1>4, StartupTail DEF Inv, StateOK
<1>6. ProcInv(p)' /\ Only(p) /\ ~Busy(p)'
  BY <1>1, <1>2, <1>3, StartupTail DEF Inv, StateOK, ProcInv, Busy, StartingUp, Only
<1> QED
  BY <1>2, <1>3, <1>4, <1>5, <1>6, AssembleIdle

\* A copy found invalid is trashed next.
LEMMA ProbeStep == ASSUME Inv, NEW p \in Procs, Probe(p) PROVE Inv'
<1>1. At(p, {"index"}) /\ todo[p] # <<>> /\ todo[p] \in Seq(AnyCall)
  BY HeadCall DEF Probe
<1>2. ~Busy(p) /\ StartingUp(p)
  BY <1>1, IdleAt DEF StartupCalls
<1>3. /\ phase' = phase /\ memory' = memory /\ lock' = lock /\ live' = live
      /\ todo' = todo \/ \E r : r = FirstOf(bad[p]) /\ todo' = [todo EXCEPT ![p] = <<In("trash", r)>> \o @]
  BY DEF Probe, disk
<1>4. DirsOK' /\ LiveKept
  BY <1>3 DEF Inv, StateOK, DirsOK, LiveKept
<1>5. CASE todo' = todo
  BY <1>2, <1>3, <1>4, <1>5, AssembleIdle DEF Inv, StateOK, ProcInv, Busy, StartingUp, Only
<1>6. CASE \E r : r = FirstOf(bad[p]) /\ todo' = [todo EXCEPT ![p] = <<In("trash", r)>> \o @]
  <2>1. PICK r : r = FirstOf(bad[p]) /\ todo' = [todo EXCEPT ![p] = <<In("trash", r)>> \o @]
    BY <1>6
  <2> DEFINE c == In("trash", r)
             u == <<c>> \o todo[p]
  <2>2. r \in Roots
    BY <2>1 DEF FirstOf, Roots
  <2>3. c \in AnyCall /\ c.do = "trash"
    BY <2>2 DEF In, Call, AnyCall, StartupCalls
  <2>4. \A i \in 1 .. Len(todo[p]) : todo[p][i].do \in StartupCalls
    BY <1>2 DEF StartingUp
  <2>5. todo'[p] = u /\ todo' = [todo EXCEPT ![p] = u]
    BY <2>1 DEF Inv, StateOK
  <2> HIDE DEF c
  <2>6. /\ u \in Seq(AnyCall) /\ Len(u) = Len(todo[p]) + 1 /\ u[1] = c
        /\ \A i \in 2 .. Len(todo[p]) + 1 : i - 1 \in 1 .. Len(todo[p]) /\ u[i] = todo[p][i - 1]
    BY <1>1, <2>3, Prepended
  <2> HIDE DEF u
  <2>7. ASSUME NEW i \in 1 .. Len(u)
        PROVE  u[i].do \in StartupCalls
    <3>1. CASE i = 1
      BY <2>3, <2>6, <3>1 DEF StartupCalls
    <3>2. CASE i # 1
      <4>1. Len(todo[p]) \in Nat
        BY <1>1
      <4>2. i \in 2 .. Len(todo[p]) + 1
        BY <2>6, <3>2, <4>1
      <4> QED
        BY <2>4, <2>6, <4>2
    <3> QED
      BY <3>1, <3>2
  <2>8. StateOK' /\ ProcInv(p)' /\ Only(p) /\ ~Busy(p)'
    BY <1>2, <1>3, <1>4, <2>5, <2>6, <2>7
    DEF Inv, StateOK, ProcInv, Busy, StartingUp, Only
  <2> QED
    BY <1>2, <1>3, <1>4, <2>8, AssembleIdle
<1> QED
  BY <1>3, <1>5, <1>6

\* A copy is gone, which keeps nobody from writing another.
LEMMA TrashStep == ASSUME Inv, NEW p \in Procs, Trash(p) PROVE Inv'
<1>1. At(p, {"trash"}) /\ todo[p] # <<>> /\ todo[p][1].root \in Roots /\ Current(p) = todo[p][1]
  BY HeadCall DEF Trash
<1>2. ~Busy(p) /\ StartingUp(p)
  BY <1>1, IdleAt DEF StartupCalls
<1>3. phase' = phase /\ memory' = memory /\ lock' = lock /\ todo' = [todo EXCEPT ![p] = Tail(@)]
  BY DEF Trash, Proceed
<1>4. DirsOK' /\ LiveKept
  <2> DEFINE r == todo[p][1].root
  <2>1. DirsOK' /\ live'[r] = NoDir /\ \A q \in Roots \ {r} : live'[q] = live[q]
    BY <1>1, NewDirs, SetDir DEF Inv, StateOK, Trash
  <2> QED
    BY <2>1, NewDirs DEF LiveKept
<1>5. StateOK'
  BY <1>1, <1>2, <1>3, <1>4, StartupTail DEF Inv, StateOK
<1>6. ProcInv(p)' /\ Only(p) /\ ~Busy(p)'
  BY <1>1, <1>2, <1>3, StartupTail DEF Inv, StateOK, ProcInv, Busy, StartingUp, Only
<1> QED
  BY <1>2, <1>3, <1>4, <1>5, <1>6, AssembleIdle

\* The index is read.
LEMMA IndexStep == ASSUME Inv, NEW p \in Procs, Index(p) PROVE Inv'
<1>1. At(p, {"index"}) /\ todo[p] # <<>>
  BY HeadCall DEF Index
<1>2. ~Busy(p) /\ StartingUp(p)
  BY <1>1, IdleAt DEF StartupCalls
<1>3. /\ memory' = memory /\ lock' = lock /\ live' = live
      /\ todo' = [todo EXCEPT ![p] = Tail(@)]
      /\ phase' = [phase EXCEPT ![p] = "found"] \/ phase' = [phase EXCEPT ![p] = "missing"]
  BY DEF Index, Proceed, disk
<1>4. DirsOK' /\ LiveKept
  BY <1>3 DEF Inv, StateOK, DirsOK, LiveKept
<1>5. StateOK'
  BY <1>1, <1>2, <1>3, <1>4, StartupTail DEF Inv, StateOK, PhaseNames
<1>6. phase'[p] \in {"found", "missing"} /\ todo'[p] = Tail(todo[p])
  BY <1>3 DEF Inv, StateOK
<1>7. ProcInv(p)' /\ Only(p) /\ ~Busy(p)'
  BY <1>1, <1>2, <1>3, <1>6, StartupTail DEF Inv, StateOK, ProcInv, Busy, StartingUp, Only
<1> QED
  BY <1>2, <1>3, <1>4, <1>5, <1>7, AssembleIdle

\* Whatever is read is a set of edits, or nothing.
LEMMA LoadedKnown == ASSUME DirsOK PROVE Loaded \in Memories
<1> DEFINE d == Newer({"base", "events"})
<1>1. IsDir(d)
  BY DEF Newer, DirsOK, Roots
<1>2. d.has["events"] \in Content
  BY <1>1 DEF IsDir, Files
<1> HIDE DEF d
<1>3. CASE Good(d.has["events"])
  <2>1. d.has["events"] \in SUBSET (Edits \cup {LegacyMark})
    BY <1>2, <1>3 DEF Content, Good
  <2>2. d.has["events"] \ {LegacyMark} \in SUBSET Edits
    BY <2>1
  <2> QED
    BY <2>2 DEF Loaded, Memories, d
<1>4. CASE ~Good(d.has["events"])
  BY <1>4 DEF Loaded, Loadable, Memories, d
<1> QED
  BY <1>3, <1>4

\* The conversation is read before it is locked.
LEMMA EagerLoadStep == ASSUME Inv, NEW p \in Procs, EagerLoad(p) PROVE Inv'
<1>1. At(p, {"load"}) /\ todo[p] # <<>>
  BY HeadCall DEF EagerLoad
<1>2. ~Busy(p) /\ StartingUp(p)
  BY <1>1, IdleAt DEF StartupCalls
<1>3. /\ phase' = phase /\ lock' = lock /\ live' = live /\ memory' = [memory EXCEPT ![p] = Loaded]
      /\ todo' = [todo EXCEPT ![p] = Tail(@)]
  BY DEF EagerLoad, Proceed, disk
<1>4. DirsOK' /\ LiveKept
  BY <1>3 DEF Inv, StateOK, DirsOK, LiveKept
<1>5. Loaded \in Memories
  BY LoadedKnown DEF Inv, StateOK
<1>6. StateOK'
  BY <1>1, <1>2, <1>3, <1>4, <1>5, StartupTail DEF Inv, StateOK
<1>7. ProcInv(p)' /\ Only(p) /\ ~Busy(p)'
  BY <1>1, <1>2, <1>3, StartupTail DEF Inv, StateOK, ProcInv, Busy, StartingUp, Only
<1> QED
  BY <1>2, <1>3, <1>4, <1>6, <1>7, AssembleIdle

\* A step that ends the run of p, or drops what it had to do.
LEMMA OffStep ==
  ASSUME Inv, NEW p \in Procs, Off(p), live' = live,
         todo'[p] = <<>>, todo' = [todo EXCEPT ![p] = <<>>]
  PROVE  Inv'
<1>1. /\ phase' = [phase EXCEPT ![p] = "off"] /\ memory' = [memory EXCEPT ![p] = NothingKnown]
      /\ lock' = IF lock = p THEN NoProc ELSE lock
  BY DEF Off
<1>2. DirsOK' /\ LiveKept
  BY DEF Inv, StateOK, DirsOK, LiveKept
<1>3. <<>> \in Seq(AnyCall) /\ Len(<<>>) = 0
  OBVIOUS
<1>4. StateOK'
  BY <1>1, <1>2, <1>3 DEF Inv, StateOK, PhaseNames, Memories
<1>5. phase'[p] = "off" /\ Only(p)
  BY <1>1 DEF Inv, StateOK, Only
<1>6. ProcInv(p)' /\ ~Busy(p)'
  BY <1>3, <1>5 DEF ProcInv, Busy, StartingUp
<1>7. CASE Busy(p)
  <2>1. lock' = NoProc
    BY <1>1, <1>7 DEF Inv, ProcInv, Working
  <2> QED
    BY <1>4, <1>5, <1>6, <1>7, <2>1, BusyAlone, AssembleAlone
<1>8. CASE ~Busy(p)
  <2>1. lock # p
    BY <1>8, ConstantsAssumption DEF Inv, Alone
  <2> QED
    BY <1>1, <1>2, <1>4, <1>5, <1>6, <1>8, <2>1, AssembleIdle
<1> QED
  BY <1>7, <1>8

\* Nothing changes where nothing was to do.
LEMMA SameTodo == ASSUME Inv, NEW p \in Procs, todo[p] = <<>> PROVE todo = [todo EXCEPT ![p] = <<>>]
BY DEF Inv, StateOK

\* A process ends.
LEMMA LeaveStep == ASSUME Inv, NEW p \in Procs, Leave(p) PROVE Inv'
<1>1. todo[p] = <<>> /\ Off(p) /\ todo' = todo /\ live' = live
  BY DEF Leave, disk
<1> QED
  BY <1>1, SameTodo, OffStep

\* A process is killed.
LEMMA CrashStep == ASSUME Inv, NEW p \in Procs, Crash(p) PROVE Inv'
<1>1. todo' = [todo EXCEPT ![p] = <<>>] /\ Off(p) /\ live' = live
  BY DEF Crash, disk
<1>2. todo'[p] = <<>>
  BY <1>1 DEF Inv, StateOK
<1> QED
  BY <1>1, <1>2, OffStep

\* Nobody works on files when the lock is free and nobody unarchives.
LEMMA NobodyWorks ==
  ASSUME Inv, lock = NoProc, Restoring = {}
  PROVE  \A q \in Procs : ~Busy(q)
<1>1. SUFFICES ASSUME NEW q \in Procs, Busy(q) PROVE FALSE
  OBVIOUS
<1>2. phase[q] # "restoring"
  BY <1>1 DEF Restoring
<1>3. lock = q
  BY <1>1, <1>2 DEF Inv, ProcInv, Working
<1> QED
  BY <1>1, <1>3, ConstantsAssumption

\* A step that takes the lock.
LEMMA LockStep ==
  ASSUME Inv, NEW p \in Procs, todo[p] = <<>>, lock = NoProc, Restoring = {}, lock' = p,
         NEW m \in SUBSET Edits, memory' = [memory EXCEPT ![p] = m],
         phase' = [phase EXCEPT ![p] = "locked"], live' = live, todo' = todo
  PROVE  Inv'
<1>1. DirsOK' /\ LiveKept
  BY DEF Inv, StateOK, DirsOK, LiveKept
<1>2. StateOK'
  BY <1>1 DEF Inv, StateOK, PhaseNames, Memories
<1>3. phase'[p] = "locked" /\ memory'[p] = m /\ Only(p) /\ todo'[p] = <<>>
  BY DEF Inv, StateOK, Only
<1>4. ProcInv(p)' /\ Busy(p)'
  BY <1>3, EmptyWork DEF ProcInv, Busy, Working, Works, EventsNext
<1> QED
  BY <1>1, <1>2, <1>3, <1>4, NobodyWorks, AssembleAlone

\* The lock is taken, or there is nothing to read.
LEMMA AcquireStep ==
  ASSUME Inv, NEW p \in Procs, Acquire(p), "unlocked" \notin lapses'
  PROVE  Inv'
<1> DEFINE content == IF memory[p] = NothingKnown THEN Loaded ELSE memory[p]
<1>1. todo[p] = <<>> /\ phase[p] = "found" /\ lock = NoProc /\ live' = live /\ todo' = todo
  BY DEF Acquire, Ready, disk
<1>2. content \in Memories
  BY LoadedKnown DEF Inv, StateOK
<1>3. CASE content = NothingKnown
  <2>1. Off(p)
    BY <1>3 DEF Acquire
  <2> QED
    BY <1>1, <2>1, SameTodo, OffStep
<1>4. CASE content # NothingKnown
  <2>1. /\ lock' = p /\ memory' = [memory EXCEPT ![p] = content]
        /\ phase' = [phase EXCEPT ![p] = "locked"]
    BY <1>4 DEF Acquire
  <2>2. content \in SUBSET Edits
    BY <1>2, <1>4 DEF Memories
  <2>3. Restoring = {}
    BY <1>4 DEF Acquire, Noted
  <2> QED
    BY <1>1, <2>1, <2>2, <2>3, LockStep
<1> QED
  BY <1>3, <1>4

\* A new conversation is locked at once.
LEMMA CreateStep ==
  ASSUME Inv, NEW p \in Procs, Create(p), "unlocked" \notin lapses'
  PROVE  Inv'
<1>1. /\ todo[p] = <<>> /\ phase[p] = "missing" /\ lock = NoProc /\ live' = live /\ todo' = todo
      /\ lock' = p /\ memory' = [memory EXCEPT ![p] = {}] /\ phase' = [phase EXCEPT ![p] = "locked"]
  BY DEF Create, Ready, disk
<1>2. Restoring = {}
  BY DEF Create, Lapse, Noted
<1> QED
  BY <1>1, <1>2, LockStep

-----------------------------------------------------------------------------
(* Beginning a command.                                                    *)

\* The holder of the lock begins a list of calls.
LEMMA BeginStep ==
  ASSUME Inv, NEW p \in Procs, phase[p] = "locked", NEW s, Fresh(s),
         todo' = [todo EXCEPT ![p] = s], live' = live, lock' = lock,
         NEW m \in SUBSET Edits, memory' = [memory EXCEPT ![p] = m],
         phase' = phase \/ phase' = [phase EXCEPT ![p] = "leaving"]
  PROVE  Inv'
<1>1. DirsOK' /\ LiveKept
  BY DEF Inv, StateOK, DirsOK, LiveKept
<1>2. Work(s) /\ s \in Seq(AnyCall) /\ (s # <<>> => ~WritesEvents(s[1]))
  BY FreshWork DEF Work
<1>3. StateOK'
  BY <1>1, <1>2 DEF Inv, StateOK, PhaseNames, Memories
<1>4. /\ phase'[p] \in {"locked", "leaving"} /\ Busy(p) /\ Busy(p)'
      /\ memory'[p] = m /\ Only(p) /\ todo'[p] = s
  BY DEF Inv, StateOK, Only, Busy
<1>5. lock' = p
  BY <1>4 DEF Inv, ProcInv, Working
<1>6. ProcInv(p)'
  BY <1>2, <1>4, <1>5 DEF ProcInv, Working, Works, EventsNext
<1> QED
  BY <1>3, <1>4, <1>5, <1>6, BusyAlone, AssembleAlone

\* What a command starts from.
LEMMA LockedAt ==
  ASSUME Inv, NEW p \in Procs, Begins(p, "locked")
  PROVE  /\ phase[p] = "locked" /\ Busy(p) /\ live' = live /\ lock' = lock
         /\ memory[p] \in SUBSET Edits /\ memory = [memory EXCEPT ![p] = memory[p]]
<1>1. phase[p] = "locked" /\ Busy(p) /\ live' = live /\ lock' = lock
  BY DEF Begins, Ready, Busy, disk
<1> QED
  BY <1>1 DEF Inv, StateOK, ProcInv, Working, Works, Restores

\* A save begins.
LEMMA SaveStep == ASSUME Inv, NEW p \in Procs, Save(p) PROVE Inv'
<1>1. /\ phase[p] = "locked" /\ live' = live /\ lock' = lock /\ memory[p] \in SUBSET Edits
      /\ phase' = phase /\ todo' = [todo EXCEPT ![p] = Persist(projected[p])]
  BY LockedAt DEF Save
<1>2. PICK made \in {edits} \cup ({edits + 1} \cap Edits) :
        memory' = [memory EXCEPT ![p] = IF made = edits THEN @ ELSE @ \cup {made}]
  BY DEF Save
<1> DEFINE m == IF made = edits THEN memory[p] ELSE memory[p] \cup {made}
<1>3. m \in SUBSET Edits
  BY <1>1, <1>2
<1>4. memory' = [memory EXCEPT ![p] = m]
  BY <1>2 DEF Inv, StateOK
<1> HIDE DEF m
<1> QED
  BY <1>1, <1>3, <1>4, FreshPersist, BeginStep

\* The projection is turned on or off.
LEMMA ProjectStep == ASSUME Inv, NEW p \in Procs, Project(p) PROVE Inv'
<1>1. /\ phase[p] = "locked" /\ live' = live /\ lock' = lock /\ memory[p] \in SUBSET Edits
      /\ memory = [memory EXCEPT ![p] = memory[p]]
      /\ phase' = phase /\ memory' = memory /\ todo' = [todo EXCEPT ![p] = Persist(~projected[p])]
  BY LockedAt DEF Project
<1> QED
  BY <1>1, FreshPersist, BeginStep

\* Archiving begins with a save.
LEMMA ArchiveStep == ASSUME Inv, NEW p \in Procs, Archive(p) PROVE Inv'
<1>1. /\ phase[p] = "locked" /\ live' = live /\ lock' = lock /\ memory[p] \in SUBSET Edits
      /\ memory = [memory EXCEPT ![p] = memory[p]]
      /\ phase' = [phase EXCEPT ![p] = "leaving"] /\ memory' = memory
      /\ todo' = [todo EXCEPT ![p] = Persist(projected[p]) \o Moves]
  BY LockedAt DEF Archive
<1>2. Fresh(Persist(projected[p]) \o Moves)
  BY FreshPersist, FreshMoves, FreshConcat
<1> QED
  BY <1>1, <1>2, BeginStep

\* A removal begins.
LEMMA RemoveStep == ASSUME Inv, NEW p \in Procs, Remove(p) PROVE Inv'
<1> DEFINE s == <<In("drop", "workspace"), In("drop", "user")>>
<1>1. /\ phase[p] = "locked" /\ live' = live /\ lock' = lock /\ memory[p] \in SUBSET Edits
      /\ memory = [memory EXCEPT ![p] = memory[p]]
      /\ phase' = [phase EXCEPT ![p] = "leaving"] /\ memory' = memory
      /\ todo' = [todo EXCEPT ![p] = s]
  BY LockedAt DEF Remove
<1>2. s \in Seq(AnyCall) /\ Len(s) = 2 /\ s[1].do = "drop" /\ s[2].do = "drop"
  BY DEF In, Call, AnyCall, Files, FileCalls, Roots
<1> HIDE DEF s
<1>3. Fresh(s)
  BY <1>2 DEF Fresh, FileCalls, WritesEvents
<1> QED
  BY <1>1, <1>3, BeginStep

\* The plans of unarchiving are lists of calls.
LEMMA PlansAreLists == ASSUME NEW s \in RestorePlans PROVE s \in Seq(AnyCall)
<1> DEFINE w == In("unarchive", "workspace")
           u == In("unarchive", "user")
           c == In("restore", "user")
<1>1. w \in AnyCall /\ u \in AnyCall /\ c \in AnyCall
  BY DEF In, Call, AnyCall, Roots, RestoreCalls
<1>2. s \in {<<w, u>>, <<u>>, <<u, c>>, <<c>>, <<>>}
  BY DEF RestorePlans
<1> HIDE DEF w, u, c
<1>3. <<w, u>> \in Seq(AnyCall) /\ <<u, c>> \in Seq(AnyCall)
  BY <1>1
<1>4. <<u>> \in Seq(AnyCall) /\ <<c>> \in Seq(AnyCall) /\ <<>> \in Seq(AnyCall)
  BY <1>1
<1> QED
  BY <1>2, <1>3, <1>4

\* An unarchiving begins, without the lock: nobody else works on files.
LEMMA UnarchiveStep ==
  ASSUME Inv, NEW p \in Procs, Unarchive(p), "unlocked" \notin lapses'
  PROVE  Inv'
<1> DEFINE s == <<In("unarchive", "workspace"), In("unarchive", "user")>>
<1>1. /\ live' = live /\ lock' = lock /\ memory' = memory
      /\ phase' = [phase EXCEPT ![p] = "restoring"] /\ todo' = [todo EXCEPT ![p] = s]
  BY DEF Unarchive, Begins, disk
<1>2. lock = NoProc /\ Restoring = {}
  BY DEF Unarchive, Lapse, Noted
<1>3. s \in RestorePlans
  BY DEF RestorePlans
<1> HIDE DEF s
<1>4. DirsOK'
  BY <1>1 DEF Inv, StateOK, DirsOK
<1>5. StateOK'
  BY <1>1, <1>3, <1>4, PlansAreLists DEF Inv, StateOK, PhaseNames
<1>6. phase'[p] = "restoring" /\ todo'[p] = s /\ Only(p)
  BY <1>1 DEF Inv, StateOK, Only
<1>7. ProcInv(p)'
  BY <1>1, <1>2, <1>3, <1>6 DEF ProcInv, Busy, Working, Restores
<1> QED
  BY <1>1, <1>2, <1>5, <1>6, <1>7, NobodyWorks, AssembleAlone

-----------------------------------------------------------------------------
(* Calls on files.                                                         *)

\* The calls change, and the copies with them.
LEMMA BusyStep ==
  ASSUME Inv, NEW p \in Procs, Busy(p), Works(p), KeepsMind(p), DirsOK',
         NEW s, Work(s), todo' = [todo EXCEPT ![p] = s],
         s # <<>> /\ WritesEvents(s[1])
           => live'[s[1].root].has["base"] # Absent \/ ~Loadable(live'[s[1].root])
  PROVE  Inv'
<1>1. phase' = phase /\ memory' = memory /\ lock' = lock
  BY DEF KeepsMind
<1>2. StateOK'
  BY <1>1 DEF Inv, StateOK, Work
<1>3. todo'[p] = s /\ Only(p)
  BY <1>1 DEF Inv, StateOK, Only
<1>4. EventsNext(p)'
  BY <1>3 DEF EventsNext, Loadable, WritesEvents
<1>5. ProcInv(p)' /\ Busy(p)'
  BY <1>1, <1>3, <1>4 DEF Inv, ProcInv, Working, Works, Busy
<1>6. lock' = p \/ lock' = NoProc
  BY <1>1 DEF Inv, ProcInv, Working
<1> QED
  BY <1>2, <1>3, <1>5, <1>6, BusyAlone, AssembleAlone

\* One call less: if it wrote the base configuration, that is there now.
LEMMA ProceedStep ==
  ASSUME Inv, NEW p \in Procs, Busy(p), Works(p), KeepsMind(p), DirsOK', todo[p] # <<>>, Proceed(p),
         \A r \in Roots : WritesBase(todo[p][1], r) => live'[r].has["base"] # Absent
  PROVE  Inv'
<1> DEFINE s == Tail(todo[p])
<1>1. Work(todo[p])
  BY DEF Works
<1>2. Work(s) /\ (s # <<>> /\ WritesEvents(s[1]) => WritesBase(todo[p][1], s[1].root))
  BY <1>1, TailWork
<1>3. todo' = [todo EXCEPT ![p] = s]
  BY DEF Proceed
<1> HIDE DEF s
<1>4. ASSUME s # <<>>
      PROVE  s[1].root \in Roots
  <2>1. s \in Seq(AnyCall) /\ 1 \in 1 .. Len(s)
    BY <1>2, <1>4 DEF Work
  <2>2. s[1] \in AnyCall
    BY <2>1
  <2> QED
    BY <2>2 DEF AnyCall
<1> QED
  BY <1>2, <1>3, <1>4, BusyStep

\* The call gives way to another.
LEMMA InsteadStep ==
  ASSUME Inv, NEW p \in Procs, Busy(p), Works(p), KeepsMind(p), DirsOK', todo[p] # <<>>,
         NEW c \in AnyCall, c.do \in FileCalls, Instead(p, <<c>>),
         \A r \in Roots : WritesBase(todo[p][1], r) => WritesBase(c, r),
         WritesEvents(c) => live'[c.root].has["base"] # Absent \/ ~Loadable(live'[c.root])
  PROVE  Inv'
<1> DEFINE s == <<c>> \o Tail(todo[p])
<1>1. Work(todo[p])
  BY DEF Works
<1>2. Work(s) /\ s[1] = c
  BY <1>1, ReplaceHead
<1>3. todo' = [todo EXCEPT ![p] = s]
  BY DEF Instead
<1> HIDE DEF s
<1> QED
  BY <1>2, <1>3, BusyStep

\* The save is given up.
LEMMA GiveUpStep ==
  ASSUME Inv, NEW p \in Procs, Busy(p), Works(p), KeepsMind(p), live' = live, GiveUp(p)
  PROVE  Inv'
<1> DEFINE s == IF \E i \in DOMAIN todo[p] : todo[p][i].do = "archive" THEN Moves ELSE <<>>
<1>1. Work(s) /\ (s # <<>> => ~WritesEvents(s[1]))
  BY EmptyWork, FreshMoves, FreshWork
<1>2. todo' = [todo EXCEPT ![p] = s]
  BY DEF GiveUp, Inv, StateOK
<1>3. DirsOK'
  BY DEF Inv, StateOK, DirsOK
<1> HIDE DEF s
<1> QED
  BY <1>1, <1>2, <1>3, BusyStep

\* What a call on files starts from.
LEMMA BusyHead ==
  ASSUME Inv, NEW p \in Procs, NEW kinds \in SUBSET FileCalls, At(p, kinds)
  PROVE  /\ Busy(p) /\ Works(p) /\ todo[p] # <<>> /\ Current(p) = todo[p][1]
         /\ todo[p][1] \in AnyCall /\ todo[p][1].do \in kinds /\ Root(p) \in Roots
         /\ DirsOK /\ \A r \in Roots : IsDir(live[r])
         /\ live' = live => DirsOK'
<1>1. Busy(p) /\ Works(p)
  BY BusyAt
<1>2. /\ todo[p] # <<>> /\ Current(p) = todo[p][1] /\ todo[p][1] \in AnyCall
      /\ todo[p][1].do \in kinds /\ Root(p) \in Roots
  BY HeadCall DEF Root
<1>3. DirsOK /\ \A r \in Roots : IsDir(live[r])
  BY DEF Inv, StateOK, DirsOK
<1>4. live' = live => DirsOK'
  BY <1>3 DEF DirsOK
<1> QED
  BY <1>1, <1>2, <1>3, <1>4

\* The import creates a directory that has nothing yet.
LEMMA ImportStep == ASSUME Inv, NEW p \in Procs, Import(p) PROVE Inv'
<1>1. /\ Busy(p) /\ Works(p) /\ todo[p] # <<>> /\ DirsOK /\ (live' = live => DirsOK')
      /\ todo[p][1].do = "import" /\ KeepsMind(p)
  BY BusyHead DEF Import, FileCalls
<1>2. \A r : ~WritesBase(todo[p][1], r)
  BY <1>1 DEF WritesBase
<1>3. CASE Proceed(p) /\ live' = live
  BY <1>1, <1>2, <1>3, ProceedStep
<1>4. CASE Set("user", EmptyDir) /\ Instead(p, <<Copy(Written(live["workspace"]))>>)
  <2> DEFINE c == Copy(Written(live["workspace"]))
  <2>1. Written(live["workspace"]) \in SUBSET Files
    BY DEF Written
  <2>2. c \in AnyCall /\ c.do = "copy"
    BY <2>1 DEF Copy, Call, AnyCall, Roots
  <2>3. DirsOK'
    BY <1>1, <1>4, NewDirs, SetDir DEF Roots
  <2> HIDE DEF c
  <2> QED
    BY <1>1, <1>2, <1>4, <2>2, <2>3, InsteadStep DEF FileCalls, WritesEvents, c
<1> QED
  BY <1>3, <1>4 DEF Import

\* A file is opened, filled, or gone.
LEMMA CopyFileStep == ASSUME Inv, NEW p \in Procs, CopyFile(p) PROVE Inv'
<1>1. /\ Busy(p) /\ Works(p) /\ todo[p] # <<>> /\ DirsOK /\ (live' = live => DirsOK')
      /\ todo[p][1].do = "copy" /\ KeepsMind(p) /\ Current(p) = todo[p][1]
      /\ todo[p][1] \in AnyCall /\ IsDir(live["user"]) /\ IsDir(live["workspace"])
  BY BusyHead DEF CopyFile, FileCalls, Roots
<1>2. \A r : ~WritesBase(todo[p][1], r)
  BY <1>1 DEF WritesBase
<1>3. todo[p][1].file \in SUBSET Files
  BY <1>1 DEF AnyCall
<1>4. PICK f \in todo[p][1].file :
        LET rest == todo[p][1].file \ {f} IN
        IF Exists(live["user"]) /\ live["workspace"].has[f] # Absent
          THEN \/ Set("user", Put(live["user"], f, Torn)) /\ UNCHANGED todo
               \/ /\ Set("user", Put(live["user"], f, live["workspace"].has[f]))
                  /\ Instead(p, IF rest = {} THEN <<>> ELSE <<Copy(rest)>>)
          ELSE GiveUp(p) /\ UNCHANGED live
  BY <1>1 DEF CopyFile
<1> DEFINE rest == todo[p][1].file \ {f}
<1>5. CASE GiveUp(p) /\ live' = live
  BY <1>1, <1>5, GiveUpStep
<1>6. ASSUME NEW content \in Content, live["user"].there,
             Set("user", Put(live["user"], f, content))
      PROVE  DirsOK'
  <2>1. IsDir(Put(live["user"], f, content))
    BY <1>1, <1>6, PutDir
  <2> QED
    BY <1>1, <1>6, <2>1, SetDir DEF Roots
<1>7. CASE live["user"].there /\ Set("user", Put(live["user"], f, Torn)) /\ todo' = todo
  <2>1. DirsOK'
    BY <1>6, <1>7 DEF Content
  <2>2. ~WritesEvents(todo[p][1])
    BY <1>1 DEF WritesEvents
  <2>3. Work(todo[p]) /\ todo' = [todo EXCEPT ![p] = todo[p]]
    BY <1>1, <1>7 DEF Inv, StateOK, Works, Work
  <2> QED
    BY <1>1, <2>1, <2>2, <2>3, BusyStep
<1>8. CASE /\ live["user"].there /\ Set("user", Put(live["user"], f, live["workspace"].has[f]))
           /\ Instead(p, IF rest = {} THEN <<>> ELSE <<Copy(rest)>>)
  <2>1. live["workspace"].has[f] \in Content
    BY <1>1, <1>3 DEF IsDir
  <2>2. DirsOK'
    BY <1>6, <1>8, <2>1
  <2>3. CASE rest = {}
    <3>1. Work(todo[p]) /\ todo[p] \in Seq(AnyCall)
      BY <1>1 DEF Inv, StateOK, Works, Work
    <3>2. <<>> \o Tail(todo[p]) = Tail(todo[p])
      BY <1>1, <3>1
    <3>3. Proceed(p)
      BY <1>8, <2>3, <3>2 DEF Instead, Proceed, Inv, StateOK
    <3> QED
      BY <1>1, <1>2, <2>2, <3>3, ProceedStep
  <2>4. CASE rest # {}
    <3> DEFINE c == Copy(rest)
    <3>1. rest \in SUBSET Files
      BY <1>3
    <3> HIDE DEF rest
    <3>2. c \in AnyCall /\ c.do = "copy"
      BY <3>1 DEF Copy, Call, AnyCall, Roots
    <3>3. Instead(p, <<c>>)
      BY <1>8, <2>4 DEF rest
    <3> HIDE DEF c
    <3> QED
      BY <1>1, <1>2, <2>2, <3>2, <3>3, InsteadStep DEF FileCalls, WritesEvents
  <2> QED
    BY <2>3, <2>4
<1> QED
  BY <1>4, <1>5, <1>7, <1>8 DEF Exists

\* A directory is created.
LEMMA MkdirStep == ASSUME Inv, NEW p \in Procs, Mkdir(p) PROVE Inv'
<1>1. /\ Busy(p) /\ Works(p) /\ todo[p] # <<>> /\ DirsOK /\ (live' = live => DirsOK')
      /\ todo[p][1].do = "mkdir" /\ KeepsMind(p) /\ Root(p) \in Roots /\ Proceed(p)
  BY BusyHead DEF Mkdir, FileCalls
<1>2. \A r : ~WritesBase(todo[p][1], r)
  BY <1>1 DEF WritesBase
<1>3. DirsOK'
  BY <1>1, NewDirs, SetDir DEF Mkdir
<1> QED
  BY <1>1, <1>2, <1>3, ProceedStep

\* The fields of a directory that takes a temporary file.
LEMMA DirThere ==
  ASSUME NEW d, IsDir(d), NEW tmp
  PROVE  LET e == [d EXCEPT !.there = TRUE, !.tmp = tmp] IN IsDir(e) /\ e.has = d.has
<1> DEFINE e == [d EXCEPT !.there = TRUE, !.tmp = tmp]
<1>1. d = [there |-> d.there, has |-> d.has, at |-> d.at, tmp |-> d.tmp]
  BY DEF IsDir
<1>2. e = [d EXCEPT !.there = TRUE, !.tmp = tmp]
  OBVIOUS
<1> HIDE DEF e
<1>3. e = [there |-> TRUE, has |-> d.has, at |-> d.at, tmp |-> tmp]
  BY <1>1, <1>2
<1>4. IsDir(e) /\ e.has = d.has
  BY <1>3 DEF IsDir
<1> QED
  BY <1>4 DEF e

\* What is written is never absent or torn.
LEMMA WantedKnown ==
  ASSUME Inv, NEW p \in Procs, Works(p)
  PROVE  Wanted(p) \in SUBSET Edits /\ Good(Wanted(p)) /\ Wanted(p) \in Content
<1>1. Wanted(p) \in SUBSET Edits
  BY DEF Wanted, Works
<1> QED
  BY <1>1, EditsAreGood

\* A file is unchanged, or its replacement is beside it.
LEMMA WriteTmpStep == ASSUME Inv, NEW p \in Procs, WriteTmp(p) PROVE Inv'
<1> DEFINE r == Root(p)
           f == Current(p).file
<1>1. /\ Busy(p) /\ Works(p) /\ todo[p] # <<>> /\ DirsOK /\ (live' = live => DirsOK')
      /\ todo[p][1].do = "write" /\ todo[p][1] \in AnyCall /\ KeepsMind(p)
      /\ Root(p) \in Roots /\ Current(p) = todo[p][1] /\ IsDir(live[r])
  BY BusyHead DEF WriteTmp, FileCalls
<1>2. CASE live[r].has[f] = Wanted(p) /\ Proceed(p) /\ live' = live
  <2>1. ASSUME NEW q \in Roots, WritesBase(todo[p][1], q)
        PROVE  live'[q].has["base"] # Absent
    <3>1. q = r /\ f = "base"
      BY <1>1, <2>1 DEF WritesBase, Root
    <3>2. Good(Wanted(p))
      BY <1>1, WantedKnown
    <3> QED
      BY <1>2, <3>1, <3>2 DEF Good
  <2> QED
    BY <1>1, <1>2, <2>1, ProceedStep
<1>3. CASE /\ Set(r, [live[r] EXCEPT !.there = TRUE, !.tmp = @ \cup {f}])
           /\ Instead(p, <<Call("rename", r, f)>>)
  <2> DEFINE e == [live[r] EXCEPT !.there = TRUE, !.tmp = live[r].tmp \cup {f}]
             c == Call("rename", r, f)
  <2>1. IsDir(e) /\ e.has = live[r].has
    BY <1>1, DirThere
  <2>2. Set(r, e)
    BY <1>3
  <2> HIDE DEF e
  <2>3. DirsOK' /\ live'[r] = e
    BY <1>1, <2>1, <2>2, SetDir
  <2>4. f \in Files \cup {"none"}
    BY <1>1 DEF AnyCall
  <2>5. c \in AnyCall /\ c.do = "rename" /\ c.root = r /\ c.file = f
    BY <1>1, <2>4 DEF Call, AnyCall, FileCalls
  <2>6. c.do \in FileCalls
    BY <2>5 DEF FileCalls
  <2>7. \A q \in Roots : WritesBase(todo[p][1], q) => WritesBase(c, q)
    BY <1>1, <2>5 DEF WritesBase, Root
  <2>8. ASSUME WritesEvents(c)
        PROVE  live'[c.root].has["base"] # Absent \/ ~Loadable(live'[c.root])
    <3>1. WritesEvents(todo[p][1]) /\ todo[p][1].root = r
      BY <1>1, <2>5, <2>8 DEF WritesEvents, Root
    <3>2. live[r].has["base"] # Absent \/ ~Loadable(live[r])
      BY <1>1, <3>1 DEF Works, EventsNext
    <3> QED
      BY <2>1, <2>3, <2>5, <3>2 DEF Loadable
  <2>9. Instead(p, <<c>>)
    BY <1>3
  <2> HIDE DEF c
  <2> QED
    BY <1>1, <2>3, <2>5, <2>6, <2>7, <2>8, <2>9, InsteadStep
<1> QED
  BY <1>2, <1>3 DEF WriteTmp

\* What a rename leaves.
LEMMA Renamed ==
  ASSUME Inv, NEW p \in Procs, At(p, {"rename"}), Current(p).file \in live[Root(p)].tmp,
         Set(Root(p), Put(live[Root(p)], Current(p).file, Wanted(p)))
  PROVE  /\ DirsOK' /\ \A q \in Roots \ {Root(p)} : live'[q] = live[q]
         /\ live'[Root(p)].has = [live[Root(p)].has EXCEPT ![Current(p).file] = Wanted(p)]
<1>1. Works(p) /\ Root(p) \in Roots /\ IsDir(live[Root(p)]) /\ DirsOK
  BY BusyHead DEF FileCalls
<1>2. live[Root(p)].there
  BY <1>1 DEF IsDir
<1>3. Wanted(p) \in Content
  BY <1>1, WantedKnown
<1> DEFINE r == Root(p)
           old == live[r]
           f == Current(p).file
           content == Wanted(p)
           d == Put(old, f, content)
<1>4. IsDir(old) /\ old.there /\ content \in Content /\ r \in Roots /\ Set(r, d)
  BY <1>1, <1>2, <1>3
<1> HIDE DEF content, f, old
<1>5. IsDir(d) /\ d.has = [old.has EXCEPT ![f] = content]
  BY <1>4, PutDir
<1> HIDE DEF d, r
<1>6. DirsOK' /\ live'[r] = d /\ \A q \in Roots \ {r} : live'[q] = live[q]
  BY <1>1, <1>4, <1>5, SetDir
<1> QED
  BY <1>5, <1>6 DEF r, old, f, content

\* The replacement takes its place, or the save is given up.
LEMMA RenameStep == ASSUME Inv, NEW p \in Procs, Rename(p) PROVE Inv'
<1> DEFINE r == Root(p)
           f == Current(p).file
<1>1. /\ Busy(p) /\ Works(p) /\ todo[p] # <<>> /\ KeepsMind(p) /\ At(p, {"rename"})
      /\ Root(p) \in Roots /\ Current(p) = todo[p][1] /\ IsDir(live[r])
  BY BusyHead DEF Rename, FileCalls
<1>2. CASE f \in live[r].tmp
  <2>1. Set(r, Put(live[r], f, Wanted(p))) /\ Proceed(p)
    BY <1>2 DEF Rename
  <2>2. DirsOK' /\ live'[r].has = [live[r].has EXCEPT ![f] = Wanted(p)]
    BY <1>1, <1>2, <2>1, Renamed
  <2>3. ASSUME NEW q \in Roots, WritesBase(todo[p][1], q)
        PROVE  live'[q].has["base"] # Absent
    <3>1. q = r /\ f = "base"
      BY <1>1, <2>3 DEF WritesBase, Root
    <3>2. Good(Wanted(p))
      BY <1>1, WantedKnown
    <3>3. live[r].has \in [Files -> Content] /\ "base" \in Files
      BY <1>1 DEF IsDir, Files
    <3> QED
      BY <2>2, <3>1, <3>2, <3>3 DEF Good
  <2> QED
    BY <1>1, <2>1, <2>2, <2>3, ProceedStep
<1>3. CASE f \notin live[r].tmp
  BY <1>1, <1>3, GiveUpStep DEF Rename
<1> QED
  BY <1>2, <1>3

\* Files of a copy are removed, then the copy.
LEMMA DropStep == ASSUME Inv, NEW p \in Procs, Drop(p) PROVE Inv'
<1> DEFINE r == Root(p)
           d == live[r]
<1>1. /\ Busy(p) /\ Works(p) /\ todo[p] # <<>> /\ DirsOK /\ todo[p][1].do = "drop" /\ KeepsMind(p)
      /\ r \in Roots /\ IsDir(d) /\ Work(todo[p])
  <2> HIDE DEF r, d
  <2>1. At(p, {"drop"}) /\ KeepsMind(p) /\ {"drop"} \in SUBSET FileCalls
    BY DEF Drop, FileCalls
  <2>2. /\ Busy(p) /\ Works(p) /\ todo[p] # <<>> /\ DirsOK /\ todo[p][1].do \in {"drop"}
        /\ Root(p) \in Roots /\ \A q \in Roots : IsDir(live[q])
    BY <2>1, BusyHead
  <2> QED
    BY <2>1, <2>2 DEF r, d, Works
<1>2. ~WritesEvents(todo[p][1]) /\ \A q : ~WritesBase(todo[p][1], q)
  BY <1>1 DEF WritesEvents, WritesBase
<1>3. CASE Set(r, NoDir) /\ Proceed(p)
  <2>1. DirsOK'
    BY <1>1, <1>3, NewDirs, SetDir
  <2> QED
    BY <1>1, <1>2, <1>3, <2>1, ProceedStep
<1>4. ASSUME NEW f \in Written(d), todo' = todo,
             Set(r, [d EXCEPT !.has[f] = Absent, !.at[f] = 0])
      PROVE  Inv'
  <2> DEFINE has == [d.has EXCEPT ![f] = Absent]
             at == [d.at EXCEPT ![f] = 0]
             e == [d EXCEPT !.has = has, !.at = at]
  <2>1. Set(r, e)
    BY <1>4
  <2>2. IsRecord(d)
    BY <1>1 DEF IsDir, IsRecord
  <2>3. has \in [Files -> Content] /\ \A g \in Files : d.has[g] = Absent => has[g] = Absent
    BY <1>1 DEF IsDir, Content
  <2> HIDE DEF has, at
  <2>4. e = [there |-> d.there, has |-> has, at |-> at, tmp |-> d.tmp]
    BY <2>2, Refilled
  <2> HIDE DEF e
  <2>6. IsDir(e)
    <3>1. e.there = d.there /\ e.has = has /\ e.at = at /\ e.tmp = d.tmp
      BY <2>4
    <3> QED
      BY <1>1, <2>3, <2>4, <3>1 DEF IsDir
  <2>7. DirsOK'
    BY <1>1, <2>1, <2>6, SetDir
  <2>8. todo' = [todo EXCEPT ![p] = todo[p]]
    BY <1>4 DEF Inv, StateOK
  <2> QED
    BY <1>1, <1>2, <2>7, <2>8, BusyStep
<1> QED
  BY <1>3, <1>4 DEF Drop

\* The durable copy is complete.
LEMMA SavedStep == ASSUME Inv, NEW p \in Procs, Saved(p) PROVE Inv'
<1>1. /\ Busy(p) /\ Works(p) /\ todo[p] # <<>> /\ (live' = live => DirsOK')
      /\ todo[p][1].do = "saved" /\ KeepsMind(p) /\ Proceed(p) /\ live' = live
  BY BusyHead DEF Saved, FileCalls, disk
<1>2. \A r : ~WritesBase(todo[p][1], r)
  BY <1>1 DEF WritesBase
<1> QED
  BY <1>1, <1>2, ProceedStep

\* A copy is archived.
LEMMA ToArchiveStep == ASSUME Inv, NEW p \in Procs, ToArchive(p) PROVE Inv'
<1>1. /\ Busy(p) /\ Works(p) /\ todo[p] # <<>> /\ DirsOK /\ (live' = live => DirsOK')
      /\ todo[p][1].do = "archive" /\ KeepsMind(p) /\ Root(p) \in Roots /\ Work(todo[p])
  BY BusyHead DEF ToArchive, FileCalls, Works
<1>2. ~WritesEvents(todo[p][1]) /\ \A q : ~WritesBase(todo[p][1], q)
  BY <1>1 DEF WritesEvents, WritesBase
<1>3. CASE Proceed(p) /\ live' = live
  BY <1>1, <1>2, <1>3, ProceedStep
<1>4. CASE todo' = todo /\ live' = live
  <2>1. todo' = [todo EXCEPT ![p] = todo[p]]
    BY <1>4 DEF Inv, StateOK
  <2> QED
    BY <1>1, <1>2, <1>4, <2>1, BusyStep
<1>5. CASE Proceed(p) /\ live' = [live EXCEPT ![Root(p)] = NoDir]
  <2>1. DirsOK'
    BY <1>1, <1>5, NewDirs, SetDir DEF Set
  <2> QED
    BY <1>1, <1>2, <1>5, <2>1, ProceedStep
<1> QED
  BY <1>3, <1>4, <1>5 DEF ToArchive, MoveOver, Proceed

\* What is typed is a directory.
LEMMA TypedDirs == TypeInv => DirsOK
<1> SUFFICES ASSUME TypeInv PROVE DirsOK
  OBVIOUS
<1>1. DiskOK /\ \A r \in Roots : live[r] \in Dir
  BY DEF TypeInv, DiskOK
<1>2. ASSUME NEW r \in Roots
      PROVE  IsDir(live[r])
  <2>1. Shape(live[r]) /\ live[r].has \in [Files -> Content]
    BY <1>1, DirShape
  <2>2. CASE Exists(live[r])
    BY <2>1, <2>2 DEF Shape, IsDir, Exists
  <2>3. CASE ~Exists(live[r])
    BY <1>1, <2>3, NewDirs DEF DiskOK, NothingHidden
  <2> QED
    BY <2>2, <2>3
<1>3. live = [r \in Roots |-> live[r]]
  BY <1>1 DEF DiskOK
<1> QED
  BY <1>2, <1>3 DEF DirsOK

\* The same after a step.
LEMMA TypedDirsNext == TypeInv' => DirsOK'
BY TypedDirs, PTL

\* The rest of short lists.
LEMMA Tails ==
  ASSUME NEW a, NEW b
  PROVE  Tail(<<a, b>>) = <<b>> /\ Tail(<<a>>) = <<>>
<1> DEFINE s == Tail(<<a, b>>)
           t == <<b>>
<1>1. s \in Seq({a, b}) /\ Len(s) = 1 /\ s[1] = b /\ t \in Seq({a, b}) /\ Len(t) = 1 /\ t[1] = b
  OBVIOUS
<1>2. Tail(<<a>>) = <<>>
  OBVIOUS
<1> HIDE DEF s, t
<1>3. \A i \in 1 .. Len(s) : s[i] = t[i]
  BY <1>1
<1>4. s = t
  BY <1>1, <1>3, SeqEqual
<1> QED
  BY <1>2, <1>4 DEF s, t

\* The first call done, of what unarchiving has to do.
LEMMA RestTail == ASSUME NEW s \in RestorePlans, s # <<>> PROVE Tail(s) \in RestorePlans
<1> DEFINE w == In("unarchive", "workspace")
           u == In("unarchive", "user")
           c == In("restore", "user")
           plans == RestorePlans
<1>1. s \in {<<w, u>>, <<u>>, <<u, c>>, <<c>>, <<>>}
  BY DEF RestorePlans
<1>2. <<u>> \in plans /\ <<c>> \in plans /\ <<>> \in plans
  BY DEF RestorePlans
<1> HIDE DEF w, u, c, plans
<1>3. Tail(s) \in {<<u>>, <<c>>, <<>>}
  BY <1>1, Tails
<1>4. Tail(s) \in plans
  BY <1>2, <1>3
<1> QED
  BY <1>4 DEF plans

\* One root is taken from the archive.
LEMMA FromArchiveStep == ASSUME Inv, TypeInv, NEW p \in Procs, FromArchive(p) PROVE Inv'
<1>1. At(p, {"unarchive"}) /\ KeepsMind(p) /\ todo[p] # <<>>
  BY HeadCall DEF FromArchive
<1>2. Busy(p) /\ Restores(p) /\ lock = NoProc
  BY <1>1, RestoringAt DEF RestoreCalls
<1>3. DirsOK'
  BY FromArchiveTypes, TypedDirs, TypedDirsNext
<1>4. PICK s \in RestorePlans : todo' = [todo EXCEPT ![p] = s]
  <2>1. CASE Proceed(p)
    BY <1>1, <1>2, <2>1, RestTail DEF Proceed, Restores
  <2>2. CASE todo' = todo
    <3>1. todo' = [todo EXCEPT ![p] = todo[p]]
      BY <2>2 DEF Inv, StateOK
    <3> QED
      BY <1>2, <3>1 DEF Restores
  <2>3. CASE todo' = [todo EXCEPT ![p] = RestOfMove(p)]
    <3>1. RestOfMove(p) \in RestorePlans
      BY RestLists DEF RestorePlans
    <3> QED
      BY <2>3, <3>1
  <2>4. Proceed(p) \/ todo' = todo \/ todo' = [todo EXCEPT ![p] = RestOfMove(p)]
    BY DEF FromArchive, MoveOver, RestOfMove
  <2> QED
    BY <2>1, <2>2, <2>3, <2>4
<1>5. phase' = phase /\ memory' = memory /\ lock' = lock
  BY <1>1 DEF KeepsMind
<1>6. StateOK'
  BY <1>3, <1>4, <1>5, PlansAreLists DEF Inv, StateOK
<1>7. todo'[p] = s /\ Only(p)
  BY <1>4, <1>5 DEF Inv, StateOK, Only
<1>8. ProcInv(p)'
  BY <1>2, <1>4, <1>5, <1>7 DEF ProcInv, Busy, Working, Restores
<1> QED
  BY <1>2, <1>5, <1>6, <1>7, <1>8, BusyAlone, AssembleAlone

\* What was unarchived is written back, if it can be loaded.
LEMMA RestoreStep == ASSUME Inv, TypeInv, NEW p \in Procs, Restore(p) PROVE Inv'
<1> DEFINE s == IF Loaded = NothingKnown THEN <<>> ELSE Persist(projected[p])
<1>1. At(p, {"restore"}) /\ phase' = phase /\ lock' = lock /\ live' = live
      /\ memory' = [memory EXCEPT ![p] = Loaded]
  BY DEF Restore, disk
<1>2. Busy(p) /\ Restores(p) /\ lock = NoProc
  BY <1>1, RestoringAt DEF RestoreCalls
<1>3. todo' = [todo EXCEPT ![p] = s]
  BY RestoreTodo
<1>4. Loaded \in Memories
  BY LoadedKnown DEF Inv, StateOK
<1>5. Fresh(s) /\ (Loaded = NothingKnown => s = <<>>)
  <2>1. Fresh(<<>>)
    <3>1. <<>> \in Seq(AnyCall) /\ Len(<<>>) = 0
      OBVIOUS
    <3> QED
      BY <3>1 DEF Fresh
  <2> QED
    BY <2>1, FreshPersist
<1> HIDE DEF s
<1>6. Work(s) /\ s \in Seq(AnyCall) /\ (s # <<>> => ~WritesEvents(s[1]))
  BY <1>5, FreshWork DEF Work
<1>7. StateOK'
  BY <1>1, <1>3, <1>4, <1>6 DEF Inv, StateOK, DirsOK
<1>8. todo'[p] = s /\ Only(p) /\ memory'[p] = Loaded
  BY <1>1, <1>3 DEF Inv, StateOK, Only
<1>9. ProcInv(p)'
  <2>1. CASE Loaded = NothingKnown
    <3>1. todo'[p] = <<>> /\ <<>> \in RestorePlans
      BY <1>5, <1>8, <2>1 DEF RestorePlans
    <3> QED
      BY <1>1, <1>2, <3>1 DEF ProcInv, Busy, Working, Restores
  <2>2. CASE Loaded # NothingKnown
    <3>1. memory'[p] \in SUBSET Edits
      BY <1>4, <1>8, <2>2 DEF Memories
    <3>2. Works(p)'
      BY <1>6, <1>8, <3>1 DEF Works, EventsNext
    <3> QED
      BY <1>1, <1>2, <3>2 DEF ProcInv, Busy, Working, Restores
  <2> QED
    BY <2>1, <2>2
<1> QED
  BY <1>1, <1>2, <1>7, <1>8, <1>9, BusyAlone, AssembleAlone

-----------------------------------------------------------------------------
(* The theorems.                                                           *)

\* A copy as jp left it.
LEMMA FirstDirs == ASSUME NEW legacy \in BOOLEAN PROVE IsDir(FirstCopy(legacy))
<1>1. MaxEdits \in Nat /\ MaxEdits > 0
  BY ConstantsAssumption
<1>2. {1} \in Content /\ {1, LegacyMark} \in Content /\ {} \in Content /\ Absent \in Content
  BY <1>1 DEF Content, Edits
<1> DEFINE d == FirstCopy(legacy)
           has == [metadata |-> {1}, base |-> IF legacy THEN Absent ELSE {},
                   events |-> IF legacy THEN {1, LegacyMark} ELSE {1}]
           at == [metadata |-> 1, base |-> IF legacy THEN 0 ELSE 1, events |-> 1]
<1>3. has \in [Files -> Content]
  <2>1. Files = {"metadata", "base", "events"}
    BY DEF Files
  <2>2. CASE legacy
    <3>1. has = [metadata |-> {1}, base |-> Absent, events |-> {1, LegacyMark}]
      BY <2>2
    <3> HIDE DEF has
    <3> QED
      BY <1>2, <2>1, <3>1
  <2>3. CASE ~legacy
    <3>1. has = [metadata |-> {1}, base |-> {}, events |-> {1}]
      BY <2>3
    <3> HIDE DEF has
    <3> QED
      BY <1>2, <2>1, <3>1
  <2> QED
    BY <2>2, <2>3
<1>4. d = [EmptyDir EXCEPT !.has = has, !.at = at]
  BY DEF FirstCopy
<1>5. IsRecord(EmptyDir) /\ EmptyDir.there = TRUE /\ EmptyDir.tmp = {}
  BY DEF EmptyDir, IsRecord
<1> HIDE DEF d, has, at
<1>6. d = [there |-> TRUE, has |-> has, at |-> at, tmp |-> {}]
  <2>1. d = [there |-> EmptyDir.there, has |-> has, at |-> at, tmp |-> EmptyDir.tmp]
    BY <1>4, <1>5, Refilled
  <2> QED
    BY <1>5, <2>1
<1>7. IsDir(d)
  BY <1>3, <1>6 DEF IsDir
<1> QED
  BY <1>7 DEF d

\* The invariant holds at first ...
LEMMA InitInv == Init => Inv
<1>1. SUFFICES ASSUME Init PROVE Inv
  OBVIOUS
<1>2. PICK kept \in SUBSET Roots, legacy, archived \in BOOLEAN :
        live = IF archived THEN [r \in Roots |-> NoDir]
               ELSE [r \in Roots |-> IF r \in kept THEN FirstCopy(legacy) ELSE NoDir]
  BY <1>1 DEF Init
<1>3. DirsOK
  BY <1>2, FirstDirs, NewDirs DEF DirsOK
<1>4. <<>> \in Seq(AnyCall) /\ Len(<<>>) = 0
  OBVIOUS
<1>5. StateOK
  BY <1>1, <1>3, <1>4 DEF Init, StateOK, PhaseNames, Memories
<1>6. Alone /\ \A p \in Procs : ProcInv(p)
  BY <1>1, <1>4 DEF Init, Alone, ProcInv, Busy, StartingUp
<1> QED
  BY <1>5, <1>6 DEF Inv

\* A lapse is not forgotten.
LEMMA LapsesStay == ASSUME [Next]_vars PROVE lapses \subseteq lapses'
<1>1. CASE UNCHANGED vars
  BY <1>1 DEF vars
<1>2. ASSUME NEW p \in Procs, Run(p) \/ Crash(p)
      PROVE  lapses \subseteq lapses'
  <2>1. CASE \/ Trash(p) \/ Acquire(p) \/ Create(p) \/ Unarchive(p) \/ Restore(p)
    BY <2>1 DEF Trash, Acquire, Create, Unarchive, Restore, Lapse
  <2>2. CASE \/ Start(p) \/ Check(p) \/ Probe(p) \/ Index(p) \/ EagerLoad(p) \/ Save(p)
             \/ Project(p) \/ Archive(p) \/ Remove(p) \/ Leave(p) \/ Crash(p)
    BY <2>2 DEF Start, Check, Probe, Index, EagerLoad, Save, Project, Archive, Remove, Leave, Crash
  <2>3. CASE \/ Import(p) \/ CopyFile(p) \/ Mkdir(p) \/ WriteTmp(p) \/ Rename(p) \/ Drop(p)
             \/ Saved(p) \/ ToArchive(p) \/ FromArchive(p)
    <3>1. KeepsMind(p)
      BY <2>3 DEF Import, CopyFile, Mkdir, WriteTmp, Rename, Drop, Saved, ToArchive, FromArchive
    <3> QED
      BY <3>1 DEF KeepsMind
  <2> QED
    BY <1>2, <2>1, <2>2, <2>3 DEF Run
<1> QED
  BY <1>1, <1>2 DEF Next

\* ... and every step keeps it, but one that meets an unarchiving.
LEMMA NextInv ==
  ASSUME Inv, TypeInv, [Next]_vars, "unlocked" \notin lapses'
  PROVE  Inv'
<1>1. CASE UNCHANGED vars
  <2>1. live' = live /\ phase' = phase /\ todo' = todo /\ memory' = memory /\ lock' = lock
    BY <1>1 DEF vars, disk
  <2>2. StateOK' /\ LiveKept /\ Alone'
    BY <2>1 DEF Inv, StateOK, DirsOK, LiveKept, Alone, Busy
  <2>3. \A p \in Procs : ProcInv(p)'
    BY <2>1, <2>2, Others
  <2> QED
    BY <2>2, <2>3 DEF Inv
<1>2. ASSUME NEW p \in Procs, Run(p)
      PROVE  Inv'
  <2>1. CASE Start(p) \/ Check(p) \/ Probe(p) \/ Trash(p) \/ Index(p) \/ EagerLoad(p)
    BY <2>1, StartStep, CheckStep, ProbeStep, TrashStep, IndexStep, EagerLoadStep
  <2>2. CASE \/ Acquire(p) \/ Create(p) \/ Save(p) \/ Project(p) \/ Archive(p) \/ Unarchive(p)
             \/ Remove(p) \/ Leave(p)
    BY <2>2, AcquireStep, CreateStep, SaveStep, ProjectStep, ArchiveStep, UnarchiveStep, RemoveStep,
       LeaveStep
  <2>3. CASE \/ Import(p) \/ CopyFile(p) \/ Mkdir(p) \/ WriteTmp(p) \/ Rename(p) \/ Drop(p)
             \/ Saved(p) \/ ToArchive(p)
    BY <2>3, ImportStep, CopyFileStep, MkdirStep, WriteTmpStep, RenameStep, DropStep, SavedStep,
       ToArchiveStep
  <2>4. CASE FromArchive(p) \/ Restore(p)
    BY <2>4, FromArchiveStep, RestoreStep
  <2> QED
    BY <1>2, <2>1, <2>2, <2>3, <2>4 DEF Run
<1>3. ASSUME NEW p \in Procs, Crash(p)
      PROVE  Inv'
  BY <1>3, CrashStep
<1> QED
  BY <1>1, <1>2, <1>3 DEF Next

\* Only one process has files to write, and it writes the events of a copy
\* behind its base configuration or into a copy that could not be read: at any
\* point of any save, import, removal, archiving and unarchiving, whoever reads
\* early, for as long as no unarchiving meets another process that works on
\* the conversation.
OneWorks == "unlocked" \notin lapses => Inv
THEOREM StoreInvariant == Spec => []OneWorks
<1>1. Init => OneWorks
  BY InitInv DEF OneWorks
<1>2. OneWorks /\ TypeInv /\ [Next]_vars => OneWorks'
  BY NextInv, LapsesStay DEF OneWorks
<1> QED
  BY <1>1, <1>2, StoreTypes, PTL DEF Spec

\* Whose calls a step changes.
LEMMA OneAtATime ==
  ASSUME Inv, NEW q \in Procs, Run(q) \/ Crash(q)
  PROVE  todo' = todo \/ \E s : todo' = [todo EXCEPT ![q] = s]
<1>1. CASE \/ Start(q) \/ Check(q) \/ Trash(q) \/ Index(q) \/ EagerLoad(q) \/ Saved(q)
           \/ Mkdir(q) \/ Import(q) \/ WriteTmp(q) \/ Drop(q) \/ Restore(q)
  BY <1>1
  DEF Start, Check, Trash, Index, EagerLoad, Saved, Mkdir, Import, WriteTmp, Drop, Restore,
      Proceed, Instead
<1>2. CASE Probe(q)
  BY <1>2 DEF Probe
<1>3. CASE \/ Acquire(q) \/ Create(q) \/ Save(q) \/ Project(q) \/ Archive(q) \/ Unarchive(q)
           \/ Remove(q) \/ Leave(q) \/ Crash(q)
  BY <1>3 DEF Acquire, Create, Save, Project, Archive, Unarchive, Remove, Leave, Crash
<1>4. CASE Rename(q)
  BY <1>4 DEF Rename, Proceed, GiveUp
<1>5. CASE CopyFile(q)
  <2>1. \/ todo' = todo
        \/ \E calls : Instead(q, calls)
        \/ GiveUp(q)
    BY <1>5 DEF CopyFile
  <2> QED
    BY <2>1 DEF Instead, GiveUp
<1>6. CASE ToArchive(q) \/ FromArchive(q)
  BY <1>6 DEF ToArchive, FromArchive, MoveOver, Proceed
<1> QED
  BY <1>1, <1>2, <1>3, <1>4, <1>5, <1>6 DEF Run

\* Which steps a process that is about to write can take.
LEMMA OnlyWrites ==
  ASSUME Inv, NEW p \in Procs, At(p, {"write", "rename", "mkdir"}), Run(p) \/ Crash(p)
  PROVE  Mkdir(p) \/ WriteTmp(p) \/ Rename(p) \/ Crash(p)
<1>1. todo[p] # <<>> /\ Current(p).do \in {"write", "rename", "mkdir"}
  BY DEF At
<1>2. phase[p] # "off"
  BY BusyAt DEF FileCalls, Busy
<1>3. ~(\/ Start(p) \/ Check(p) \/ Probe(p) \/ Trash(p) \/ Index(p) \/ EagerLoad(p))
  BY <1>1, <1>2 DEF Start, Check, Probe, Trash, Index, EagerLoad, At
<1>4. ~(\/ Acquire(p) \/ Create(p) \/ Save(p) \/ Project(p) \/ Archive(p) \/ Unarchive(p)
        \/ Remove(p) \/ Leave(p))
  BY <1>1 DEF Acquire, Create, Save, Project, Archive, Unarchive, Remove, Leave, Begins, Ready
<1>5. ~(\/ Import(p) \/ CopyFile(p) \/ Drop(p) \/ Saved(p) \/ ToArchive(p) \/ FromArchive(p)
        \/ Restore(p))
  BY <1>1 DEF Import, CopyFile, Drop, Saved, ToArchive, FromArchive, Restore, At
<1> QED
  BY <1>3, <1>4, <1>5 DEF Run

\* A copy that could be read can be after each of them.
LEMMA StillLoadable ==
  ASSUME Inv, NEW r \in Roots, NEW p \in Procs, Loadable(live[r]),
         At(p, {"write", "rename", "mkdir"}), Mkdir(p) \/ WriteTmp(p) \/ Rename(p) \/ Crash(p)
  PROVE  Loadable(live'[r])
<1>1. /\ Works(p) /\ Root(p) \in Roots /\ DirsOK /\ todo[p] # <<>> /\ Current(p) = todo[p][1]
      /\ \A q \in Roots : IsDir(live[q])
  BY BusyHead DEF FileCalls
<1>2. CASE live' = live
  BY <1>2
<1>3. CASE ~Exists(live[Root(p)]) /\ Set(Root(p), EmptyDir)
  <2>1. r # Root(p)
    BY <1>1, <1>3 DEF IsDir, Exists, Loadable, Good, Files
  <2> QED
    BY <1>1, <1>3, <2>1, NewDirs, SetDir
<1>4. CASE WriteTmp(p) /\ live' # live
  <2> DEFINE old == live[Root(p)]
             tmp == old.tmp \cup {Current(p).file}
             e == [old EXCEPT !.there = TRUE, !.tmp = tmp]
  <2>1. Set(Root(p), e)
    BY <1>4 DEF WriteTmp
  <2>2. IsDir(old)
    BY <1>1
  <2> HIDE DEF old, tmp
  <2>3. IsDir(e) /\ e.has = old.has
    BY <2>2, DirThere
  <2> HIDE DEF e
  <2>4. live'[Root(p)] = e /\ \A q \in Roots \ {Root(p)} : live'[q] = live[q]
    BY <1>1, <2>1, <2>3, SetDir
  <2> QED
    BY <2>3, <2>4 DEF Loadable, old
<1>5. CASE Rename(p) /\ live' # live
  <2> DEFINE f == Current(p).file
             old == live[Root(p)].has
             new == live'[Root(p)].has
  <2>1. /\ f \in live[Root(p)].tmp /\ Set(Root(p), Put(live[Root(p)], f, Wanted(p)))
        /\ At(p, {"rename"})
    BY <1>5 DEF Rename
  <2>2. (\A q \in Roots \ {Root(p)} : live'[q] = live[q]) /\ new = [old EXCEPT ![f] = Wanted(p)]
    BY <2>1, Renamed
  <2>3. CASE r # Root(p)
    BY <2>2, <2>3
  <2>4. CASE r = Root(p)
    <3>1. old \in [Files -> Content] /\ Good(Wanted(p))
      BY <1>1, WantedKnown DEF IsDir
    <3>2. Good(old["events"]) /\ old["base"] # Torn /\ (old["base"] = Absent => LegacyMark \in old["events"])
      BY <2>4 DEF Loadable
    <3>3. CASE f = "base"
      <4>1. new["base"] = Wanted(p) /\ new["events"] = old["events"]
        BY <2>2, <3>1, <3>3 DEF Files
      <4> QED
        BY <2>4, <3>1, <3>2, <4>1 DEF Loadable, Good
    <3>4. CASE f = "events"
      <4>1. new["events"] = Wanted(p) /\ new["base"] = old["base"]
        BY <2>2, <3>1, <3>4 DEF Files
      <4>2. WritesEvents(todo[p][1]) /\ todo[p][1].root = r
        BY <1>1, <2>1, <2>4, <3>4 DEF WritesEvents, At, Root
      <4>3. old["base"] # Absent
        BY <1>1, <2>4, <4>2 DEF Works, EventsNext
      <4> QED
        BY <2>4, <3>1, <3>2, <4>1, <4>3 DEF Loadable
    <3>5. CASE f # "base" /\ f # "events"
      <4>1. new["events"] = old["events"] /\ new["base"] = old["base"]
        BY <2>2, <3>1, <3>5 DEF Files
      <4> QED
        BY <2>4, <3>2, <4>1 DEF Loadable
    <3> QED
      BY <3>3, <3>4, <3>5
  <2> QED
    BY <2>3, <2>4
<1> QED
  BY <1>2, <1>3, <1>4, <1>5 DEF Mkdir, Crash, disk

\* Replacing the files of a copy one by one (persist_conversation_to) never
\* makes a copy unreadable that was readable, wherever it is interrupted, by
\* whatever is cleaned up or trashed meanwhile: for any number of processes,
\* saves, crashes and either layout, until an unarchiving meets another process
\* that works on the conversation.
THEOREM ReadableThroughout == Spec => WritesKeepReadable
<1> DEFINE A == \A r \in Roots : \A p \in Procs :
                  LET writes == At(p, {"write", "rename", "mkdir"}) /\ todo'[p] # todo[p] IN
                    "unlocked" \notin lapses /\ writes /\ Loadable(live[r]) => Loadable(live'[r])
<1>1. Spec => []OneWorks
  BY StoreInvariant
<1>2. OneWorks /\ [Next]_vars => [A]_vars
  <2>1. SUFFICES ASSUME OneWorks, Next, NEW r \in Roots, NEW p \in Procs, "unlocked" \notin lapses,
                        Loadable(live[r]), At(p, {"write", "rename", "mkdir"}), todo'[p] # todo[p]
                 PROVE  Loadable(live'[r])
    OBVIOUS
  <2>2. Inv
    BY <2>1 DEF OneWorks
  <2>3. PICK q \in Procs : Run(q) \/ Crash(q)
    BY <2>1 DEF Next
  <2>4. q = p
    BY <2>1, <2>2, <2>3, OneAtATime DEF Inv, StateOK
  <2> QED
    BY <2>1, <2>2, <2>3, <2>4, OnlyWrites, StillLoadable
<1> QED
  BY <1>1, <1>2, PTL DEF Spec, WritesKeepReadable

-----------------------------------------------------------------------------
-----------------------------------------------------------------------------
(* What the calls of the lock's holder come to.                            *)

UserEvents(c) == WritesEvents(c) /\ c.root = "user"
\* What comes after the user-local files.
Late(c) == c.do = "saved" \/ (c.root = "workspace" /\ c.do \in {"mkdir", "write", "rename"})
DropsUser(c) == c.do = "drop" /\ c.root = "user"
Archives(c, root) == c.do = "archive" /\ c.root = root
TakesUser(c) == DropsUser(c) \/ Archives(c, "user")
WritesUser(c, f) == c.do \in {"write", "rename"} /\ c.root = "user" /\ c.file = f

\* One call may not come before the other, and none before the import.
Clash(a, b) ==
  \/ Late(a) /\ (UserEvents(b) \/ DropsUser(b) \/ \E f \in Files : WritesUser(b, f))
  \/ TakesUser(a) /\ Late(b)
  \/ a.do = "archive" /\ (b.do = "drop" \/ Archives(b, "workspace"))
  \/ Archives(a, "user")
  \/ a.do = "drop" /\ b.do = "saved"
  \/ b.do = "import"

InOrder(s) == \A i, j \in 1 .. Len(s) : i < j => ~Clash(s[i], s[j])
Planned(s) == InOrder(s) /\ \A i \in 2 .. Len(s) : s[i].do # "copy"

HasLate(s) == \E i \in 1 .. Len(s) : Late(s[i])
HasUser(s) == \E i \in 1 .. Len(s) : UserEvents(s[i])
HasDrop(s) == \E i \in 1 .. Len(s) : DropsUser(s[i])
Has(s, do) == \E i \in 1 .. Len(s) : s[i].do = do
HasFile(s, f) == \E i \in 1 .. Len(s) : WritesUser(s[i], f)
HasFiles(s) == \A f \in Files : HasFile(s, f)

\* A plan that may stand behind another one.
Neat(s) ==
  /\ s \in Seq(TypedCalls)
  /\ InOrder(s)
  /\ \A i \in 1 .. Len(s) : s[i].do # "copy"

\* A neat plan is one that can be carried out.
LEMMA NeatPlanned == ASSUME NEW s, Neat(s) PROVE Planned(s)
BY DEF Neat, Planned

\* The items of s and t are those of u.
Joins(s, t, u) ==
  /\ \A i \in 1 .. Len(u) : \/ \E k \in 1 .. Len(s) : u[i] = s[k]
                            \/ \E k \in 1 .. Len(t) : u[i] = t[k]
  /\ \A k \in 1 .. Len(s) : \E i \in 1 .. Len(u) : u[i] = s[k]
  /\ \A k \in 1 .. Len(t) : \E i \in 1 .. Len(u) : u[i] = t[k]

\* Two plans one after the other.
LEMMA NeatConcat ==
  ASSUME NEW s, NEW t, Neat(s), Neat(t),
         \A i \in 1 .. Len(s), j \in 1 .. Len(t) : ~Clash(s[i], t[j])
  PROVE  Neat(s \o t) /\ Joins(s, t, s \o t)
<1> DEFINE u == s \o t
<1>1. s \in Seq(TypedCalls) /\ t \in Seq(TypedCalls) /\ Len(s) \in Nat /\ Len(t) \in Nat
  BY DEF Neat
<1>2. u \in Seq(TypedCalls) /\ Len(u) = Len(s) + Len(t)
  BY <1>1
<1>3. \A i \in 1 .. Len(s) : i \in 1 .. Len(u) /\ u[i] = s[i]
  BY <1>1, <1>2
<1>4. \A i \in 1 .. Len(u) : i > Len(s) => i - Len(s) \in 1 .. Len(t) /\ u[i] = t[i - Len(s)]
  BY <1>1, <1>2
<1>9. \A k \in 1 .. Len(t) : Len(s) + k \in 1 .. Len(u) /\ u[Len(s) + k] = t[k]
  BY <1>1, <1>2
<1> HIDE DEF u
<1>5. ASSUME NEW i \in 1 .. Len(u), NEW j \in 1 .. Len(u), i < j
      PROVE  ~Clash(u[i], u[j])
  <2>1. CASE j <= Len(s)
    <3>1. i \in 1 .. Len(s) /\ j \in 1 .. Len(s)
      BY <1>1, <1>5, <2>1
    <3> QED
      BY <1>3, <1>5, <3>1 DEF Neat, InOrder
  <2>2. CASE i <= Len(s) /\ j > Len(s)
    <3>1. i \in 1 .. Len(s) /\ j - Len(s) \in 1 .. Len(t) /\ u[j] = t[j - Len(s)]
      BY <1>1, <1>4, <2>2
    <3> QED
      BY <1>3, <3>1
  <2>3. CASE i > Len(s)
    <3> DEFINE a == i - Len(s)
               b == j - Len(s)
    <3>1. j > Len(s)
      BY <1>1, <1>2, <1>5, <2>3
    <3>2. a \in 1 .. Len(t) /\ b \in 1 .. Len(t) /\ u[i] = t[a] /\ u[j] = t[b]
      BY <1>4, <2>3, <3>1
    <3>3. a < b
      BY <1>1, <1>2, <1>5
    <3> HIDE DEF a, b
    <3> QED
      BY <3>2, <3>3 DEF Neat, InOrder
  <2> QED
    BY <1>1, <1>2, <2>1, <2>2, <2>3
<1>6. ASSUME NEW i \in 1 .. Len(u)
      PROVE  u[i].do # "copy"
  <2>1. CASE i <= Len(s)
    <3>1. i \in 1 .. Len(s) /\ u[i] = s[i]
      BY <1>1, <1>2, <1>3, <2>1
    <3> QED
      BY <3>1 DEF Neat
  <2>2. CASE i > Len(s)
    BY <1>4, <2>2 DEF Neat
  <2> QED
    BY <1>1, <1>2, <2>1, <2>2
<1>7. Neat(u)
  BY <1>2, <1>5, <1>6 DEF Neat, InOrder
<1>8. \A i \in 1 .. Len(u) :
              \/ \E k \in 1 .. Len(s) : u[i] = s[k]
              \/ \E k \in 1 .. Len(t) : u[i] = t[k]
  <2>1. ASSUME NEW i \in 1 .. Len(u), i <= Len(s)
        PROVE  i \in 1 .. Len(s)
    BY <1>1, <1>2, <2>1
  <2>2. \A i \in 1 .. Len(u) : i <= Len(s) \/ i > Len(s)
    BY <1>1, <1>2
  <2> QED
    BY <1>3, <1>4, <2>1, <2>2
<1> QED
  BY <1>3, <1>7, <1>8, <1>9 DEF u, Joins

\* Calls that leave the user-local copy where it is, ones that do not come after
\* it either, and ones that do not write it.
Settled(s) == \A i \in 1 .. Len(s) : ~TakesUser(s[i]) /\ s[i].do # "archive"
Before(s) == Settled(s) /\ \A i \in 1 .. Len(s) : ~Late(s[i])
Behind(s) ==
  \A i \in 1 .. Len(s) : ~UserEvents(s[i]) /\ ~DropsUser(s[i]) /\ \A f \in Files : ~WritesUser(s[i], f)
NoImport(s) == \A i \in 1 .. Len(s) : s[i].do # "import"

\* Single calls.
LEMMA NeatCall ==
  ASSUME NEW do \in {"import", "saved", "drop", "mkdir"}, NEW r \in Roots,
         do = "drop" => r = "workspace"
  PROVE  /\ Neat(<<In(do, r)>>) /\ Settled(<<In(do, r)>>) /\ Behind(<<In(do, r)>>)
         /\ do # "saved" /\ (do = "mkdir" => r = "user") => Before(<<In(do, r)>>)
         /\ do # "import" => NoImport(<<In(do, r)>>)
         /\ \A d : Has(<<In(do, r)>>, d) <=> d = do
<1> DEFINE c == In(do, r)
           s == <<c>>
<1>1. c.do = do /\ c.root = r /\ c \in TypedCalls
  BY DEF In, Call, TypedCalls, WorkCalls, Restful
<1>2. s \in Seq(TypedCalls) /\ Len(s) = 1 /\ s[1] = c
  BY <1>1
<1> HIDE DEF c, s
<1>3. \A i \in 1 .. Len(s) : i = 1
  BY <1>2
<1>4. Neat(s)
  BY <1>1, <1>2, <1>3 DEF Neat, InOrder, Archives
<1>5. do # "saved" /\ (do = "mkdir" => r = "user") => ~Late(c)
  BY <1>1 DEF Late
<1>6. ~UserEvents(c) /\ \A f \in Files : ~WritesUser(c, f)
  BY <1>1 DEF UserEvents, WritesEvents, WritesUser
<1>7. ~TakesUser(c) /\ ~DropsUser(c) /\ c.do # "archive"
  BY <1>1 DEF TakesUser, DropsUser, Archives
<1>8. Settled(s) /\ Behind(s) /\ (do # "saved" /\ (do = "mkdir" => r = "user") => Before(s))
  BY <1>2, <1>3, <1>5, <1>6, <1>7 DEF Before, Behind, Settled
<1>9. do # "import" => NoImport(s)
  BY <1>1, <1>2, <1>3 DEF NoImport
<1>10. \A d : Has(s, d) <=> d = do
  BY <1>1, <1>2, <1>3 DEF Has
<1> QED
  BY <1>4, <1>8, <1>9, <1>10 DEF s, c

\* Plans one after the other.
LEMMA NeatJoin ==
  ASSUME NEW s, NEW t, Neat(s), Neat(t), NoImport(t), Before(s) \/ (Settled(s) /\ Behind(t)),
         ~Has(s, "drop") \/ ~Has(t, "saved")
  PROVE  /\ Neat(s \o t)
         /\ NoImport(s) => NoImport(s \o t)
         /\ Settled(s) /\ Settled(t) => Settled(s \o t)
         /\ Before(s) /\ Before(t) => Before(s \o t)
         /\ Behind(s) /\ Behind(t) => Behind(s \o t)
         /\ HasUser(s) \/ HasUser(t) => HasUser(s \o t)
         /\ HasDrop(s \o t) => HasDrop(s) \/ HasDrop(t)
         /\ HasFiles(s) \/ HasFiles(t) => HasFiles(s \o t)
         /\ \A do : Has(s \o t, do) <=> Has(s, do) \/ Has(t, do)
<1>1. \A i \in 1 .. Len(s), j \in 1 .. Len(t) : ~Clash(s[i], t[j])
  BY DEF Before, Behind, Settled, NoImport, Has, Clash, TakesUser
<1> DEFINE u == s \o t
<1>2. Neat(u) /\ Joins(s, t, u)
  BY <1>1, NeatConcat
<1> HIDE DEF u
<1>3. Settled(s) /\ Settled(t) => Settled(u)
  BY <1>2 DEF Joins, Settled
<1>4. Before(s) /\ Before(t) => Before(u)
  BY <1>2, <1>3 DEF Joins, Before
<1>5. Behind(s) /\ Behind(t) => Behind(u)
  BY <1>2 DEF Joins, Behind
<1>6. HasUser(s) \/ HasUser(t) => HasUser(u)
  BY <1>2 DEF Joins, HasUser
<1>7. HasDrop(u) => HasDrop(s) \/ HasDrop(t)
  BY <1>2 DEF Joins, HasDrop
<1>8. NoImport(s) => NoImport(u)
  BY <1>2 DEF Joins, NoImport
<1>9. HasFiles(s) \/ HasFiles(t) => HasFiles(u)
  BY <1>2 DEF Joins, HasFiles, HasFile
<1>10. \A do : Has(u, do) <=> Has(s, do) \/ Has(t, do)
  <2>1. \A do : Has(u, do) => Has(s, do) \/ Has(t, do)
    BY <1>2 DEF Joins, Has
  <2>2. \A do : Has(s, do) => Has(u, do)
    BY <1>2 DEF Joins, Has
  <2>3. \A do : Has(t, do) => Has(u, do)
    BY <1>2 DEF Joins, Has
  <2> QED
    BY <2>1, <2>2, <2>3
<1> QED
  BY <1>2, <1>3, <1>4, <1>5, <1>6, <1>7, <1>8, <1>9, <1>10 DEF u

\* The files of one copy.
LEMMA NeatWrites ==
  ASSUME NEW r \in Roots
  PROVE  /\ Neat(PersistTo(r)) /\ Settled(PersistTo(r)) /\ NoImport(PersistTo(r))
         /\ r = "user" => Before(PersistTo(r)) /\ HasUser(PersistTo(r)) /\ HasFiles(PersistTo(r))
         /\ r = "workspace" => Behind(PersistTo(r))
         /\ \A do \in {"archive", "drop", "saved"} : ~Has(PersistTo(r), do)
<1> DEFINE s == WriteFiles(r)
           mkdir == <<In("mkdir", r)>>
<1>1. /\ s \in Seq(TypedCalls) /\ Len(s) = 3
      /\ s[1] = Call("write", r, "metadata") /\ s[2] = Call("write", r, "base")
      /\ s[3] = Call("write", r, "events")
  BY DEF WriteFiles, Call, TypedCalls, WorkCalls, Files
<1>2. PersistTo(r) = mkdir \o s
  BY DEF PersistTo
<1>3. /\ Neat(mkdir) /\ Behind(mkdir) /\ Settled(mkdir) /\ NoImport(mkdir)
      /\ r = "user" => Before(mkdir)
      /\ \A do \in {"archive", "drop", "saved"} : ~Has(mkdir, do)
  BY NeatCall
<1> HIDE DEF s, mkdir
<1>4. \A i \in 1 .. Len(s) : i = 1 \/ i = 2 \/ i = 3
  BY <1>1
<1>5. \A i \in 1 .. Len(s) : s[i].do = "write" /\ s[i].root = r
  BY <1>1, <1>4 DEF Call
<1>6. \A i \in 1 .. Len(s) : /\ ~TakesUser(s[i]) /\ ~DropsUser(s[i]) /\ s[i].do # "archive"
                             /\ r = "user" => ~Late(s[i])
                             /\ r = "workspace" => ~UserEvents(s[i])
                             /\ r = "workspace" => \A f \in Files : ~WritesUser(s[i], f)
  BY <1>5 DEF TakesUser, DropsUser, Archives, Late, UserEvents, WritesEvents, WritesUser
<1>7. r = "user" \/ r = "workspace"
  BY DEF Roots
<1>8. Neat(s)
  <2>1. InOrder(s)
    BY <1>5, <1>6, <1>7 DEF InOrder, Clash, TakesUser
  <2>2. \A i \in 1 .. Len(s) : s[i].do # "copy"
    BY <1>5
  <2> QED
    BY <1>1, <2>1, <2>2 DEF Neat
<1>9. r = "user" => HasUser(s)
  <2>1. 3 \in 1 .. Len(s) /\ s[3].file = "events" /\ s[3].do = "write" /\ s[3].root = r
    BY <1>1 DEF Call
  <2> QED
    BY <2>1 DEF HasUser, UserEvents, WritesEvents
<1>10. /\ Settled(s)
       /\ r = "user" => Before(s)
       /\ r = "workspace" => Behind(s)
  BY <1>6 DEF Before, Behind, Settled
<1>11. NoImport(s)
  BY <1>5 DEF NoImport
<1>12. r = "user" => HasFiles(s)
  <2>1. s[1].file = "metadata" /\ s[2].file = "base" /\ s[3].file = "events"
    BY <1>1 DEF Call
  <2>2. 1 \in 1 .. Len(s) /\ 2 \in 1 .. Len(s) /\ 3 \in 1 .. Len(s)
    BY <1>1
  <2> QED
    BY <1>5, <2>1, <2>2 DEF HasFiles, HasFile, WritesUser, Files
<1>13. \A do \in {"archive", "drop", "saved"} : ~Has(s, do)
  BY <1>5 DEF Has
<1>15. (Before(mkdir) \/ (Settled(mkdir) /\ Behind(s))) /\ ~Has(mkdir, "drop")
  BY <1>3, <1>7, <1>10
<1>14. /\ Neat(mkdir \o s) /\ NoImport(mkdir \o s) /\ Settled(mkdir \o s)
       /\ r = "user" => Before(mkdir \o s) /\ HasUser(mkdir \o s) /\ HasFiles(mkdir \o s)
       /\ r = "workspace" => Behind(mkdir \o s)
       /\ \A do : Has(mkdir \o s, do) <=> Has(mkdir, do) \/ Has(s, do)
  BY <1>3, <1>8, <1>9, <1>10, <1>11, <1>12, <1>13, <1>15, NeatJoin
<1> QED
  BY <1>2, <1>3, <1>13, <1>14

\* A save writes the user-local events, and takes nothing away.
LEMMA PersistPlan ==
  ASSUME NEW b
  PROVE  /\ Neat(Persist(b)) /\ HasUser(Persist(b)) /\ Settled(Persist(b)) /\ ~HasDrop(Persist(b))
         /\ HasFiles(Persist(b)) /\ Has(Persist(b), "saved") /\ ~Has(Persist(b), "archive")
<1> DEFINE import == <<In("import", "user")>>
           user == PersistTo("user")
           done == <<In("saved", "user")>>
           project == IF b THEN PersistTo("workspace") ELSE <<In("drop", "workspace")>>
<1>1. Neat(import) /\ Before(import) /\ Settled(import) /\ ~Has(import, "drop")
  BY NeatCall DEF Roots
<1>2. /\ Neat(user) /\ Before(user) /\ HasUser(user) /\ Settled(user) /\ NoImport(user) /\ HasFiles(user)
      /\ ~Has(user, "drop") /\ ~Has(user, "saved")
  BY NeatWrites DEF Roots
<1>3. /\ Neat(done) /\ Behind(done) /\ Settled(done) /\ NoImport(done) /\ Has(done, "saved")
      /\ ~Has(done, "drop")
  BY NeatCall DEF Roots
<1>4. Neat(project) /\ Behind(project) /\ Settled(project) /\ NoImport(project) /\ ~Has(project, "saved")
  BY NeatCall, NeatWrites DEF Roots
<1>5. Persist(b) = import \o user \o done \o project
  BY DEF Persist
<1>6. \A s : Settled(s) => ~HasDrop(s) /\ ~Has(s, "archive")
  BY DEF Settled, HasDrop, Has, TakesUser
<1> HIDE DEF import, user, done, project
<1> DEFINE x == import \o user
           y == x \o done
           z == y \o project
<1>7. Neat(x) /\ HasUser(x) /\ Settled(x) /\ HasFiles(x) /\ ~Has(x, "drop")
  BY <1>1, <1>2, NeatJoin
<1> HIDE DEF x
<1>8. Neat(y) /\ HasUser(y) /\ Settled(y) /\ HasFiles(y) /\ Has(y, "saved")
  BY <1>3, <1>7, NeatJoin
<1> HIDE DEF y
<1>9. Neat(z) /\ HasUser(z) /\ Settled(z) /\ HasFiles(z) /\ Has(z, "saved")
  BY <1>4, <1>8, NeatJoin
<1> HIDE DEF z
<1>10. Persist(b) = z
  BY <1>5 DEF x, y, z
<1> QED
  BY <1>6, <1>9, <1>10

\* The moves to the archive, alone or after a save.
LEMMA MovesPlan ==
  /\ Neat(Moves) /\ ~HasLate(Moves) /\ ~HasDrop(Moves) /\ NoImport(Moves)
  /\ ~Has(Moves, "drop")
  /\ \A b : LET s == Persist(b) \o Moves IN
       Neat(s) /\ HasUser(s) /\ ~HasDrop(s) /\ HasFiles(s) /\ Has(s, "saved")
<1> DEFINE s == Moves
<1>1. s \in Seq(TypedCalls) /\ Len(s) = 2
  BY DEF Moves, In, Call, TypedCalls, WorkCalls, Restful, Roots
<1>2. /\ s[1].do = "archive" /\ s[1].root = "workspace"
      /\ s[2].do = "archive" /\ s[2].root = "user"
  BY DEF Moves, In, Call
<1> HIDE DEF s
<1>3. \A i \in 1 .. Len(s) : i = 1 \/ i = 2
  BY <1>1
<1>4. \A i \in 1 .. Len(s) : /\ ~Late(s[i]) /\ ~DropsUser(s[i]) /\ ~UserEvents(s[i]) /\ s[i].do # "copy"
                             /\ \A f \in Files : ~WritesUser(s[i], f)
  BY <1>2, <1>3 DEF Late, DropsUser, UserEvents, WritesEvents, WritesUser
<1>8. NoImport(s)
  BY <1>2, <1>3 DEF NoImport
<1>10. \A i, j \in 1 .. Len(s) : 
         i < j => s[j].do = "archive" /\ ~Archives(s[j], "workspace") /\ ~Archives(s[i], "user")
  BY <1>1, <1>2, <1>3 DEF Archives
<1>6. Neat(s) /\ ~HasLate(s) /\ ~HasDrop(s) /\ Behind(s)
  <2>1. InOrder(s)
    BY <1>4, <1>10 DEF InOrder, Clash
  <2> QED
    BY <1>1, <1>4, <2>1 DEF Neat, HasLate, HasDrop, Behind
<1>9. ~Has(s, "drop") /\ ~Has(s, "saved")
  BY <1>1, <1>2, <1>3 DEF Has
<1>7. ASSUME NEW b
      PROVE  LET t == Persist(b) \o s IN
               Neat(t) /\ HasUser(t) /\ ~HasDrop(t) /\ HasFiles(t) /\ Has(t, "saved")
  <2> DEFINE v == Persist(b)
             t == v \o s
  <2>1. /\ Neat(v) /\ HasUser(v) /\ Settled(v) /\ ~HasDrop(v) /\ HasFiles(v) /\ Has(v, "saved")
    BY PersistPlan
  <2> HIDE DEF v
  <2>2. Neat(t) /\ HasUser(t) /\ ~HasDrop(t) /\ HasFiles(t) /\ Has(t, "saved")
    BY <1>6, <1>8, <1>9, <2>1, NeatJoin
  <2> QED
    BY <2>2 DEF v
<1> QED
  BY <1>6, <1>7, <1>8, <1>9 DEF s

\* Removing.
LEMMA RemovalPlan ==
  LET s == <<In("drop", "workspace"), In("drop", "user")>> IN
  Neat(s) /\ ~HasLate(s) /\ NoImport(s) /\ ~Has(s, "archive")
<1> DEFINE s == <<In("drop", "workspace"), In("drop", "user")>>
<1>1. s \in Seq(TypedCalls) /\ Len(s) = 2
  BY DEF In, Call, TypedCalls, WorkCalls, Restful, Roots
<1>2. s[1].do = "drop" /\ s[2].do = "drop"
  BY DEF In, Call
<1> HIDE DEF s
<1>3. \A i \in 1 .. Len(s) : i = 1 \/ i = 2
  BY <1>1
<1>4. \A i \in 1 .. Len(s) : ~Late(s[i]) /\ ~Archives(s[i], "user") /\ s[i].do # "copy"
  BY <1>2, <1>3 DEF Late, Archives
<1>5. NoImport(s) /\ ~Has(s, "archive") /\ ~Has(s, "saved")
  BY <1>2, <1>3 DEF NoImport, Has
<1>6. Neat(s) /\ ~HasLate(s)
  BY <1>1, <1>4, <1>5 DEF Neat, InOrder, Clash, HasLate, NoImport, Has
<1> QED
  BY <1>5, <1>6 DEF s

\* Nothing to do.
LEMMA NoPlan ==
  /\ Neat(<<>>) /\ ~HasLate(<<>>) /\ ~HasDrop(<<>>)
  /\ \A do : ~Has(<<>>, do)
<1> DEFINE s == <<>>
<1>1. s \in Seq(TypedCalls) /\ Len(s) = 0
  OBVIOUS
<1> HIDE DEF s
<1>2. \A i \in 1 .. Len(s) : FALSE
  BY <1>1
<1>3. Neat(s) /\ ~HasLate(s) /\ ~HasDrop(s) /\ \A do : ~Has(s, do)
  BY <1>1, <1>2 DEF Neat, InOrder, HasLate, HasDrop, Has
<1> QED
  BY <1>3 DEF s

\* Unarchiving has no calls on files of its own yet.
LEMMA RestoresPlanned ==
  ASSUME NEW s \in RestorePlans
  PROVE  Planned(s) /\ ~HasLate(s) /\ ~HasDrop(s) /\ ~Has(s, "archive")
<1> DEFINE w == In("unarchive", "workspace")
           u == In("unarchive", "user")
           c == In("restore", "user")
<1>1. s \in {<<w, u>>, <<u>>, <<u, c>>, <<c>>, <<>>}
  BY DEF RestorePlans
<1>2. w.do \in RestoreCalls /\ u.do \in RestoreCalls /\ c.do \in RestoreCalls
  BY DEF In, Call, RestoreCalls
<1> HIDE DEF w, u, c
<1>3. \A i \in 1 .. Len(s) : s[i] \in {w, u, c}
  <2>1. CASE s = <<w, u>>
    BY <2>1
  <2>2. CASE s = <<u>>
    BY <2>2
  <2>3. CASE s = <<u, c>>
    BY <2>3
  <2>4. CASE s = <<c>>
    BY <2>4
  <2>5. CASE s = <<>>
    BY <2>5
  <2> QED
    BY <1>1, <2>1, <2>2, <2>3, <2>4, <2>5
<1>4. \A i \in 1 .. Len(s) : s[i].do \in RestoreCalls
  BY <1>2, <1>3
<1>5. s \in Seq({w, u, c})
  <2>1. CASE s = <<w, u>>
    BY <2>1
  <2>2. CASE s = <<u>>
    BY <2>2
  <2>3. CASE s = <<u, c>>
    BY <2>3
  <2>4. CASE s = <<c>>
    BY <2>4
  <2>5. CASE s = <<>>
    BY <2>5
  <2> QED
    BY <1>1, <2>1, <2>2, <2>3, <2>4, <2>5
<1>6. \A i \in 1 .. Len(s) :
        /\ ~Late(s[i]) /\ ~DropsUser(s[i]) /\ ~TakesUser(s[i]) /\ ~UserEvents(s[i])
        /\ s[i].do \notin {"archive", "drop", "import", "copy"}
        /\ \A r \in Roots : ~Archives(s[i], r)
  BY <1>4 DEF RestoreCalls, Late, DropsUser, TakesUser, Archives, UserEvents, WritesEvents
<1>7. InOrder(s)
  BY <1>6 DEF InOrder, Clash, Roots
<1>8. \A i \in 2 .. Len(s) : s[i].do # "copy"
  <2>1. \A i \in 2 .. Len(s) : i \in 1 .. Len(s)
    BY <1>5
  <2> QED
    BY <1>6, <2>1
<1> QED
  BY <1>6, <1>7, <1>8 DEF Planned, HasLate, HasDrop, Has

\* The rest of a plan, t, after its first call, c.
RestOf(s, c, t) ==
  /\ HasLate(s) => HasLate(t) \/ Late(c)
  /\ HasLate(t) => HasLate(s) /\ ~TakesUser(c)
  /\ HasUser(s) => HasUser(t) \/ UserEvents(c)
  /\ Late(c) => ~HasUser(t) /\ ~HasDrop(t) /\ \A f \in Files : ~HasFile(t, f)
  /\ HasDrop(t) => HasDrop(s)
  /\ \A do : (Has(t, do) => Has(s, do)) /\ (Has(s, do) => Has(t, do) \/ c.do = do)
  /\ Archives(c, "user") => t = <<>>
  /\ Has(t, "drop") => c.do # "archive"
  /\ c.do = "drop" => ~Has(t, "saved")
  /\ \A f : HasFile(s, f) => HasFile(t, f) \/ WritesUser(c, f)
  /\ t # <<>> => t[1].do \notin {"copy", "import"}

\* What is known of the rest.
LEMMA PlannedTail ==
  ASSUME NEW s \in Seq(TypedCalls), s # <<>>, Planned(s)
  PROVE  Planned(Tail(s)) /\ RestOf(s, s[1], Tail(s))
<1> DEFINE t == Tail(s)
<1>1. t \in Seq(TypedCalls) /\ Len(t) = Len(s) - 1 /\ Len(s) \in Nat /\ Len(t) \in Nat
  BY TailItems
<1>2. \A i \in 1 .. Len(t) : i + 1 \in 1 .. Len(s) /\ t[i] = s[i + 1]
  BY TailItems
<1>3. 1 \in 1 .. Len(s)
  OBVIOUS
<1> HIDE DEF t
<1>4. \A i \in 1 .. Len(s) : i = 1 \/ (i - 1 \in 1 .. Len(t) /\ s[i] = t[i - 1])
  <2>1. SUFFICES ASSUME NEW i \in 1 .. Len(s), i # 1
                 PROVE  i - 1 \in 1 .. Len(t) /\ s[i] = t[i - 1]
    OBVIOUS
  <2>2. i - 1 \in 1 .. Len(t) /\ (i - 1) + 1 = i
    BY <1>1, <2>1
  <2> QED
    BY <1>2, <2>2
<1>5. InOrder(t)
  <2>1. SUFFICES ASSUME NEW i \in 1 .. Len(t), NEW j \in 1 .. Len(t), i < j
                 PROVE  ~Clash(t[i], t[j])
    BY DEF InOrder
  <2>2. i + 1 \in 1 .. Len(s) /\ j + 1 \in 1 .. Len(s) /\ i + 1 < j + 1
    BY <1>2, <2>1
  <2>3. ~Clash(s[i + 1], s[j + 1])
    BY <2>2 DEF Planned, InOrder
  <2> QED
    BY <1>2, <2>3
<1>6. ASSUME NEW i \in 1 .. Len(t)
      PROVE  t[i].do # "copy" /\ ~Clash(s[1], t[i])
  <2>1. i + 1 \in 2 .. Len(s) /\ t[i] = s[i + 1] /\ (i + 1) - 1 = i /\ 1 < i + 1
    BY <1>2
  <2>2. ~Clash(s[1], s[i + 1])
    BY <1>3, <2>1 DEF Planned, InOrder
  <2> QED
    BY <2>1, <2>2 DEF Planned
<1>7. Planned(t)
  BY <1>5, <1>6 DEF Planned
<1>8. HasLate(t) => HasLate(s) /\ ~TakesUser(s[1])
  BY <1>2, <1>6 DEF HasLate, Clash
<1>9. HasUser(s) => HasUser(t) \/ UserEvents(s[1])
  BY <1>4 DEF HasUser
<1>10. Late(s[1]) => ~HasUser(t) /\ ~HasDrop(t) /\ \A f \in Files : ~HasFile(t, f)
  BY <1>6 DEF HasUser, HasDrop, HasFile, Clash
<1>11. HasDrop(t) => HasDrop(s)
  BY <1>2 DEF HasDrop
<1>12. /\ t # <<>> => t[1].do \notin {"copy", "import"}
       /\ Archives(s[1], "user") => t = <<>>
  <2>1. t # <<>> => 1 \in 1 .. Len(t)
    BY <1>1
  <2> QED
    BY <1>6, <2>1 DEF Clash
<1>13. HasLate(s) => HasLate(t) \/ Late(s[1])
  BY <1>4 DEF HasLate
<1>14. \A do : (Has(t, do) => Has(s, do)) /\ (Has(s, do) => Has(t, do) \/ s[1].do = do)
  BY <1>2, <1>4 DEF Has
<1>15. /\ Has(t, "drop") => s[1].do # "archive"
       /\ s[1].do = "drop" => ~Has(t, "saved")
  BY <1>2, <1>6 DEF Has, Clash
<1>16. \A f : HasFile(s, f) => HasFile(t, f) \/ WritesUser(s[1], f)
  BY <1>4 DEF HasFile
<1> QED
  BY <1>7, <1>8, <1>9, <1>10, <1>11, <1>12, <1>13, <1>14, <1>15, <1>16 DEF t, RestOf

\* Another call of the same kind in the place of the first.
SameKind(c, d) ==
  /\ Late(c) = Late(d) /\ UserEvents(c) = UserEvents(d) /\ DropsUser(c) = DropsUser(d)
  /\ TakesUser(c) = TakesUser(d)
  /\ \A r \in Roots : Archives(c, r) = Archives(d, r)
  /\ \A f \in Files : WritesUser(c, f) = WritesUser(d, f)
  /\ \A do \in {"archive", "drop", "saved"} : (c.do = do) = (d.do = do)

\* Plans with calls of the same kinds.
Alike(s, u) ==
  /\ (HasLate(u) <=> HasLate(s)) /\ (HasUser(u) <=> HasUser(s)) /\ (HasDrop(u) <=> HasDrop(s))
  /\ \A do \in {"archive", "drop", "saved"} : Has(u, do) <=> Has(s, do)
  /\ \A f \in Files : HasFile(u, f) <=> HasFile(s, f)

\* The plan stays one.
LEMMA PlannedReplace ==
  ASSUME NEW s \in Seq(TypedCalls), s # <<>>, Planned(s), NEW c \in TypedCalls, SameKind(s[1], c),
         NEW u, u = <<c>> \o Tail(s)
  PROVE  Planned(u) /\ u # <<>> /\ u[1] = c /\ Alike(s, u)
<1> DEFINE t == Tail(s)
<1>1. t \in Seq(TypedCalls) /\ Len(t) = Len(s) - 1 /\ Len(s) \in Nat /\ Len(t) \in Nat
  BY TailItems
<1>2. \A i \in 1 .. Len(t) : i + 1 \in 1 .. Len(s) /\ t[i] = s[i + 1]
  BY TailItems
<1>3. 1 \in 1 .. Len(s)
  OBVIOUS
<1>4. u = <<c>> \o t
  OBVIOUS
<1> HIDE DEF t
<1>5. /\ u \in Seq(TypedCalls) /\ Len(u) = Len(t) + 1 /\ u[1] = c
      /\ \A i \in 2 .. Len(t) + 1 : i - 1 \in 1 .. Len(t) /\ u[i] = t[i - 1]
  BY <1>1, <1>4, Prepended
<1>6. Len(u) = Len(s) /\ u # <<>>
  BY <1>1, <1>5
<1>7. \A i \in 1 .. Len(s) : i = 1 \/ u[i] = s[i]
  <2>1. SUFFICES ASSUME NEW i \in 1 .. Len(s), i # 1 PROVE u[i] = s[i]
    OBVIOUS
  <2>2. i \in 2 .. Len(t) + 1 /\ (i - 1) + 1 = i
    BY <1>1, <2>1
  <2> QED
    BY <1>2, <1>5, <2>2
<1>8. \A i \in 1 .. Len(s) : SameKind(s[i], u[i]) /\ (i # 1 => u[i] = s[i])
  BY <1>5, <1>7 DEF SameKind
<1>9. /\ (HasLate(u) <=> HasLate(s)) /\ (HasUser(u) <=> HasUser(s)) /\ (HasDrop(u) <=> HasDrop(s))
  BY <1>6, <1>8 DEF HasLate, HasUser, HasDrop, SameKind
<1>12. \A do \in {"archive", "drop", "saved"} : Has(u, do) <=> Has(s, do)
  BY <1>6, <1>8 DEF Has, SameKind
<1>13. \A f \in Files : HasFile(u, f) <=> HasFile(s, f)
  BY <1>6, <1>8 DEF HasFile, SameKind
<1>10. InOrder(u)
  <2>1. SUFFICES ASSUME NEW i \in 1 .. Len(u), NEW j \in 1 .. Len(u), i < j
                 PROVE  ~Clash(u[i], u[j])
    BY DEF InOrder
  <2>2. ~Clash(s[i], s[j])
    BY <1>6, <2>1 DEF Planned, InOrder
  <2> QED
    BY <1>6, <1>8, <2>1, <2>2 DEF Clash, SameKind, Roots
<1>11. ASSUME NEW i \in 2 .. Len(u)
       PROVE  u[i].do # "copy"
  <2>1. i \in 2 .. Len(s) /\ i \in 1 .. Len(s) /\ i # 1
    BY <1>1, <1>6, <1>11
  <2> QED
    BY <1>8, <2>1 DEF Planned
<1> QED
  BY <1>5, <1>6, <1>9, <1>10, <1>11, <1>12, <1>13 DEF Planned, Alike

-----------------------------------------------------------------------------
(* The invariant.                                                          *)

EventsOf(r) == live[r].has["events"]
EventsAt(r) == live[r].at["events"]

\* Nothing has happened that the code does not guard against, but for a copy
\* in use, or a valid one, that was moved to the trash.
Quiet == lapses \subseteq {"stale trash"}

\* The copies of one root, and those of them whose events can be read.
Of(r) == {live[r], archive[r]}
Shown(r) == {dir \in Of(r) : Good(dir.has["events"])}

\* Once the user-local events are written, they hold what p works with, or
\* cleaning up has moved them to the trash.
Stored(p) ==
  /\ memory[p] \subseteq EventsOf("user") \cup Trashed
  /\ Good(EventsOf("user")) => EventsOf("user") = memory[p]

\* A process goes by its plan: it imports what it then writes over, a copy
\* being imported is not readable yet, what is removed is not missed, and only
\* a process that leaves archives.
OnPlan(p) ==
  /\ Planned(todo[p])
  /\ HasLate(todo[p]) /\ ~HasUser(todo[p]) => Stored(p)
  /\ HasDrop(todo[p]) => saved = {}
  /\ Has(todo[p], "archive") => phase[p] = "leaving"
  /\ todo[p] # <<>> =>
       /\ todo[p][1].do \in {"import", "copy"} => HasUser(todo[p])
       /\ todo[p][1].do = "copy" /\ "events" \in todo[p][1].file => ~Good(EventsOf("user"))

\* While a process writes, and before it reads what it unarchived, the durable
\* copy is not in the archive.
NotHalf(p) ==
  phase[p] = "locked" \/ (todo[p] # <<>> /\ todo[p][1].do # "unarchive")
    => ~Exists(archive["user"])

\* Once a process has read the conversation it knows all that was saved.
InWork(p) == phase[p] # "restoring" \/ (todo[p] # <<>> /\ todo[p][1].do \in FileCalls)
Knows(p) == InWork(p) => saved \subseteq memory[p] \cup Trashed

Mind(p) == OnPlan(p) /\ NotHalf(p) /\ Knows(p)
MindPart(p) == Busy(p) => Mind(p)

\* Before the first edit there is none anywhere.
Unedited ==
  /\ saved = {}
  /\ \A p \in Procs : memory[p] \cap Edits = {}
  /\ \A r \in Roots : \A d \in Of(r) : d.has["events"] \cap Edits = {}

\* The durable copy is in one place.
Once == Exists(archive["user"]) => ~Exists(live["user"])

\* A projection with newer events holds what the durable copy holds.
ProjectionIsNewest ==
  \A u \in Shown("user"), w \in Shown("workspace") :
    w.at["events"] > u.at["events"] => u.has["events"] \cap Edits \subseteq w.has["events"] \cup Trashed

\* The durable copy holds all that was saved; while it cannot be read, the
\* projection does.
DiskIsLatest ==
  /\ \A u \in Shown("user") : saved \subseteq u.has["events"] \cup Trashed
  /\ Shown("user") = {} =>
       \A w \in Shown("workspace") : saved \subseteq w.has["events"] \cup Trashed

LatestOK ==
  /\ \A p \in Procs : MindPart(p)
  /\ edits = 0 => Unedited
  /\ Once /\ DiskIsLatest /\ ProjectionIsNewest

LatestInv == Quiet => LatestOK

-----------------------------------------------------------------------------
(* Steps that leave the events where they are.                             *)

EventsKept ==
  /\ archive' = archive
  /\ \A r \in Roots : /\ live'[r].has["events"] = EventsOf(r)
                      /\ live'[r].at["events"] = EventsAt(r)

\* No copy can be read that could not be read before.
NoMore ==
  \A r \in Roots : \A d \in Shown(r)' : \E e \in Shown(r) :
    d.has["events"] = e.has["events"] /\ d.at["events"] = e.at["events"]

\* No edit is in a file that cannot be read.
LEMMA EditsInGood ==
  /\ NothingKnown \cap Edits = {} /\ LegacyMark \notin Edits
  /\ \A c \in Content : /\ ~Good(c) => c \cap Edits = {}
                        /\ Good(c) => c \subseteq Edits \cup {LegacyMark}
  /\ {} \cap Edits = {} /\ Absent \cap Edits = {}
<1>1. Edits \subseteq Nat \ {0}
  BY ConstantsAssumption DEF Edits
<1>2. -1 \notin Nat /\ -2 \notin Nat
  OBVIOUS
<1>3. -1 \notin Edits /\ -2 \notin Edits /\ 0 \notin Edits
  BY <1>1, <1>2
<1> QED
  BY <1>3 DEF NothingKnown, Torn, Absent, Good, Content, LegacyMark

\* What the events files hold.
LEMMA EventsContent ==
  ASSUME DiskOK, NEW r \in Roots
  PROVE  /\ EventsOf(r) \in Content /\ EventsAt(r) \in Nat
         /\ ~Exists(live[r]) => EventsOf(r) = Absent
         /\ \A d \in Of(r) : /\ d \in Dir /\ d.has["events"] \in Content /\ d.at["events"] \in Nat
                             /\ Good(d.has["events"]) => d \in Copies
<1>1. ASSUME NEW d \in Of(r)
      PROVE  /\ d \in Dir /\ d.has["events"] \in Content /\ d.at["events"] \in Nat
             /\ ~Exists(d) => d.has["events"] = Absent
             /\ Good(d.has["events"]) => d \in Copies
  <2>1. d \in Dir /\ (~Exists(d) => d = NoDir) /\ d \in Places
    BY DEF DiskOK, NothingHidden, Of, Places
  <2>2. d.has["events"] \in Content /\ d.at["events"] \in Nat
    BY <2>1, DirShape DEF Files
  <2>3. ~Exists(d) => d.has["events"] = Absent
    BY <2>1, EmptyDirs DEF Files
  <2> QED
    BY <2>1, <2>2, <2>3 DEF Good, Copies
<1>2. live[r] \in Of(r)
  BY DEF Of
<1> QED
  BY <1>1, <1>2 DEF EventsOf, EventsAt

\* No events are in a directory that is not there.
LEMMA NoEvents == NoDir.has["events"] = Absent /\ ~Good(NoDir.has["events"])
BY EmptyDirs DEF Good, Files

\* If the durable copy is not in the archive, it is the live one.
LEMMA LiveOnly ==
  archive["user"] = NoDir
    => /\ \A d \in Shown("user") : d = live["user"] /\ Good(EventsOf("user"))
       /\ Good(EventsOf("user")) => live["user"] \in Shown("user")
BY NoEvents DEF Shown, Of, EventsOf

\* The same after a step.
LEMMA LiveOnlyNext ==
  archive'["user"] = NoDir
    => /\ \A d \in Shown("user")' : d = live'["user"] /\ Good(EventsOf("user")')
       /\ Good(EventsOf("user")') => live'["user"] \in Shown("user")'
BY NoEvents DEF Shown, Of, EventsOf

\* The disk's part of the invariant, if copies only become fewer and what the
\* last durable one held is in the trash.
LEMMA Fewer ==
  ASSUME DiskIsLatest, ProjectionIsNewest, NoMore, Trashed \subseteq Trashed', saved' \subseteq saved,
         Shown("user") # {} /\ Shown("user")' = {} => saved' \subseteq Trashed'
  PROVE  DiskIsLatest' /\ ProjectionIsNewest'
<1>1. \A r \in Roots : \A d \in Shown(r)' : \E e \in Shown(r) :
        d.has["events"] = e.has["events"] /\ d.at["events"] = e.at["events"]
  BY DEF NoMore
<1>2. "user" \in Roots /\ "workspace" \in Roots
  BY DEF Roots
<1>3. DiskIsLatest'
  <2>1. ASSUME NEW u \in Shown("user")'
        PROVE  saved' \subseteq u.has["events"] \cup Trashed'
    BY <1>1, <1>2 DEF DiskIsLatest
  <2>2. ASSUME Shown("user")' = {}, NEW w \in Shown("workspace")'
        PROVE  saved' \subseteq w.has["events"] \cup Trashed'
    <3>1. CASE Shown("user") = {}
      BY <1>1, <1>2, <3>1 DEF DiskIsLatest
    <3>2. CASE Shown("user") # {}
      BY <2>2, <3>2
    <3> QED
      BY <3>1, <3>2
  <2> QED
    BY <2>1, <2>2 DEF DiskIsLatest
<1>4. ProjectionIsNewest'
  <2>1. SUFFICES ASSUME NEW u \in Shown("user")', NEW w \in Shown("workspace")',
                        w.at["events"] > u.at["events"]
                 PROVE  u.has["events"] \cap Edits \subseteq w.has["events"] \cup Trashed'
    BY DEF ProjectionIsNewest
  <2>2. PICK x \in Shown("user") : u.has["events"] = x.has["events"] /\ u.at["events"] = x.at["events"]
    BY <1>1, <1>2
  <2>3. PICK y \in Shown("workspace") : w.has["events"] = y.has["events"] /\ w.at["events"] = y.at["events"]
    BY <1>1, <1>2
  <2>4. y.at["events"] > x.at["events"]
    BY <2>1, <2>2, <2>3
  <2>5. x.has["events"] \cap Edits \subseteq y.has["events"] \cup Trashed
    BY <2>4 DEF ProjectionIsNewest
  <2> QED
    BY <2>2, <2>3, <2>5
<1> QED
  BY <1>3, <1>4

\* Copies whose events stay.
LEMMA KeptShown ==
  ASSUME EventsKept
  PROVE  /\ NoMore /\ (Shown("user")' = {} => Shown("user") = {})
         /\ EventsOf("user")' = EventsOf("user") /\ EventsOf("workspace")' = EventsOf("workspace")
         /\ \A r \in Roots : \A d \in Of(r)' : \E e \in Of(r) : d.has["events"] = e.has["events"]
<1>1. ASSUME NEW r \in Roots
      PROVE  /\ \A d \in Shown(r)' : \E e \in Shown(r) :
                  d.has["events"] = e.has["events"] /\ d.at["events"] = e.at["events"]
             /\ Shown(r)' = {} => Shown(r) = {}
             /\ EventsOf(r)' = EventsOf(r)
             /\ \A d \in Of(r)' : \E e \in Of(r) : d.has["events"] = e.has["events"]
  BY DEF EventsKept, Shown, Of, EventsOf, EventsAt
<1>2. "user" \in Roots /\ "workspace" \in Roots
  BY DEF Roots
<1> QED
  BY <1>1, <1>2 DEF NoMore

\* The disk's part of the invariant.
LEMMA KeptEvents ==
  ASSUME LatestOK, EventsKept, trash' = trash, saved' = saved \/ saved' = {}
  PROVE  DiskIsLatest' /\ ProjectionIsNewest'
<1>1. Trashed' = Trashed
  BY DEF Trashed
<1> QED
  BY <1>1, KeptShown, Fewer DEF LatestOK

\* Before the first edit.
LEMMA KeptUnedited ==
  ASSUME Unedited, EventsKept, saved' = {}, \A q \in Procs : memory'[q] \cap Edits = {}
  PROVE  Unedited'
<1>1. \A r \in Roots : \A d \in Of(r)' : \E e \in Of(r) : d.has["events"] = e.has["events"]
  BY KeptShown
<1>2. \A r \in Roots : \A d \in Of(r)' : d.has["events"] \cap Edits = {}
  BY <1>1 DEF Unedited
<1> QED
  BY <1>2 DEF Unedited

\* A process that does nothing.
LEMMA KeptMind ==
  ASSUME LatestOK, NEW q \in Procs, phase'[q] = phase[q], todo'[q] = todo[q],
         memory'[q] = memory[q], EventsKept, trash' = trash, saved' = saved \/ saved' = {}
  PROVE  MindPart(q)'
<1>1. EventsOf("user")' = EventsOf("user") /\ archive' = archive
  BY KeptShown DEF EventsKept
<1>2. Trashed' = Trashed
  BY DEF Trashed
<1>3. Stored(q) => Stored(q)'
  BY <1>1, <1>2 DEF Stored
<1>4. Busy(q) => OnPlan(q) /\ NotHalf(q) /\ Knows(q)
  BY DEF LatestOK, MindPart, Mind
<1>5. OnPlan(q) => OnPlan(q)'
  BY <1>1, <1>3 DEF OnPlan
<1>6. NotHalf(q) => NotHalf(q)'
  BY <1>1 DEF NotHalf
<1>7. Knows(q) => Knows(q)'
  BY <1>2 DEF Knows, InWork
<1>8. Busy(q)' = Busy(q)
  BY DEF Busy
<1> QED
  BY <1>4, <1>5, <1>6, <1>7, <1>8 DEF MindPart, Mind

\* One process changes, and nothing that can be read does.
LEMMA MindLatest ==
  ASSUME LatestOK, NEW p \in Procs, Only(p), EventsKept, trash' = trash,
         saved' = saved \/ saved' = {}, MindPart(p)', Once',
         edits' = 0 => edits = 0, edits' = 0 => memory'[p] \cap Edits = {}
  PROVE  LatestOK'
<1>1. \A q \in Procs \ {p} : MindPart(q)'
  BY KeptMind DEF Only
<1>2. DiskIsLatest' /\ ProjectionIsNewest'
  BY KeptEvents
<1>3. edits' = 0 => Unedited'
  <2>1. SUFFICES ASSUME edits' = 0 PROVE Unedited'
    OBVIOUS
  <2>2. Unedited
    BY <2>1 DEF LatestOK
  <2>3. saved' = {} /\ \A q \in Procs : memory'[q] \cap Edits = {}
    BY <2>1, <2>2 DEF Unedited, Only
  <2> QED
    BY <2>2, <2>3, KeptUnedited
<1> QED
  BY <1>1, <1>2, <1>3 DEF LatestOK

-----------------------------------------------------------------------------
(* Starting up, locking and leaving.                                       *)

\* Steps of the startup.
LEMMA IdleLatest ==
  ASSUME LatestOK, NEW p \in Procs, Only(p), ~Busy(p)', EventsKept,
         UNCHANGED <<trash, saved, edits>>, Once', edits = 0 => memory'[p] \cap Edits = {}
  PROVE  LatestOK'
<1>1. MindPart(p)'
  BY DEF MindPart
<1> QED
  BY <1>1, MindLatest

\* A process that leaves.
LEMMA OffLatest ==
  ASSUME TypeInv, LatestOK, NEW p \in Procs, Off(p), todo' = [todo EXCEPT ![p] = <<>>],
         UNCHANGED <<disk, saved, edits>>
  PROVE  LatestOK'
<1>1. phase'[p] = "off" /\ memory'[p] = NothingKnown /\ Only(p)
  BY DEF Off, TypeInv, MindOK, TodosOK, Only
<1>2. EventsKept /\ trash' = trash /\ Once'
  BY DEF disk, EventsKept, EventsOf, EventsAt, LatestOK, Once
<1>3. ~Busy(p)' /\ memory'[p] \cap Edits = {}
  BY <1>1, EditsInGood DEF Busy
<1> QED
  BY <1>1, <1>2, <1>3, IdleLatest

\* What a plan needs to be begun.
LEMMA PlanBegun ==
  ASSUME NEW p, NEW s, todo'[p] = s, Neat(s), HasUser(s) \/ (~HasLate(s) /\ NoImport(s)),
         HasDrop(s) => saved' = {}, Has(s, "archive") => phase'[p] = "leaving"
  PROVE  OnPlan(p)'
<1>1. s # <<>> => 1 \in 1 .. Len(s)
  BY DEF Neat
<1>2. s # <<>> => s[1].do # "copy"
  BY <1>1 DEF Neat
<1>3. s # <<>> /\ s[1].do \in {"import", "copy"} => HasUser(s)
  BY <1>1, <1>2 DEF NoImport
<1> QED
  BY <1>2, <1>3, NeatPlanned DEF OnPlan

\* A process begins to carry out the plan s, with m.
LEMMA BeginLatest ==
  ASSUME TypeInv, LatestOK, NEW p \in Procs, ~Exists(archive["user"]),
         NEW m, memory' = [memory EXCEPT ![p] = m],
         NEW x \in {"locked", "leaving", "restoring"}, phase' = [phase EXCEPT ![p] = x],
         NEW s, todo' = [todo EXCEPT ![p] = s], Neat(s), HasUser(s) \/ (~HasLate(s) /\ NoImport(s)),
         HasDrop(s) => saved' = {}, Has(s, "archive") => x = "leaving",
         saved' = saved \/ saved' = {}, UNCHANGED disk,
         x # "restoring" \/ s # <<>> => saved' \subseteq m \cup Trashed,
         edits' = 0 => edits = 0, edits' = 0 => m \cap Edits = {}
  PROVE  LatestOK'
<1>1. phase'[p] = x /\ memory'[p] = m /\ todo'[p] = s /\ Only(p)
  BY DEF TypeInv, MindOK, TodosOK, Only
<1>2. EventsKept /\ trash' = trash /\ archive' = archive /\ Once'
  BY DEF disk, EventsKept, EventsOf, EventsAt, LatestOK, Once
<1>3. OnPlan(p)'
  BY <1>1, PlanBegun
<1>4. NotHalf(p)'
  BY <1>2 DEF NotHalf
<1>5. Knows(p)'
  BY <1>1, <1>2 DEF Knows, InWork, Trashed
<1>6. MindPart(p)'
  BY <1>3, <1>4, <1>5 DEF MindPart, Mind
<1> QED
  BY <1>1, <1>2, <1>6, MindLatest

\* A process that locks the conversation, with m.
LEMMA LockLatest ==
  ASSUME TypeInv, LatestOK, NEW p \in Procs, NEW m, memory' = [memory EXCEPT ![p] = m],
         phase' = [phase EXCEPT ![p] = "locked"], todo[p] = <<>>, todo' = todo,
         UNCHANGED <<disk, saved, edits>>, ~Exists(archive["user"]),
         saved \subseteq m \cup Trashed, edits = 0 => m \cap Edits = {}
  PROVE  LatestOK'
<1>1. todo' = [todo EXCEPT ![p] = <<>>]
  BY DEF TypeInv, TodosOK
<1> DEFINE s == <<>>
<1>2. Neat(s) /\ ~HasLate(s) /\ ~HasDrop(s) /\ ~Has(s, "archive") /\ ~Has(s, "import")
  BY NoPlan
<1>3. todo' = [todo EXCEPT ![p] = s]
  BY <1>1
<1> HIDE DEF s
<1>4. NoImport(s)
  BY <1>2 DEF NoImport, Has
<1> QED
  BY <1>2, <1>3, <1>4, BeginLatest

\* One copy changes.
LEMMA LiveEvents ==
  ASSUME DiskOK, NEW r \in Roots, NEW d, Set(r, d)
  PROVE  /\ live'[r] = d /\ \A q \in Roots \ {r} : live'[q] = live[q]
         /\ archive' = archive /\ d.has["events"] = EventsOf(r) /\ d.at["events"] = EventsAt(r)
              => EventsKept
<1>1. live'[r] = d /\ \A q \in Roots \ {r} : live'[q] = live[q]
  BY DEF Set, DiskOK
<1> QED
  BY <1>1 DEF EventsKept, EventsOf, EventsAt

\* No copy changes.
LEMMA SameEvents == ASSUME live' = live, archive' = archive PROVE EventsKept
BY DEF EventsKept, EventsOf, EventsAt

\* A process starts.
LEMMA StartLatest ==
  ASSUME TypeInv, LatestOK, NEW p \in Procs, Start(p)
  PROVE  LatestOK'
<1>1. /\ UNCHANGED <<live, archive, trash, memory, saved, edits>> /\ phase[p] = "off"
      /\ phase' = [phase EXCEPT ![p] = "starting"] /\ todo' = [todo EXCEPT ![p] = Startup(p)]
  BY DEF Start, disk
<1>2. Only(p) /\ phase'[p] = "starting"
  BY <1>1 DEF Only, TypeInv, MindOK, TodosOK
<1>3. ~Busy(p)' /\ Once'
  BY <1>1, <1>2 DEF Busy, LatestOK, Once
<1>4. edits = 0 => memory'[p] \cap Edits = {}
  BY <1>1 DEF LatestOK, Unedited
<1> QED
  BY <1>1, <1>2, <1>3, <1>4, SameEvents, IdleLatest

\* A step of the startup that leaves the files where they are.
LEMMA StartupLatest ==
  ASSUME LatestOK, NEW p \in Procs, Only(p), ~Busy(p)', memory' = memory, live' = live,
         UNCHANGED <<archive, trash, saved, edits>>
  PROVE  LatestOK'
<1>1. Once' /\ (edits = 0 => memory'[p] \cap Edits = {})
  BY DEF LatestOK, Once, Unedited
<1> QED
  BY <1>1, SameEvents, IdleLatest

\* Leftovers are removed.
LEMMA CheckLatest ==
  ASSUME Inv, TypeInv, LatestOK, NEW p \in Procs, Check(p)
  PROVE  LatestOK'
<1> DEFINE r == Current(p).root
<1>1. r \in Roots
  BY NextCall DEF Check
<1>2. ~Busy(p)
  BY IdleAt DEF Check, StartupCalls
<1>3. /\ UNCHANGED <<archive, trash, lock, phase, memory, saved, lapses, edits>> /\ Proceed(p)
      /\ live' = live \/ Set(r, [live[r] EXCEPT !.tmp = {}])
  BY DEF Check, bounds
<1>4. Only(p) /\ ~Busy(p)'
  BY <1>2, <1>3 DEF Only, Proceed, Busy, TypeInv, TodosOK
<1>5. CASE live' = live
  BY <1>3, <1>4, <1>5, StartupLatest
<1>6. CASE Set(r, [live[r] EXCEPT !.tmp = {}])
  <2> DEFINE d == [live[r] EXCEPT !.tmp = {}]
  <2>1. live[r] \in Dir
    BY <1>1 DEF TypeInv, DiskOK
  <2>2. d.has = live[r].has /\ d.at = live[r].at /\ d.there = live[r].there
    BY <2>1, CleanedShape
  <2>3. Set(r, d)
    BY <1>6
  <2> HIDE DEF d, r
  <2>4. live'[r] = d /\ (\A q \in Roots \ {r} : live'[q] = live[q]) /\ EventsKept
    BY <1>1, <1>3, <2>2, <2>3, LiveEvents DEF TypeInv, EventsOf, EventsAt
  <2>5. Once'
    BY <1>1, <1>3, <2>2, <2>4 DEF LatestOK, Once, Exists, Roots
  <2>6. edits = 0 => memory'[p] \cap Edits = {}
    BY <1>3 DEF LatestOK, Unedited
  <2> QED
    BY <1>3, <1>4, <2>4, <2>5, <2>6, IdleLatest
<1> QED
  BY <1>3, <1>5, <1>6

\* An invalid copy is to be trashed.
LEMMA ProbeLatest ==
  ASSUME Inv, TypeInv, LatestOK, NEW p \in Procs, Probe(p)
  PROVE  LatestOK'
<1>1. ~Busy(p)
  BY IdleAt DEF Probe, StartupCalls
<1>2. /\ UNCHANGED <<disk, lock, phase, memory, saved, lapses, edits>>
      /\ todo' = todo \/ \E s : todo' = [todo EXCEPT ![p] = s]
  BY DEF Probe, bounds
<1>3. Only(p) /\ ~Busy(p)'
  BY <1>1, <1>2 DEF Only, Busy, TypeInv, TodosOK
<1> QED
  BY <1>2, <1>3, StartupLatest DEF disk

\* The conversation is found or not.
LEMMA IndexLatest ==
  ASSUME Inv, TypeInv, LatestOK, NEW p \in Procs, Index(p)
  PROVE  LatestOK'
<1>1. /\ UNCHANGED <<disk, lock, memory, saved, lapses, edits>> /\ Proceed(p)
      /\ \E x \in {"found", "missing"} : phase' = [phase EXCEPT ![p] = x]
  BY DEF Index, bounds
<1>2. Only(p) /\ ~Busy(p)'
  BY <1>1 DEF Only, Proceed, Busy, TypeInv, MindOK, TodosOK
<1> QED
  BY <1>1, <1>2, StartupLatest DEF disk

\* Only what the disk holds is read.
LEMMA LoadedFrom ==
  ASSUME Loaded # NothingKnown
  PROVE  /\ Loaded = Newer({"base", "events"}).has["events"] \ {LegacyMark}
         /\ Loadable(Newer({"base", "events"}))
         /\ Newer({"base", "events"}) \in {live["user"], live["workspace"]}
         /\ \E r \in Roots : Loaded = EventsOf(r) \ {LegacyMark}
<1> DEFINE d == Newer({"base", "events"})
<1>1. Loadable(d) /\ Loaded = d.has["events"] \ {LegacyMark}
  BY DEF Loaded
<1>2. d \in {live["user"], live["workspace"]}
  BY DEF Newer
<1> HIDE DEF d
<1>3. \E r \in Roots : Loaded = EventsOf(r) \ {LegacyMark}
  BY <1>1, <1>2 DEF EventsOf, Roots
<1> QED
  BY <1>1, <1>2, <1>3 DEF d

\* Before the first edit none is read.
LEMMA NothingRead == ASSUME Unedited PROVE Loaded \cap Edits = {}
<1>1. CASE Loaded = NothingKnown
  BY <1>1, EditsInGood
<1>2. CASE Loaded # NothingKnown
  <2>1. PICK r \in Roots : Loaded = EventsOf(r) \ {LegacyMark}
    BY <1>2, LoadedFrom
  <2>2. EventsOf(r) \cap Edits = {}
    BY DEF Unedited, Of, EventsOf
  <2> QED
    BY <2>1, <2>2
<1> QED
  BY <1>1, <1>2

\* The conversation is read early.
LEMMA EagerLoadLatest ==
  ASSUME Inv, TypeInv, LatestOK, NEW p \in Procs, EagerLoad(p)
  PROVE  LatestOK'
<1>1. ~Busy(p)
  BY IdleAt DEF EagerLoad, StartupCalls
<1>2. /\ UNCHANGED <<live, archive, trash, phase, saved, edits>> /\ Proceed(p)
      /\ memory' = [memory EXCEPT ![p] = Loaded]
  BY DEF EagerLoad, disk, bounds
<1>3. Only(p) /\ ~Busy(p)' /\ memory'[p] = Loaded
  BY <1>1, <1>2 DEF Only, Proceed, Busy, TypeInv, MindOK, TodosOK
<1>4. edits = 0 => memory'[p] \cap Edits = {}
  BY <1>3, NothingRead DEF LatestOK
<1>5. Once'
  BY <1>2 DEF LatestOK, Once
<1> QED
  BY <1>2, <1>3, <1>4, <1>5, SameEvents, IdleLatest

\* Cleaning up may move away what another process works with: the trash keeps it.
LEMMA TrashLatest ==
  ASSUME Inv, TypeInv, LatestOK, NEW p \in Procs, Trash(p)
  PROVE  LatestOK'
<1>0. At(p, {"trash"})
  BY DEF Trash
<1>1. PICK r \in Roots : r = Current(p).root
  BY <1>0, NextCall
<1>2. ~Busy(p)
  BY IdleAt DEF Trash, StartupCalls
<1>3. /\ UNCHANGED <<archive, lock, phase, memory, saved, edits>> /\ Proceed(p) /\ Set(r, NoDir)
      /\ trash' = IF Exists(live[r]) THEN trash \cup {live[r]} ELSE trash
  BY <1>1 DEF Trash, bounds
<1>5. live'[r] = NoDir /\ \A q \in Roots \ {r} : live'[q] = live[q]
  BY <1>1, <1>3, LiveEvents DEF TypeInv
<1>6. /\ EventsOf(r)' = Absent /\ ~Good(EventsOf(r)')
      /\ \A q \in Roots \ {r} : EventsOf(q)' = EventsOf(q)
  BY <1>5, NoEvents DEF EventsOf
<1>7. Trashed' = Trashed \cup (IF Exists(live[r]) THEN EventsOf(r) ELSE {})
  BY <1>3 DEF Trashed, EventsOf
<1>8. /\ ~Exists(live[r]) => EventsOf(r) = Absent
      /\ \A q \in Roots : EventsOf(q) \in Content
  BY <1>1, EventsContent DEF TypeInv
<1>9. ASSUME NEW c, c \subseteq EventsOf(r) \cup Trashed, c \subseteq Edits
      PROVE  c \subseteq Trashed'
  <2>1. CASE Exists(live[r])
    BY <1>7, <1>9, <2>1
  <2>2. CASE ~Exists(live[r])
    <3>1. EventsOf(r) \cap Edits = {}
      BY <1>1, <1>8, <2>2, EditsInGood
    <3> QED
      BY <1>7, <1>9, <3>1
  <2> QED
    BY <2>1, <2>2
<1>10. saved \subseteq Edits /\ Trashed \subseteq Trashed'
  BY <1>7 DEF TypeInv, MindOK
<1>11. ASSUME NEW q \in Procs, Stored(q), memory[q] \in SUBSET Edits
       PROVE  Stored(q)'
  <2>1. CASE r = "user"
    <3>1. memory[q] \subseteq Trashed'
      BY <1>9, <1>11, <2>1 DEF Stored
    <3> QED
      BY <1>3, <1>6, <2>1, <3>1 DEF Stored
  <2>2. CASE r # "user"
    <3>1. EventsOf("user")' = EventsOf("user")
      BY <1>6, <2>2 DEF Roots
    <3> QED
      BY <1>3, <1>7, <1>11, <3>1 DEF Stored
  <2> QED
    BY <2>1, <2>2
<1>12. Only(p) /\ ~Busy(p)'
  BY <1>2, <1>3 DEF Only, Proceed, Busy, TypeInv, TodosOK
<1>13. ASSUME NEW q \in Procs, q # p
       PROVE  MindPart(q)'
  <2>1. /\ phase'[q] = phase[q] /\ todo'[q] = todo[q] /\ memory'[q] = memory[q]
    BY <1>12, <1>13 DEF Only
  <2>2. SUFFICES ASSUME Busy(q) PROVE Mind(q)'
    BY <2>1 DEF Busy, MindPart
  <2>3. OnPlan(q) /\ NotHalf(q) /\ Knows(q)
    BY <2>2 DEF LatestOK, MindPart, Mind
  <2>4. HasLate(todo[q]) => memory[q] \in SUBSET Edits
    <3>1. CASE Works(q)
      BY <3>1 DEF Works
    <3>2. CASE Restores(q)
      BY <3>2, RestoresPlanned DEF Restores
    <3> QED
      BY <2>2, <3>1, <3>2 DEF Inv, ProcInv, Working
  <2>5. OnPlan(q)'
    <3>1. HasLate(todo[q]) /\ ~HasUser(todo[q]) => Stored(q)'
      BY <1>11, <2>3, <2>4 DEF OnPlan
    <3>2. Good(EventsOf("user")') => Good(EventsOf("user"))
      BY <1>6 DEF Roots
    <3> QED
      BY <1>3, <2>1, <2>3, <3>1, <3>2 DEF OnPlan
  <2>6. NotHalf(q)'
    BY <1>3, <2>1, <2>3 DEF NotHalf
  <2>7. Knows(q)'
    BY <1>3, <1>10, <2>1, <2>3 DEF Knows, InWork
  <2> QED
    BY <2>5, <2>6, <2>7 DEF Mind
<1>14. MindPart(p)'
  BY <1>12 DEF MindPart
<1>15. edits' = 0 => Unedited'
  <2>1. \A q \in Roots : \A d \in Of(q)' : d \in Of(q) \/ d = NoDir
    BY <1>3, <1>5 DEF Of
  <2>2. NoDir.has["events"] \cap Edits = {}
    BY NoEvents, EditsInGood
  <2> QED
    BY <1>3, <2>1, <2>2 DEF LatestOK, Unedited
<1>16. Once'
  BY <1>3, <1>5, EmptyDirs DEF LatestOK, Once, Roots
<1>17. NoMore
  BY <1>3, <1>5, NoEvents DEF NoMore, Shown, Of
<1>18. Shown("user") # {} /\ Shown("user")' = {} => saved \subseteq Trashed'
  <2>1. SUFFICES ASSUME Shown("user") # {}, Shown("user")' = {} PROVE saved \subseteq Trashed'
    OBVIOUS
  <2>2. PICK u \in Shown("user") : saved \subseteq u.has["events"] \cup Trashed
    BY <2>1 DEF LatestOK, DiskIsLatest
  <2>3. u = live["user"] /\ r = "user"
    BY <1>3, <1>5, <2>1 DEF Shown, Of, Roots
  <2> QED
    BY <1>9, <1>10, <2>2, <2>3 DEF EventsOf
<1>19. DiskIsLatest' /\ ProjectionIsNewest'
  BY <1>3, <1>10, <1>17, <1>18, Fewer DEF LatestOK
<1> QED
  BY <1>13, <1>14, <1>15, <1>16, <1>19 DEF LatestOK

\* The time of one file.
LEMMA TimeOfEvents == ASSUME NEW d, d.at["events"] \in Nat PROVE TimeOf(d, {"events"}) = d.at["events"]
<1> DEFINE S == {d.at[f] : f \in {"events"}}
           t == d.at["events"]
<1>1. S = {t}
  OBVIOUS
<1>2. TimeOf(d, {"events"}) = Latest(S)
  BY DEF TimeOf
<1> HIDE DEF S, t
<1>3. t <= t
  BY DEF t
<1>4. Latest(S) = t
  BY <1>1, <1>3 DEF Latest
<1> QED
  BY <1>2, <1>4 DEF t

\* The copy that is read is the latest, if it is not chosen by another file's
\* time and the durable copy is not in the archive.
LEMMA LatestRead ==
  ASSUME TypeInv, DiskIsLatest, ProjectionIsNewest, Loaded # NothingKnown, ~Misleading,
         ~Exists(archive["user"])
  PROVE  saved \subseteq Loaded \cup Trashed
<1> DEFINE d == Newer({"base", "events"})
<1>1. Loaded = d.has["events"] \ {LegacyMark} /\ Loadable(d) /\ d \in {live["user"], live["workspace"]}
  BY LoadedFrom
<1>2. d = Newer({"events"})
  BY DEF Misleading
<1> HIDE DEF d
<1>3. Good(d.has["events"])
  BY <1>1 DEF Loadable
<1>4. saved \subseteq Edits /\ LegacyMark \notin Edits
  BY EditsInGood DEF TypeInv, MindOK
<1>5. SUFFICES saved \subseteq d.has["events"] \cup Trashed
  BY <1>1, <1>4
<1>6. archive["user"] = NoDir
  BY DEF TypeInv, DiskOK, NothingHidden, Roots
<1>7. /\ \A x \in Shown("user") : x = live["user"] /\ Good(EventsOf("user"))
      /\ Good(EventsOf("user")) => live["user"] \in Shown("user")
  BY <1>6, LiveOnly
<1>8. \A r \in Roots : EventsOf(r) \in Content /\ EventsAt(r) \in Nat
                       /\ (~Exists(live[r]) => EventsOf(r) = Absent)
  BY EventsContent DEF TypeInv
<1>9. CASE d = live["user"]
  BY <1>3, <1>7, <1>9 DEF DiskIsLatest, EventsOf
<1>10. CASE d = live["workspace"] /\ d # live["user"]
  <2>1. live["workspace"] \in Shown("workspace")
    BY <1>3, <1>10 DEF Shown, Of
  <2>2. CASE ~Good(EventsOf("user"))
    <3>1. Shown("user") = {}
      BY <1>7, <2>2
    <3> QED
      BY <1>10, <2>1, <3>1 DEF DiskIsLatest
  <2>3. CASE Good(EventsOf("user"))
    <3>1. Exists(live["user"]) /\ Exists(live["workspace"])
      BY <1>3, <1>8, <1>10, <2>3 DEF Good, Roots, EventsOf
    <3>2. ~(TimeOf(live["user"], {"events"}) >= TimeOf(live["workspace"], {"events"}))
      BY <1>2, <1>10, <3>1 DEF Newer
    <3>3. TimeOf(live["user"], {"events"}) = EventsAt("user")
      BY <1>8, TimeOfEvents DEF EventsAt, Roots
    <3>4. TimeOf(live["workspace"], {"events"}) = EventsAt("workspace")
      BY <1>8, TimeOfEvents DEF EventsAt, Roots
    <3>5. EventsAt("workspace") > EventsAt("user")
      BY <1>8, <3>2, <3>3, <3>4 DEF Roots
    <3>6. EventsOf("user") \cap Edits \subseteq EventsOf("workspace") \cup Trashed
      BY <1>7, <2>1, <2>3, <3>5 DEF ProjectionIsNewest, EventsOf, EventsAt
    <3>7. saved \subseteq EventsOf("user") \cup Trashed
      BY <1>7, <2>3 DEF DiskIsLatest, EventsOf
    <3> QED
      BY <1>4, <1>10, <3>6, <3>7 DEF EventsOf
  <2> QED
    BY <2>2, <2>3
<1> QED
  BY <1>1, <1>9, <1>10

\* The lock is taken with the newest copy, or there is nothing to read.
LEMMA AcquireLatest ==
  ASSUME TypeInv, LatestOK, NEW p \in Procs, Acquire(p), Quiet'
  PROVE  LatestOK'
<1> DEFINE content == IF memory[p] = NothingKnown THEN Loaded ELSE memory[p]
<1>1. todo[p] = <<>> /\ UNCHANGED <<disk, todo, saved, edits>>
  BY DEF Acquire, Ready, bounds
<1>2. todo' = [todo EXCEPT ![p] = <<>>]
  BY <1>1 DEF TypeInv, TodosOK
<1>3. CASE content = NothingKnown
  <2>1. Off(p)
    BY <1>3 DEF Acquire
  <2> QED
    BY <1>1, <1>2, <2>1, OffLatest
<1>4. CASE content # NothingKnown
  <2>1. /\ lapses' = lapses \cup Noted("stale copy", Misleading)
                            \cup Noted("stale read", content # Loaded)
                            \cup Noted("half restored", Exists(archive["user"]))
                            \cup Noted("unlocked", Restoring # {})
        /\ memory' = [memory EXCEPT ![p] = content]
        /\ phase' = [phase EXCEPT ![p] = "locked"]
    BY <1>4 DEF Acquire
  <2> HIDE DEF content
  <2>2. ~Misleading /\ content = Loaded /\ ~Exists(archive["user"])
    BY <2>1 DEF Quiet, Noted
  <2>3. saved \subseteq content \cup Trashed
    BY <1>4, <2>2, LatestRead DEF LatestOK
  <2>4. edits = 0 => content \cap Edits = {}
    BY <2>2, NothingRead DEF LatestOK
  <2> QED
    BY <1>1, <2>1, <2>2, <2>3, <2>4, LockLatest
<1> QED
  BY <1>3, <1>4

\* A new conversation has nothing that could be missed.
LEMMA CreateLatest ==
  ASSUME TypeInv, LatestOK, NEW p \in Procs, Create(p)
  PROVE  LatestOK'
<1>1. /\ todo[p] = <<>> /\ UNCHANGED <<disk, todo, saved, edits>> /\ edits = 0 /\ Copies = {}
      /\ memory' = [memory EXCEPT ![p] = {}] /\ phase' = [phase EXCEPT ![p] = "locked"]
  BY DEF Create, Ready, bounds
<1>2. saved = {}
  BY <1>1 DEF LatestOK, Unedited
<1>3. ~Exists(archive["user"])
  BY <1>1 DEF Copies, Places, Roots
<1>4. {} \cap Edits = {} /\ saved \subseteq {} \cup Trashed
  BY <1>2
<1> QED
  BY <1>1, <1>3, <1>4, LockLatest

\* A process ends.
LEMMA LeaveLatest ==
  ASSUME TypeInv, LatestOK, NEW p \in Procs, Leave(p)
  PROVE  LatestOK'
<1>1. todo[p] = <<>> /\ Off(p) /\ UNCHANGED <<disk, todo, saved, edits>>
  BY DEF Leave, bounds
<1>2. todo' = [todo EXCEPT ![p] = <<>>]
  BY <1>1 DEF TypeInv, TodosOK
<1> QED
  BY <1>1, <1>2, OffLatest

\* A process is killed.
LEMMA CrashLatest ==
  ASSUME TypeInv, LatestOK, NEW p \in Procs, Crash(p)
  PROVE  LatestOK'
<1>1. Off(p) /\ todo' = [todo EXCEPT ![p] = <<>>] /\ UNCHANGED <<disk, saved, edits>>
  BY DEF Crash
<1> QED
  BY <1>1, OffLatest

\* The lock's holder begins to carry out the plan s.
LEMMA HolderBegins ==
  ASSUME TypeInv, LatestOK, NEW p \in Procs, phase[p] = "locked",
         NEW m, memory' = [memory EXCEPT ![p] = m], memory[p] \subseteq m,
         NEW x \in {"locked", "leaving"}, phase' = [phase EXCEPT ![p] = x],
         NEW s, todo' = [todo EXCEPT ![p] = s], Neat(s), HasUser(s) \/ (~HasLate(s) /\ NoImport(s)),
         HasDrop(s) => saved' = {}, Has(s, "archive") => x = "leaving",
         saved' = saved \/ saved' = {}, UNCHANGED disk,
         edits' = 0 => edits = 0 /\ m = memory[p]
  PROVE  LatestOK'
<1>1. NotHalf(p) /\ Knows(p)
  BY DEF LatestOK, MindPart, Mind, Busy
<1>2. ~Exists(archive["user"]) /\ saved \subseteq memory[p] \cup Trashed
  BY <1>1 DEF NotHalf, Knows, InWork
<1>3. edits' = 0 => m \cap Edits = {}
  BY DEF LatestOK, Unedited
<1> QED
  BY <1>2, <1>3, BeginLatest

\* A save begins.
LEMMA SaveLatest ==
  ASSUME TypeInv, LatestOK, NEW p \in Procs, Save(p)
  PROVE  LatestOK'
<1> DEFINE s == Persist(projected[p])
<1>1. /\ phase[p] = "locked" /\ UNCHANGED <<disk, phase, saved>>
      /\ todo' = [todo EXCEPT ![p] = s]
  BY DEF Save, Begins, Ready
<1>2. PICK made \in {edits} \cup ({edits + 1} \cap Edits) :
        /\ edits' = made
        /\ memory' = [memory EXCEPT ![p] = IF made = edits THEN @ ELSE @ \cup {made}]
  BY DEF Save
<1> DEFINE m == IF made = edits THEN memory[p] ELSE memory[p] \cup {made}
<1>3. memory' = [memory EXCEPT ![p] = m] /\ memory[p] \subseteq m
  BY <1>2 DEF TypeInv, MindOK
<1>4. edits' = 0 => edits = 0 /\ m = memory[p]
  BY <1>2, EditsInGood DEF LegacyMark
<1>5. Neat(s) /\ HasUser(s) /\ ~HasDrop(s) /\ ~Has(s, "archive")
  BY PersistPlan
<1>6. phase' = [phase EXCEPT ![p] = "locked"]
  BY <1>1, LockedMemory
<1> HIDE DEF m, s
<1> QED
  BY <1>1, <1>3, <1>4, <1>5, <1>6, HolderBegins

\* The projection is turned on or off.
LEMMA ProjectLatest ==
  ASSUME TypeInv, LatestOK, NEW p \in Procs, Project(p)
  PROVE  LatestOK'
<1> DEFINE s == Persist(~projected[p])
<1>1. /\ phase[p] = "locked" /\ UNCHANGED <<disk, phase, saved, memory, edits>>
      /\ todo' = [todo EXCEPT ![p] = s]
  BY DEF Project, Begins, Ready
<1>2. Neat(s) /\ HasUser(s) /\ ~HasDrop(s) /\ ~Has(s, "archive")
  BY PersistPlan
<1>3. /\ phase' = [phase EXCEPT ![p] = "locked"]
      /\ memory' = [memory EXCEPT ![p] = memory[p]]
  BY <1>1, LockedMemory
<1> HIDE DEF s
<1> QED
  BY <1>1, <1>2, <1>3, HolderBegins

\* Archiving begins with a save.
LEMMA ArchiveLatest ==
  ASSUME TypeInv, LatestOK, NEW p \in Procs, Archive(p)
  PROVE  LatestOK'
<1> DEFINE s == Persist(projected[p]) \o Moves
<1>1. /\ phase[p] = "locked" /\ UNCHANGED <<disk, saved, memory, edits>>
      /\ phase' = [phase EXCEPT ![p] = "leaving"] /\ todo' = [todo EXCEPT ![p] = s]
  BY DEF Archive, Begins, Ready
<1>2. Neat(s) /\ HasUser(s) /\ ~HasDrop(s)
  BY MovesPlan
<1>3. memory' = [memory EXCEPT ![p] = memory[p]]
  BY <1>1, LockedMemory
<1> HIDE DEF s
<1> QED
  BY <1>1, <1>2, <1>3, HolderBegins

\* From the removal on nothing is missed.
LEMMA RemoveLatest ==
  ASSUME TypeInv, LatestOK, NEW p \in Procs, Remove(p)
  PROVE  LatestOK'
<1> DEFINE s == <<In("drop", "workspace"), In("drop", "user")>>
<1>1. /\ phase[p] = "locked" /\ UNCHANGED <<disk, memory, edits>> /\ saved' = {}
      /\ phase' = [phase EXCEPT ![p] = "leaving"] /\ todo' = [todo EXCEPT ![p] = s]
  BY DEF Remove, Begins, Ready
<1>2. Neat(s) /\ ~HasLate(s) /\ NoImport(s) /\ ~Has(s, "archive")
  BY RemovalPlan
<1>3. memory' = [memory EXCEPT ![p] = memory[p]]
  BY <1>1, LockedMemory
<1> HIDE DEF s
<1> QED
  BY <1>1, <1>2, <1>3, HolderBegins

-----------------------------------------------------------------------------
(* Unarchiving.                                                            *)

\* What is left of a plan of unarchiving, as long as nothing was read.
LEMMA RestoringMind ==
  ASSUME NEW p, todo'[p] \in RestorePlans, phase'[p] = "restoring",
         todo'[p] # <<>> /\ todo'[p][1].do = "restore" => ~Exists(archive'["user"])
  PROVE  MindPart(p)'
<1>1. /\ Planned(todo'[p]) /\ ~HasLate(todo'[p]) /\ ~HasDrop(todo'[p]) /\ ~Has(todo'[p], "archive")
      /\ todo'[p] # <<>> => todo'[p][1].do \in RestoreCalls
  BY RestoresPlanned, RestoreHead
<1>2. OnPlan(p)'
  BY <1>1 DEF OnPlan, RestoreCalls
<1>3. NotHalf(p)'
  BY <1>1 DEF NotHalf, RestoreCalls
<1>4. Knows(p)'
  BY <1>1 DEF Knows, InWork, RestoreCalls, FileCalls
<1> QED
  BY <1>2, <1>3, <1>4 DEF MindPart, Mind

\* A process begins to unarchive.
LEMMA UnarchiveLatest ==
  ASSUME TypeInv, LatestOK, NEW p \in Procs, Unarchive(p)
  PROVE  LatestOK'
<1> DEFINE s == <<In("unarchive", "workspace"), In("unarchive", "user")>>
<1>1. /\ UNCHANGED <<live, archive, trash, memory, saved, edits>>
      /\ phase' = [phase EXCEPT ![p] = "restoring"] /\ todo' = [todo EXCEPT ![p] = s]
  BY DEF Unarchive, Begins, disk
<1>2. s \in RestorePlans /\ s[1].do = "unarchive"
  BY DEF RestorePlans, In, Call
<1>3. phase'[p] = "restoring" /\ todo'[p] = s /\ Only(p)
  <2> HIDE DEF s
  <2> QED
    BY <1>1 DEF TypeInv, MindOK, TodosOK, Only
<1> HIDE DEF s
<1>4. MindPart(p)'
  BY <1>2, <1>3, RestoringMind
<1>5. Once' /\ (edits' = 0 => memory'[p] \cap Edits = {})
  BY <1>1 DEF LatestOK, Once, Unedited
<1> QED
  BY <1>1, <1>3, <1>4, <1>5, SameEvents, MindLatest

\* What was unarchived is written back as it was read.
LEMMA RestoreLatest ==
  ASSUME Inv, TypeInv, LatestOK, NEW p \in Procs, Restore(p), Quiet'
  PROVE  LatestOK'
<1> DEFINE s == IF Loaded = NothingKnown THEN <<>> ELSE Persist(projected[p])
<1>1. /\ At(p, {"restore"}) /\ UNCHANGED <<disk, phase, saved, edits>>
      /\ memory' = [memory EXCEPT ![p] = Loaded]
      /\ lapses' = lapses \cup Noted("stale copy", Loaded # NothingKnown /\ Misleading)
  BY DEF Restore, Lapse, bounds
<1>2. Busy(p) /\ Restores(p) /\ todo[p] # <<>> /\ todo[p][1].do = "restore"
  <2>1. Busy(p) /\ Restores(p)
    BY <1>1, RestoringAt DEF RestoreCalls
  <2>2. todo[p] # <<>> /\ todo[p][1].do \in {"restore"}
    BY <1>1, HeadCall
  <2> QED
    BY <2>1, <2>2
<1>3. todo' = [todo EXCEPT ![p] = s]
  BY RestoreTodo
<1>4. ~Exists(archive["user"])
  BY <1>2 DEF LatestOK, MindPart, Mind, NotHalf
<1>5. phase' = [phase EXCEPT ![p] = "restoring"]
  BY <1>1, <1>2 DEF Restores, TypeInv, MindOK
<1>6. edits = 0 => Loaded \cap Edits = {}
  BY NothingRead DEF LatestOK
<1>7. CASE Loaded = NothingKnown
  <2>1. s = <<>>
    BY <1>7
  <2> HIDE DEF s
  <2>2. Neat(s) /\ ~HasLate(s) /\ ~HasDrop(s) /\ ~Has(s, "archive") /\ ~Has(s, "import")
    BY <2>1, NoPlan
  <2>3. NoImport(s)
    BY <2>2 DEF NoImport, Has
  <2>4. UNCHANGED disk
    BY <1>1
  <2> QED
    BY <1>1, <1>3, <1>4, <1>5, <1>6, <2>1, <2>2, <2>3, <2>4, BeginLatest
<1>8. CASE Loaded # NothingKnown
  <2>1. s = Persist(projected[p])
    BY <1>8
  <2> HIDE DEF s
  <2>2. Neat(s) /\ HasUser(s) /\ ~HasDrop(s) /\ ~Has(s, "archive")
    BY <2>1, PersistPlan
  <2>3. ~Misleading
    BY <1>1, <1>8 DEF Quiet, Noted
  <2>4. saved \subseteq Loaded \cup Trashed
    BY <1>4, <1>8, <2>3, LatestRead DEF LatestOK
  <2> QED
    BY <1>1, <1>3, <1>4, <1>5, <1>6, <2>2, <2>4, BeginLatest
<1> QED
  BY <1>7, <1>8

\* Every edit on the disk was there before, or p has it.
NothingNew(p) ==
  \A r \in Roots : \A d \in Of(r)' :
    \/ d.has["events"] \cap Edits \subseteq memory[p]
    \/ \E q \in Roots : \E e \in Of(q) : d.has["events"] \cap Edits \subseteq e.has["events"]

\* Before the first edit nothing new is none.
LEMMA StillUnedited ==
  ASSUME Unedited, NEW p \in Procs, NothingNew(p), memory' = memory,
         saved' = saved \/ saved' = saved \cup (memory[p] \cap Edits)
  PROVE  Unedited'
<1>1. memory[p] \cap Edits = {} /\ \A r \in Roots : \A d \in Of(r) : d.has["events"] \cap Edits = {}
  BY DEF Unedited
<1>2. ASSUME NEW r \in Roots, NEW d \in Of(r)'
      PROVE  d.has["events"] \cap Edits = {}
  <2>1. CASE d.has["events"] \cap Edits \subseteq memory[p]
    BY <1>1, <2>1
  <2>2. ASSUME NEW q \in Roots, NEW e \in Of(q), d.has["events"] \cap Edits \subseteq e.has["events"]
        PROVE  d.has["events"] \cap Edits = {}
    BY <1>1, <2>2
  <2> QED
    BY <1>2, <2>1, <2>2 DEF NothingNew
<1> QED
  BY <1>1, <1>2 DEF Unedited

\* What a copy of root r is after a step that makes nothing readable.
OldOrBlank(r) ==
  \A d \in Of(r)' :
    \/ ~Good(d.has["events"]) /\ d.has["events"] \cap Edits = {}
    \/ \E e \in Of(r) : d.has["events"] = e.has["events"] /\ d.at["events"] = e.at["events"]

\* If it is so for one root and nothing happens to the other.
LEMMA OldDisk ==
  ASSUME LatestOK, NEW r \in Roots, OldOrBlank(r),
         \A q \in Roots \ {r} : live'[q] = live[q] /\ archive'[q] = archive[q],
         trash' = trash, saved' = saved, NEW p,
         r = "user" /\ Shown("user") # {} /\ Shown("user")' = {} => saved = {}
  PROVE  DiskIsLatest' /\ ProjectionIsNewest' /\ NothingNew(p)
<1>1. \A q \in Roots \ {r} : Of(q)' = Of(q) /\ Shown(q)' = Shown(q)
  BY DEF Of, Shown
<1>2. ASSUME NEW q \in Roots, NEW d \in Shown(q)'
      PROVE  \E e \in Shown(q) : d.has["events"] = e.has["events"] /\ d.at["events"] = e.at["events"]
  BY <1>1, <1>2 DEF OldOrBlank, Shown
<1>3. NoMore
  BY <1>2 DEF NoMore
<1>4. Shown("user") # {} /\ Shown("user")' = {} => saved' \subseteq Trashed'
  <2>1. CASE r = "user"
    BY <2>1
  <2>2. CASE r # "user"
    BY <1>1, <2>2 DEF Roots
  <2> QED
    BY <2>1, <2>2
<1>5. Trashed' = Trashed
  BY DEF Trashed
<1>6. DiskIsLatest' /\ ProjectionIsNewest'
  BY <1>3, <1>4, <1>5, Fewer DEF LatestOK
<1>7. ASSUME NEW q \in Roots, NEW d \in Of(q)'
      PROVE  \/ d.has["events"] \cap Edits \subseteq memory[p]
             \/ \E s \in Roots : \E e \in Of(s) : d.has["events"] \cap Edits \subseteq e.has["events"]
  <2>1. CASE q = r
    <3>1. CASE d.has["events"] \cap Edits = {}
      BY <3>1
    <3>2. ASSUME NEW e \in Of(r), d.has["events"] = e.has["events"]
          PROVE  \E s \in Roots : \E x \in Of(s) : d.has["events"] \cap Edits \subseteq x.has["events"]
      BY <3>2
    <3> QED
      BY <1>7, <2>1, <3>1, <3>2 DEF OldOrBlank
  <2>2. CASE q # r
    BY <1>1, <1>7, <2>2
  <2> QED
    BY <2>1, <2>2
<1>8. NothingNew(p)
  BY <1>7 DEF NothingNew
<1> QED
  BY <1>6, <1>8

\* Where a copy of the projection is in the way, it goes file by file.
TakesFile(f) ==
  \/ archive' = archive /\ live' = [live EXCEPT !["workspace"] = Without(live["workspace"], f)]
  \/ live' = live /\ archive' = [archive EXCEPT !["workspace"] = Without(archive["workspace"], f)]

\* What is left of its events.
LEMMA TakenFile ==
  ASSUME NEW d \in Dir, NEW f \in Files
  PROVE  \/ ~Good(Without(d, f).has["events"]) /\ Without(d, f).has["events"] \cap Edits = {}
         \/ Without(d, f).has["events"] = d.has["events"] /\ Without(d, f).at["events"] = d.at["events"]
<1> DEFINE e == Without(d, f)
<1>1. \A g \in Files : /\ e.has[g] = IF g = f THEN Absent ELSE d.has[g]
                       /\ e.at[g] = IF g = f THEN 0 ELSE d.at[g]
  BY RemovedShape
<1> HIDE DEF e
<1>2. "events" \in Files
  BY DEF Files
<1>3. CASE f = "events"
  <2>1. e.has["events"] = Absent
    BY <1>1, <1>2, <1>3
  <2> QED
    BY <2>1, EditsInGood DEF Good, e
<1>4. CASE f # "events"
  <2>1. e.has["events"] = d.has["events"] /\ e.at["events"] = d.at["events"]
    BY <1>1, <1>2, <1>4
  <2> QED
    BY <2>1 DEF e
<1> QED
  BY <1>3, <1>4

\* A file of it goes.
LEMMA TookFile ==
  ASSUME TypeInv, LatestOK, NEW f \in Files, TakesFile(f), trash' = trash, saved' = saved, NEW p
  PROVE  DiskIsLatest' /\ ProjectionIsNewest' /\ NothingNew(p) /\ Once'
<1>1. "workspace" \in Roots /\ \A q \in Roots \ {"workspace"} : q = "user"
  BY DEF Roots
<1>2. \A q \in Roots \ {"workspace"} : live'[q] = live[q] /\ archive'[q] = archive[q]
  BY DEF TakesFile, TypeInv, DiskOK
<1>3. live["workspace"] \in Dir /\ archive["workspace"] \in Dir
  BY <1>1 DEF TypeInv, DiskOK
<1>4. OldOrBlank("workspace")
  <2>1. CASE archive' = archive /\ live' = [live EXCEPT !["workspace"] = Without(live["workspace"], f)]
    <3> DEFINE e == Without(live["workspace"], f)
    <3>1. live'["workspace"] = e
      BY <1>1, <2>1 DEF TypeInv, DiskOK
    <3>2. \/ ~Good(e.has["events"]) /\ e.has["events"] \cap Edits = {}
          \/ e.has["events"] = live["workspace"].has["events"] /\ e.at["events"] = live["workspace"].at["events"]
      BY <1>3, TakenFile
    <3> HIDE DEF e
    <3> QED
      BY <2>1, <3>1, <3>2 DEF OldOrBlank, Of
  <2>2. CASE live' = live /\ archive' = [archive EXCEPT !["workspace"] = Without(archive["workspace"], f)]
    <3> DEFINE e == Without(archive["workspace"], f)
    <3>1. archive'["workspace"] = e
      BY <1>1, <2>2 DEF TypeInv, DiskOK
    <3>2. \/ ~Good(e.has["events"]) /\ e.has["events"] \cap Edits = {}
          \/ e.has["events"] = archive["workspace"].has["events"] /\ e.at["events"] = archive["workspace"].at["events"]
      BY <1>3, TakenFile
    <3> HIDE DEF e
    <3> QED
      BY <2>2, <3>1, <3>2 DEF OldOrBlank, Of
  <2> QED
    BY <2>1, <2>2 DEF TakesFile
<1>5. DiskIsLatest' /\ ProjectionIsNewest' /\ NothingNew(p)
  BY <1>1, <1>2, <1>4, OldDisk
<1>6. Once'
  BY <1>2 DEF LatestOK, Once, Roots
<1> QED
  BY <1>5, <1>6

\* A directory is renamed to a place where nothing is left.
Renames(r) ==
  \/ /\ live' = [live EXCEPT ![r] = NoDir] /\ archive' = [archive EXCEPT ![r] = live[r]]
     /\ Written(archive[r]) = {}
  \/ /\ archive' = [archive EXCEPT ![r] = NoDir] /\ live' = [live EXCEPT ![r] = archive[r]]
     /\ Written(live[r]) = {}

\* It is in the other place then, and as it was.
LEMMA MovedCopy ==
  ASSUME TypeInv, LatestOK, NEW r \in Roots, Renames(r), trash' = trash, saved' = saved, NEW p
  PROVE  DiskIsLatest' /\ ProjectionIsNewest' /\ NothingNew(p) /\ Once'
<1>1. \A q \in Roots \ {r} : live'[q] = live[q] /\ archive'[q] = archive[q]
  BY DEF Renames, TypeInv, DiskOK
<1>2. PICK d \in Of(r), e \in Of(r) : Of(r)' = {NoDir, d} /\ Of(r) = {d, e} /\ Written(e) = {}
  <2>1. CASE /\ live' = [live EXCEPT ![r] = NoDir] /\ archive' = [archive EXCEPT ![r] = live[r]]
             /\ Written(archive[r]) = {}
    <3>1. live'[r] = NoDir /\ archive'[r] = live[r]
      BY <2>1 DEF TypeInv, DiskOK
    <3> QED
      BY <2>1, <3>1 DEF Of
  <2>2. CASE /\ archive' = [archive EXCEPT ![r] = NoDir] /\ live' = [live EXCEPT ![r] = archive[r]]
             /\ Written(live[r]) = {}
    <3>1. archive'[r] = NoDir /\ live'[r] = archive[r]
      BY <2>2 DEF TypeInv, DiskOK
    <3> QED
      BY <2>2, <3>1 DEF Of
  <2> QED
    BY <2>1, <2>2 DEF Renames
<1>3. ~Good(e.has["events"])
  BY <1>2 DEF Written, Files, Good
<1>4. NoDir.has["events"] \cap Edits = {} /\ ~Good(NoDir.has["events"])
  BY NoEvents, EditsInGood
<1>5. OldOrBlank(r)
  BY <1>2, <1>4 DEF OldOrBlank
<1>6. Shown(r)' = Shown(r)
  BY <1>2, <1>3, <1>4 DEF Shown
<1>7. DiskIsLatest' /\ ProjectionIsNewest' /\ NothingNew(p)
  BY <1>1, <1>5, <1>6, OldDisk
<1>8. Once'
  <2>1. CASE r = "user"
    <3>1. live'[r] = NoDir \/ archive'[r] = NoDir
      BY DEF Renames, TypeInv, DiskOK
    <3> QED
      BY <2>1, <3>1, EmptyDirs DEF Once
  <2>2. CASE r # "user"
    BY <1>1, <2>2 DEF LatestOK, Once, Roots
  <2> QED
    BY <2>1, <2>2
<1> QED
  BY <1>7, <1>8

\* Restoring comes right behind the durable copy.
LEMMA RestoreIsNext ==
  ASSUME NEW s \in RestorePlans, s # <<>>, Tail(s) # <<>>, Tail(s)[1].do = "restore"
  PROVE  s[1].root = "user"
<1> DEFINE w == In("unarchive", "workspace")
           u == In("unarchive", "user")
           c == In("restore", "user")
<1>1. s \in {<<w, u>>, <<u>>, <<u, c>>, <<c>>, <<>>}
  BY DEF RestorePlans
<1>2. u.root = "user" /\ u.do # "restore"
  BY DEF In, Call
<1> HIDE DEF w, u, c
<1>3. CASE s = <<w, u>>
  <2> DEFINE t == Tail(s)
  <2>1. t = <<u>> /\ t[1].do = "restore"
    BY <1>3, Tails
  <2> HIDE DEF t
  <2>2. t[1] = u
    BY <2>1
  <2> QED
    BY <1>2, <2>1, <2>2
<1>4. CASE s = <<u, c>>
  BY <1>2, <1>4
<1>5. CASE s = <<u>> \/ s = <<c>>
  BY <1>5, Tails
<1> QED
  BY <1>1, <1>3, <1>4, <1>5

\* One root is taken from the archive.
LEMMA FromArchiveLatest ==
  ASSUME Inv, TypeInv, LatestOK, NEW p \in Procs, FromArchive(p)
  PROVE  LatestOK'
<1>1. At(p, {"unarchive"}) /\ KeepsMind(p) /\ trash' = trash /\ saved' = saved
  BY DEF FromArchive
<1>2. Busy(p) /\ Restores(p)
  BY <1>1, RestoringAt DEF RestoreCalls
<1>3. PICK r \in Roots : Root(p) = r /\ todo[p] # <<>> /\ todo[p][1].do \in {"unarchive"} /\ r = todo[p][1].root
  BY <1>1, HeadCall DEF Root
<1>4. phase' = phase /\ memory' = memory /\ edits' = edits
  BY <1>1 DEF KeepsMind, bounds
<1>5. phase'[p] = "restoring" /\ todo[p] \in RestorePlans
  BY <1>2, <1>4 DEF Restores
\* How the calls go on.
<1>6. ASSUME NEW s \in RestorePlans, todo' = [todo EXCEPT ![p] = s],
             s # <<>> /\ s[1].do = "restore" => ~Exists(archive'["user"]),
             DiskIsLatest', ProjectionIsNewest', NothingNew(p), Once'
      PROVE  LatestOK'
  <2>1. todo'[p] = s /\ \A q \in Procs \ {p} : todo'[q] = todo[q]
    BY <1>6 DEF TypeInv, TodosOK
  <2>2. MindPart(p)'
    BY <1>5, <1>6, <2>1, RestoringMind
  <2>3. \A q \in Procs \ {p} : ~Busy(q)
    BY <1>2, BusyAlone
  <2>4. \A q \in Procs \ {p} : ~Busy(q)'
    BY <1>4, <2>3 DEF Busy
  <2>5. \A q \in Procs : MindPart(q)'
    BY <2>2, <2>4 DEF MindPart
  <2>6. edits' = 0 => Unedited'
    BY <1>1, <1>4, <1>6, StillUnedited DEF LatestOK
  <2> QED
    BY <1>6, <2>5, <2>6 DEF LatestOK
<1>7. CASE ~Exists(archive[r])
  <2>1. Proceed(p) /\ live' = live /\ archive' = archive
    BY <1>3, <1>7 DEF FromArchive, MoveOver
  <2> DEFINE s == Tail(todo[p])
  <2>2. s \in RestorePlans /\ todo' = [todo EXCEPT ![p] = s]
    BY <1>3, <1>5, <2>1, RestTail DEF Proceed
  <2>3. s # <<>> /\ s[1].do = "restore" => todo[p][1].root = "user"
    BY <1>3, <1>5, RestoreIsNext
  <2> HIDE DEF s
  <2>4. s # <<>> /\ s[1].do = "restore" => ~Exists(archive'["user"])
    BY <1>3, <1>7, <2>1, <2>3
  <2>5. DiskIsLatest' /\ ProjectionIsNewest' /\ NothingNew(p)
    <3>1. OldOrBlank(r) /\ Shown("user")' = Shown("user")
      BY <2>1 DEF OldOrBlank, Of, Shown
    <3> QED
      BY <1>1, <1>3, <2>1, <3>1, OldDisk
  <2>6. Once'
    BY <2>1 DEF LatestOK, Once
  <2> QED
    BY <1>6, <2>2, <2>4, <2>5, <2>6
<1>8. CASE Exists(archive[r]) /\ Written(live[r]) # {}
  <2>1. /\ archive' = archive /\ todo' = todo
        /\ \E f \in Written(live[r]) :
             live' = [live EXCEPT ![r].has[f] = Absent, ![r].at[f] = 0]
    BY <1>3, <1>8 DEF FromArchive, MoveOver
  <2>2. r = "workspace"
    <3>1. Exists(live[r])
      BY <1>3, <1>8, WrittenExists DEF TypeInv
    <3> QED
      BY <1>3, <1>8, <3>1 DEF LatestOK, Once, Roots
  <2>3. PICK f \in Files : TakesFile(f)
    <3>1. PICK f \in Written(live["workspace"]) :
            live' = [live EXCEPT !["workspace"].has[f] = Absent, !["workspace"].at[f] = 0]
      BY <2>1, <2>2
    <3>2. live \in [Roots -> Dir] /\ "workspace" \in Roots
      BY DEF TypeInv, DiskOK, Roots
    <3>3. live' = [live EXCEPT !["workspace"] = Without(live["workspace"], f)]
      BY <3>1, <3>2 DEF Without
    <3> QED
      BY <2>1, <3>1, <3>3 DEF TakesFile, Written
  <2>4. todo' = [todo EXCEPT ![p] = todo[p]]
    BY <2>1 DEF TypeInv, TodosOK
  <2> QED
    BY <1>1, <1>3, <1>5, <1>6, <2>3, <2>4, TookFile
<1>9. CASE Exists(archive[r]) /\ Written(live[r]) = {}
  <2>1. /\ live' = [live EXCEPT ![r] = archive[r]]
        /\ archive' = [archive EXCEPT ![r] = NoDir]
        /\ todo' = [todo EXCEPT ![p] = RestOfMove(p)]
    BY <1>3, <1>9 DEF FromArchive, MoveOver, RestOfMove
  <2>2. Renames(r)
    BY <1>9, <2>1 DEF Renames
  <2>3. RestOfMove(p) \in RestorePlans
    BY RestLists DEF RestorePlans
  <2>4. RestOfMove(p) # <<>> /\ RestOfMove(p)[1].do = "restore" => ~Exists(archive'["user"])
    <3>1. CASE r = "workspace"
      <4>1. RestOfMove(p) = <<In("unarchive", "user"), In("restore", "user")>>
        BY <1>3, <3>1, RestLists
      <4>2. RestOfMove(p)[1].do = "unarchive"
        BY <4>1 DEF In, Call
      <4> QED
        BY <4>2
    <3>2. CASE r = "user"
      <4>1. archive'["user"] = NoDir
        BY <1>3, <2>1, <3>2 DEF TypeInv, DiskOK
      <4> QED
        BY <4>1, EmptyDirs
    <3> QED
      BY <1>3, <3>1, <3>2 DEF Roots
  <2> QED
    BY <1>1, <1>3, <1>6, <2>1, <2>2, <2>3, <2>4, MovedCopy
<1> QED
  BY <1>7, <1>8, <1>9

-----------------------------------------------------------------------------
(* The calls on files of a process that has read the conversation.         *)

\* The plan goes on with its next call.
LEMMA PlanProceeds ==
  ASSUME TypeInv, NEW p \in Procs, OnPlan(p), todo[p] # <<>>, Proceed(p), memory' = memory,
         phase' = phase, NEW c, c = todo[p][1], saved' = saved \/ c.do = "saved",
         \/ TakesUser(c)
         \/ HasUser(todo[p]) /\ ~UserEvents(c)
         \/ UserEvents(c) \/ Stored(p) => Stored(p)'
  PROVE  OnPlan(p)' /\ RestOf(todo[p], c, todo'[p])
<1> DEFINE s == todo[p]
           t == Tail(s)
<1>1. s \in Seq(TypedCalls) /\ todo'[p] = t
  BY DEF TypeInv, TodosOK, Proceed
<1>2. /\ Planned(s) /\ (HasLate(s) /\ ~HasUser(s) => Stored(p)) /\ (HasDrop(s) => saved = {})
      /\ Has(s, "archive") => phase[p] = "leaving"
  BY DEF OnPlan
<1>3. Planned(t) /\ RestOf(s, c, t)
  <2> HIDE DEF s
  <2> QED
    BY <1>1, <1>2, PlannedTail DEF s
<1>7. \/ TakesUser(c)
      \/ HasUser(s) /\ ~UserEvents(c)
      \/ UserEvents(c) \/ Stored(p) => Stored(p)'
  OBVIOUS
<1> HIDE DEF s, t
<1>4. HasLate(t) /\ ~HasUser(t) => Stored(p)'
  BY <1>2, <1>3, <1>7 DEF RestOf
<1>5. HasDrop(t) => saved' = {}
  BY <1>2, <1>3 DEF RestOf, Late
<1>6. t # <<>> => t[1].do \notin {"import", "copy"}
  BY <1>3 DEF RestOf
<1>8. Has(t, "archive") => phase'[p] = "leaving"
  BY <1>2, <1>3 DEF RestOf
<1> QED
  BY <1>1, <1>3, <1>4, <1>5, <1>6, <1>8 DEF OnPlan, s

\* It goes on with another call of the kind.
LEMMA PlanInstead ==
  ASSUME TypeInv, NEW p \in Procs, OnPlan(p), todo[p] # <<>>, memory' = memory, saved' = saved,
         phase' = phase,
         NEW c \in TypedCalls, SameKind(todo[p][1], c), Instead(p, <<c>>),
         c.do = "import" \/ c.do = "copy" => HasUser(todo[p]),
         c.do = "copy" /\ "events" \in c.file => ~Good(EventsOf("user")'),
         HasUser(todo[p]) \/ (Stored(p) => Stored(p)')
  PROVE  OnPlan(p)'
<1> DEFINE s == todo[p]
           u == <<c>> \o Tail(s)
<1>1. s \in Seq(TypedCalls) /\ todo'[p] = u
  BY DEF TypeInv, TodosOK, Instead
<1>2. /\ Planned(s) /\ (HasLate(s) /\ ~HasUser(s) => Stored(p)) /\ (HasDrop(s) => saved = {})
      /\ Has(s, "archive") => phase[p] = "leaving"
  BY DEF OnPlan
<1>3. Planned(u) /\ u # <<>> /\ u[1] = c /\ Alike(s, u)
  <2> DEFINE x == u
  <2>1. x = <<c>> \o Tail(s)
    OBVIOUS
  <2> HIDE DEF s, x
  <2>2. s # <<>> /\ Planned(s) /\ SameKind(s[1], c)
    BY <1>2 DEF s
  <2>3. Planned(x) /\ x # <<>> /\ x[1] = c /\ Alike(s, x)
    BY <1>1, <2>1, <2>2, PlannedReplace
  <2> QED
    BY <2>3 DEF x
<1> HIDE DEF u
<1>4. HasLate(u) /\ ~HasUser(u) => Stored(p)'
  BY <1>2, <1>3 DEF Alike
<1>5. Has(u, "archive") => phase'[p] = "leaving"
  BY <1>2, <1>3 DEF Alike
<1> QED
  BY <1>1, <1>2, <1>3, <1>4, <1>5 DEF OnPlan, Alike

\* The call is not over.
LEMMA PlanSame ==
  ASSUME NEW p \in Procs, OnPlan(p), todo[p] # <<>>, todo' = todo, memory' = memory, saved' = saved,
         phase' = phase, NEW c, c = todo[p][1],
         c.do = "copy" /\ "events" \in c.file => ~Good(EventsOf("user")'),
         (HasLate(todo[p]) /\ ~HasUser(todo[p])) /\ Stored(p) => Stored(p)'
  PROVE  OnPlan(p)'
BY DEF OnPlan

\* The plan is given up, but for the moves to the archive.
LEMMA PlanGivenUp ==
  ASSUME TypeInv, NEW p \in Procs, OnPlan(p), GiveUp(p), phase' = phase
  PROVE  OnPlan(p)'
<1>1. todo[p] \in Seq(TypedCalls)
  BY DEF TypeInv, TodosOK
<1>2. (todo'[p] = Moves /\ Has(todo[p], "archive")) \/ todo'[p] = <<>>
  <2>2. todo'[p] = IF \E i \in DOMAIN todo[p] : todo[p][i].do = "archive" THEN Moves ELSE <<>>
    BY DEF GiveUp, TypeInv, TodosOK
  <2>3. (\E i \in DOMAIN todo[p] : todo[p][i].do = "archive") => Has(todo[p], "archive")
    BY <1>1 DEF Has
  <2> QED
    BY <2>2, <2>3
<1>3. ASSUME NEW s, s = todo'[p]
      PROVE  OnPlan(p)'
  <2>1. Neat(s) /\ ~HasLate(s) /\ ~HasDrop(s) /\ (s = <<>> \/ NoImport(s))
    BY <1>2, <1>3, NoPlan, MovesPlan
  <2>2. s # <<>> => 1 \in 1 .. Len(s)
    BY <2>1 DEF Neat
  <2>3. s # <<>> => s[1].do \notin {"import", "copy"}
    BY <2>1, <2>2 DEF Neat, NoImport
  <2>4. Has(s, "archive") => phase'[p] = "leaving"
    <3>1. ~Has(<<>>, "archive")
      BY NoPlan
    <3> QED
      BY <1>2, <1>3, <3>1 DEF OnPlan
  <2> QED
    BY <1>3, <2>1, <2>3, <2>4, NeatPlanned DEF OnPlan
<1> QED
  BY <1>3

\* What a call starts from.
LEMMA WorkAt ==
  ASSUME Inv, TypeInv, LatestOK, NEW p \in Procs, NEW kinds \in SUBSET FileCalls, At(p, kinds),
         KeepsMind(p)
  PROVE  /\ Busy(p) /\ OnPlan(p) /\ todo[p] # <<>> /\ Current(p) = todo[p][1] /\ Root(p) \in Roots
         /\ todo[p][1].do \in kinds /\ memory[p] \in SUBSET Edits
         /\ memory' = memory /\ phase' = phase /\ edits' = edits
         /\ saved \subseteq memory[p] \cup Trashed /\ archive["user"] = NoDir
         /\ Proceed(p) \/ GiveUp(p) \/ todo' = todo \/ (\E calls : Instead(p, calls))
              => \A q \in Procs \ {p} : todo'[q] = todo[q]
<1>1. Busy(p) /\ Works(p) /\ todo[p] # <<>> /\ Current(p) = todo[p][1] /\ Root(p) \in Roots
      /\ todo[p][1].do \in kinds
  BY BusyHead
<1>2. OnPlan(p) /\ NotHalf(p) /\ Knows(p)
  BY <1>1 DEF LatestOK, MindPart, Mind
<1>3. memory[p] \in SUBSET Edits
  BY <1>1 DEF Works
<1>4. Proceed(p) \/ GiveUp(p) \/ todo' = todo \/ (\E calls : Instead(p, calls))
        => \A q \in Procs \ {p} : todo'[q] = todo[q]
  BY DEF Proceed, GiveUp, Instead, TypeInv, TodosOK
<1>5. todo[p][1].do # "unarchive" /\ todo[p][1].do \in FileCalls
  BY <1>1 DEF FileCalls
<1>6. saved \subseteq memory[p] \cup Trashed
  BY <1>1, <1>2, <1>5 DEF Knows, InWork
<1>7. archive["user"] = NoDir
  <2>1. ~Exists(archive["user"])
    BY <1>1, <1>2, <1>5 DEF NotHalf
  <2> QED
    BY <2>1 DEF TypeInv, DiskOK, NothingHidden, Roots
<1>8. memory' = memory /\ phase' = phase /\ edits' = edits
  BY DEF KeepsMind, bounds
<1> QED
  BY <1>1, <1>2, <1>3, <1>4, <1>6, <1>7, <1>8

\* A call keeps the invariant if it keeps the plan and the disk's part.
LEMMA WorkLatest ==
  ASSUME Inv, TypeInv, LatestOK, NEW p \in Procs, NEW kinds \in SUBSET FileCalls, At(p, kinds),
         KeepsMind(p), trash' = trash, \A q \in Procs \ {p} : todo'[q] = todo[q],
         saved' = saved \/ saved' = saved \cup memory[p],
         archive' = archive \/ (NotHalf(p)' /\ Once'),
         OnPlan(p)', ProjectionIsNewest', DiskIsLatest', NothingNew(p)
  PROVE  LatestOK'
<1>1. /\ Busy(p) /\ memory[p] \in SUBSET Edits /\ memory' = memory /\ phase' = phase /\ edits' = edits
      /\ saved \subseteq memory[p] \cup Trashed /\ archive["user"] = NoDir
  BY WorkAt
<1>2. NotHalf(p)' /\ Once'
  BY <1>1, EmptyDirs DEF NotHalf, Once
<1>3. Knows(p)'
  BY <1>1 DEF Knows, Trashed
<1>4. \A q \in Procs \ {p} : ~Busy(q)'
  BY <1>1, BusyAlone DEF Busy
<1>5. \A q \in Procs : MindPart(q)'
  BY <1>2, <1>3, <1>4 DEF MindPart, Mind
<1>6. edits' = 0 => Unedited'
  <2>1. saved' = saved \/ saved' = saved \cup (memory[p] \cap Edits)
    BY <1>1
  <2> QED
    BY <1>1, <2>1, StillUnedited DEF LatestOK
<1> QED
  BY <1>2, <1>5, <1>6 DEF LatestOK

\* A call that leaves the events as they are.
LEMMA KeptStored ==
  ASSUME EventsKept, trash' = trash, NEW p, memory' = memory
  PROVE  /\ EventsOf("user")' = EventsOf("user") /\ EventsOf("workspace")' = EventsOf("workspace")
         /\ Stored(p) => Stored(p)'
         /\ NothingNew(p)
<1>1. /\ EventsOf("user")' = EventsOf("user") /\ EventsOf("workspace")' = EventsOf("workspace")
      /\ \A r \in Roots : \A d \in Of(r)' : \E e \in Of(r) : d.has["events"] = e.has["events"]
  BY KeptShown
<1>2. Trashed' = Trashed
  BY DEF Trashed
<1>3. NothingNew(p)
  BY <1>1 DEF NothingNew
<1> QED
  BY <1>1, <1>2, <1>3 DEF Stored

\* ... with the next call to come, ...
LEMMA KeptProceeds ==
  ASSUME Inv, TypeInv, LatestOK, NEW p \in Procs, NEW kinds \in SUBSET FileCalls, At(p, kinds),
         KeepsMind(p), trash' = trash, saved' = saved, EventsKept, Proceed(p),
         UserEvents(todo[p][1]) => Stored(p)
  PROVE  LatestOK'
<1>1. /\ Busy(p) /\ OnPlan(p) /\ todo[p] # <<>> /\ memory' = memory /\ phase' = phase
      /\ \A q \in Procs \ {p} : todo'[q] = todo[q]
  BY WorkAt
<1>2. ProjectionIsNewest' /\ DiskIsLatest'
  BY KeptEvents
<1>3. NothingNew(p) /\ (Stored(p) => Stored(p)') /\ archive' = archive
  BY <1>1, KeptStored DEF EventsKept
<1> DEFINE c == todo[p][1]
<1>5. UserEvents(c) \/ Stored(p) => Stored(p)'
  BY <1>3
<1>6. c = todo[p][1]
  OBVIOUS
<1> HIDE DEF c
<1>7. OnPlan(p)'
  BY <1>1, <1>5, <1>6, PlanProceeds
<1> QED
  BY <1>1, <1>2, <1>3, <1>7, WorkLatest

\* ... with another call in its place, ...
LEMMA KeptInstead ==
  ASSUME Inv, TypeInv, LatestOK, NEW p \in Procs, NEW kinds \in SUBSET FileCalls, At(p, kinds),
         KeepsMind(p), trash' = trash, saved' = saved, EventsKept,
         NEW c \in TypedCalls, Instead(p, <<c>>), SameKind(todo[p][1], c), c.do # "import",
         c.do = "copy" => /\ todo[p][1].do \in {"import", "copy"}
                          /\ "events" \in c.file => ~Good(EventsOf("user"))
  PROVE  LatestOK'
<1>1. /\ Busy(p) /\ OnPlan(p) /\ todo[p] # <<>> /\ memory' = memory /\ phase' = phase
      /\ \A q \in Procs \ {p} : todo'[q] = todo[q]
  BY WorkAt
<1>2. ProjectionIsNewest' /\ DiskIsLatest'
  BY KeptEvents
<1>3. /\ EventsOf("user")' = EventsOf("user") /\ NothingNew(p) /\ archive' = archive
      /\ Stored(p) => Stored(p)'
  BY <1>1, KeptStored DEF EventsKept
<1>4. c.do = "import" \/ c.do = "copy" => HasUser(todo[p])
  BY <1>1 DEF OnPlan
<1>5. c.do = "copy" /\ "events" \in c.file => ~Good(EventsOf("user")')
  BY <1>3
<1>7. OnPlan(p)'
  BY <1>1, <1>3, <1>4, <1>5, PlanInstead
<1> QED
  BY <1>1, <1>2, <1>3, <1>7, WorkLatest

\* ... with the call not over, ...
LEMMA KeptSame ==
  ASSUME Inv, TypeInv, LatestOK, NEW p \in Procs, NEW kinds \in SUBSET FileCalls, At(p, kinds),
         KeepsMind(p), trash' = trash, saved' = saved, EventsKept, todo' = todo
  PROVE  LatestOK'
<1>1. /\ Busy(p) /\ OnPlan(p) /\ todo[p] # <<>> /\ memory' = memory /\ phase' = phase
      /\ \A q \in Procs \ {p} : todo'[q] = todo[q]
  BY WorkAt
<1>2. ProjectionIsNewest' /\ DiskIsLatest'
  BY KeptEvents
<1>3. /\ EventsOf("user")' = EventsOf("user") /\ NothingNew(p) /\ archive' = archive
      /\ Stored(p) => Stored(p)'
  BY <1>1, KeptStored DEF EventsKept
<1>4. ASSUME NEW c, c = todo[p][1]
      PROVE  c.do = "copy" /\ "events" \in c.file => ~Good(EventsOf("user")')
  BY <1>1, <1>3, <1>4 DEF OnPlan
<1>5. OnPlan(p)'
  BY <1>1, <1>3, <1>4, PlanSame
<1> QED
  BY <1>1, <1>2, <1>3, <1>5, WorkLatest

\* ... or with the plan given up.
LEMMA KeptGivenUp ==
  ASSUME Inv, TypeInv, LatestOK, NEW p \in Procs, NEW kinds \in SUBSET FileCalls, At(p, kinds),
         KeepsMind(p), trash' = trash, saved' = saved, EventsKept, GiveUp(p)
  PROVE  LatestOK'
<1>1. /\ Busy(p) /\ OnPlan(p) /\ memory' = memory /\ phase' = phase
      /\ \A q \in Procs \ {p} : todo'[q] = todo[q]
  BY WorkAt
<1>2. ProjectionIsNewest' /\ DiskIsLatest'
  BY KeptEvents
<1>3. NothingNew(p) /\ archive' = archive
  BY <1>1, KeptStored DEF EventsKept
<1>4. OnPlan(p)'
  BY <1>1, PlanGivenUp
<1> QED
  BY <1>1, <1>2, <1>3, <1>4, WorkLatest

\* A directory that is made has no events.
LEMMA MadeEvents ==
  ASSUME DiskOK, NEW r \in Roots, ~Exists(live[r]), Set(r, EmptyDir), archive' = archive
  PROVE  EventsKept
<1>1. live[r] = NoDir
  BY DEF DiskOK, NothingHidden
<1>2. EmptyDir.has["events"] = EventsOf(r) /\ EmptyDir.at["events"] = EventsAt(r)
  BY <1>1, EmptyDirs DEF EventsOf, EventsAt, Files
<1> QED
  BY <1>2, LiveEvents

\* The import makes the directory the projection is copied into.
LEMMA ImportLatest ==
  ASSUME Inv, TypeInv, LatestOK, NEW p \in Procs, Import(p)
  PROVE  LatestOK'
<1> DEFINE K == {"import"}
<1>1. At(p, K) /\ K \in SUBSET FileCalls /\ KeepsMind(p) /\ trash' = trash /\ saved' = saved
      /\ archive' = archive
  BY DEF Import, FileCalls
<1>2. todo[p] # <<>> /\ todo[p][1].do = "import"
  BY NextCall DEF Import
<1> HIDE DEF K
<1>3. CASE ~Exists(live["user"]) /\ Exists(live["workspace"])
  <2> DEFINE c == Copy(Written(live["workspace"]))
  <2>1. Set("user", EmptyDir) /\ Instead(p, <<c>>)
    BY <1>3 DEF Import
  <2>2. c \in TypedCalls /\ c.do = "copy"
    BY DEF Copy, Call, Written, WorkCalls, TypedCalls, Roots
  <2>3. EventsKept
    BY <1>1, <1>3, <2>1, MadeEvents DEF TypeInv, Roots
  <2>4. ~Good(EventsOf("user"))
    BY <1>3, EventsContent DEF TypeInv, Good, Roots
  <2> HIDE DEF c
  <2>5. SameKind(todo[p][1], c)
    BY <1>2, <2>2 DEF SameKind, Late, UserEvents, DropsUser, TakesUser, Archives, WritesEvents, WritesUser
  <2> QED
    BY <1>1, <1>2, <2>1, <2>2, <2>3, <2>4, <2>5, KeptInstead
<1>4. CASE ~(~Exists(live["user"]) /\ Exists(live["workspace"]))
  <2>1. Proceed(p) /\ live' = live
    BY <1>4 DEF Import
  <2>2. ~UserEvents(todo[p][1])
    BY <1>2 DEF UserEvents, WritesEvents
  <2> QED
    BY <1>1, <2>1, <2>2, SameEvents, KeptProceeds
<1> QED
  BY <1>3, <1>4

\* A directory is made, if there is none.
LEMMA MkdirLatest ==
  ASSUME Inv, TypeInv, LatestOK, NEW p \in Procs, Mkdir(p)
  PROVE  LatestOK'
<1> DEFINE K == {"mkdir"}
<1>1. At(p, K) /\ K \in SUBSET FileCalls /\ KeepsMind(p) /\ trash' = trash /\ saved' = saved /\ Proceed(p)
      /\ archive' = archive
  BY DEF Mkdir, FileCalls
<1>2. PICK r \in Roots : r = Root(p) /\ todo[p] # <<>> /\ todo[p][1].do = "mkdir"
  BY NextCall DEF Mkdir, Root
<1> HIDE DEF K
<1>3. EventsKept
  <2>1. CASE Exists(live[r])
    BY <1>1, <1>2, <2>1, SameEvents DEF Mkdir
  <2>2. CASE ~Exists(live[r])
    BY <1>1, <1>2, <2>2, MadeEvents DEF Mkdir, TypeInv
  <2> QED
    BY <2>1, <2>2
<1>4. ~UserEvents(todo[p][1])
  BY <1>2 DEF UserEvents, WritesEvents
<1> QED
  BY <1>1, <1>3, <1>4, KeptProceeds

\* The temporary file, or nothing if the file has its content.
LEMMA WriteTmpLatest ==
  ASSUME Inv, TypeInv, LatestOK, NEW p \in Procs, WriteTmp(p)
  PROVE  LatestOK'
<1> DEFINE K == {"write"}
<1>1. At(p, K) /\ K \in SUBSET FileCalls /\ KeepsMind(p) /\ trash' = trash /\ saved' = saved
      /\ archive' = archive
  BY DEF WriteTmp, FileCalls
<1>2. PICK c : c = Current(p)
  OBVIOUS
<1>3. /\ todo[p] # <<>> /\ c = todo[p][1] /\ c.do = "write" /\ c.root \in Roots /\ c.file \in Files
      /\ Root(p) = c.root /\ Current(p).file = c.file /\ c \in TypedCalls
  BY <1>2, NextCall DEF WriteTmp, Root
<1> HIDE DEF K
<1>5. CASE live[c.root].has[c.file] = Wanted(p)
  <2>1. Proceed(p) /\ live' = live
    BY <1>3, <1>5 DEF WriteTmp
  <2>2. UserEvents(c) => Stored(p)
    <3>1. UserEvents(c) => EventsOf("user") = memory[p]
      BY <1>3, <1>5 DEF UserEvents, WritesEvents, EventsOf, Wanted
    <3> QED
      BY <3>1 DEF Stored
  <2> QED
    BY <1>1, <1>3, <2>1, <2>2, SameEvents, KeptProceeds
<1>6. CASE live[c.root].has[c.file] # Wanted(p)
  <2> DEFINE tmp == live[c.root].tmp \cup {c.file}
             d == [live[c.root] EXCEPT !.there = TRUE, !.tmp = tmp]
             e == Call("rename", c.root, c.file)
  <2>1. Set(c.root, d) /\ Instead(p, <<e>>)
    BY <1>3, <1>6 DEF WriteTmp
  <2>2. live[c.root] \in Dir
    BY <1>3 DEF TypeInv, DiskOK
  <2>3. tmp \in SUBSET Files
    BY <1>3, <2>2, DirShape
  <2>4. e \in TypedCalls /\ e.do = "rename" /\ e.root = c.root /\ e.file = c.file
    BY <1>3 DEF Call, WorkCalls, TypedCalls
  <2> HIDE DEF tmp, e
  <2>5. d.has = live[c.root].has /\ d.at = live[c.root].at
    BY <2>2, <2>3, TmpShape
  <2> HIDE DEF d
  <2>6. EventsKept
    BY <1>1, <1>3, <2>1, <2>5, LiveEvents DEF TypeInv, EventsOf, EventsAt
  <2>7. SameKind(c, e) /\ e.do # "import" /\ e.do # "copy"
    BY <1>3, <2>4 DEF SameKind, Late, UserEvents, DropsUser, TakesUser, Archives, WritesEvents, WritesUser
  <2> QED
    BY <1>1, <1>3, <2>1, <2>4, <2>6, <2>7, KeptInstead
<1> QED
  BY <1>5, <1>6

-----------------------------------------------------------------------------
(* The calls that change what can be read.                                 *)

\* What is to be stored is in the trash if the copy cannot be read.
LEMMA StoredInTrash ==
  ASSUME TypeInv, NEW p, Stored(p), memory[p] \in SUBSET Edits, ~Good(EventsOf("user"))
  PROVE  memory[p] \subseteq Trashed
<1>1. EventsOf("user") \in Content
  BY EventsContent DEF TypeInv, Roots
<1>2. EventsOf("user") \cap Edits = {}
  BY <1>1, EditsInGood
<1> QED
  BY <1>2 DEF Stored

\* What the next call tells of the others.
LEMMA HeadPlan ==
  ASSUME TypeInv, NEW p \in Procs, OnPlan(p), todo[p] # <<>>, NEW c, c = todo[p][1]
  PROVE  /\ Late(c) => Stored(p) /\ ~UserEvents(c)
         /\ TakesUser(c) => ~HasLate(todo[p])
         /\ DropsUser(c) => saved = {}
<1> DEFINE s == todo[p]
           t == Tail(s)
<1>1. s \in Seq(TypedCalls) /\ s # <<>> /\ Planned(s) /\ c = s[1]
  BY DEF TypeInv, TodosOK, OnPlan
<1>2. /\ HasLate(s) /\ ~HasUser(s) => Stored(p)
      /\ HasDrop(s) => saved = {}
  BY DEF OnPlan
<1> HIDE DEF s
<1>3. RestOf(s, c, t) /\ 1 \in 1 .. Len(s)
  BY <1>1, PlannedTail
<1> HIDE DEF t
<1>4. Late(c) => ~UserEvents(c) /\ ~TakesUser(c)
  BY DEF Late, UserEvents, TakesUser, DropsUser, Archives, WritesEvents
<1>5. Late(c) => HasLate(s) /\ ~HasUser(s)
  BY <1>1, <1>3, <1>4 DEF RestOf, HasLate
<1>6. TakesUser(c) => ~HasLate(s)
  BY <1>3, <1>4 DEF RestOf
<1>7. DropsUser(c) => HasDrop(s)
  BY <1>1, <1>3 DEF HasDrop
<1> QED
  BY <1>2, <1>4, <1>5, <1>6, <1>7 DEF s

\* The user-local events stay.
LEMMA SameStored ==
  ASSUME EventsOf("user")' = EventsOf("user"), trash' = trash, NEW p, memory' = memory
  PROVE  Stored(p) => Stored(p)'
BY DEF Stored, Trashed

\* One time before another.
LEMMA Earlier == ASSUME NEW m \in Nat, NEW n \in Nat, m < n PROVE ~(m > n)
OBVIOUS

\* The user-local events are written.
LEMMA NewUserEvents ==
  ASSUME TypeInv, LatestOK, archive["user"] = NoDir, archive' = archive,
         NEW x, EventsOf("user")' = x, EventsAt("user")' = Now,
         live'["workspace"] = live["workspace"], trash' = trash, saved' = saved,
         Good(x) => saved \subseteq x \cup Trashed, ~Good(x) => Shown("user") = {}
  PROVE  ProjectionIsNewest' /\ DiskIsLatest'
<1>1. Shown("workspace")' = Shown("workspace") /\ Trashed' = Trashed
  BY DEF Shown, Of, Trashed
<1>2. /\ \A u \in Shown("user")' : u.has["events"] = x /\ u.at["events"] = Now /\ Good(x)
      /\ Good(x) => Shown("user")' # {}
  BY LiveOnlyNext DEF EventsOf, EventsAt
<1>3. ASSUME NEW w \in Shown("workspace")
      PROVE  ~(w.at["events"] > Now)
  <2>1. w \in Copies /\ w.at["events"] \in Nat
    BY EventsContent DEF TypeInv, Shown, Roots
  <2>2. w.at["events"] < Now /\ Now \in Nat
    BY <2>1, DiskNow DEF TypeInv, Files
  <2> QED
    BY <2>1, <2>2, Earlier
<1>4. ProjectionIsNewest'
  BY <1>1, <1>2, <1>3 DEF ProjectionIsNewest
<1>5. DiskIsLatest'
  BY <1>1, <1>2 DEF LatestOK, DiskIsLatest
<1> QED
  BY <1>4, <1>5

\* The durable copy has the content: it counts as saved.
LEMMA SavedLatest ==
  ASSUME Inv, TypeInv, LatestOK, NEW p \in Procs, Saved(p)
  PROVE  LatestOK'
<1> DEFINE K == {"saved"}
<1>1. /\ At(p, K) /\ K \in SUBSET FileCalls /\ KeepsMind(p) /\ UNCHANGED disk /\ Proceed(p)
      /\ saved' = saved \cup memory[p]
  BY DEF Saved, FileCalls
<1>2. /\ Busy(p) /\ OnPlan(p) /\ todo[p] # <<>> /\ todo[p][1].do \in K
      /\ memory[p] \in SUBSET Edits /\ memory' = memory /\ phase' = phase
      /\ archive["user"] = NoDir
      /\ \A q \in Procs \ {p} : todo'[q] = todo[q]
  BY <1>1, WorkAt
<1>3. PICK c : c = todo[p][1]
  OBVIOUS
<1>4. Late(c) /\ ~UserEvents(c) /\ c.do = "saved"
  BY <1>2, <1>3 DEF Late, UserEvents, WritesEvents
<1> HIDE DEF K
<1>5. Stored(p)
  BY <1>2, <1>3, <1>4, HeadPlan
<1>6. EventsKept /\ trash' = trash
  BY <1>1, SameEvents DEF disk
<1>7. Trashed' = Trashed /\ \A r \in Roots : Shown(r)' = Shown(r)
  BY <1>1 DEF disk, Shown, Of, Trashed
<1>8. NothingNew(p) /\ (Stored(p) => Stored(p)') /\ archive' = archive
  BY <1>2, <1>6, KeptStored DEF EventsKept
<1>9. OnPlan(p)'
  BY <1>1, <1>2, <1>3, <1>4, <1>8, PlanProceeds
<1>10. ProjectionIsNewest'
  BY <1>7 DEF LatestOK, ProjectionIsNewest, Roots
<1>11. DiskIsLatest'
  <2>1. /\ \A u \in Shown("user") : u = live["user"] /\ Good(EventsOf("user"))
        /\ Good(EventsOf("user")) => live["user"] \in Shown("user")
    BY <1>2, LiveOnly
  <2>2. \A u \in Shown("user") : memory[p] = u.has["events"]
    BY <1>5, <2>1 DEF Stored, EventsOf
  <2>3. Shown("user") = {} => memory[p] \subseteq Trashed
    BY <1>2, <1>5, <2>1, StoredInTrash
  <2> QED
    BY <1>1, <1>7, <2>2, <2>3 DEF LatestOK, DiskIsLatest, Roots
<1> QED
  BY <1>1, <1>2, <1>6, <1>8, <1>9, <1>10, <1>11, WorkLatest

\* New events of the projection are those of the durable copy.
LEMMA NewProjection ==
  ASSUME LatestOK, archive["user"] = NoDir, archive' = archive, trash' = trash, saved' = saved,
         live'["user"] = live["user"], NEW p \in Procs, Stored(p),
         live'["workspace"].has["events"] = memory[p], saved \subseteq memory[p] \cup Trashed
  PROVE  ProjectionIsNewest' /\ DiskIsLatest'
<1>1. Shown("user")' = Shown("user") /\ Trashed' = Trashed
  BY DEF Shown, Of, Trashed
<1>2. \A w \in Shown("workspace")' : w.has["events"] = memory[p] \/ w \in Shown("workspace")
  BY DEF Shown, Of
<1>3. \A u \in Shown("user") : u.has["events"] = memory[p]
  BY LiveOnly DEF Stored, EventsOf
<1>4. ProjectionIsNewest'
  BY <1>1, <1>2, <1>3 DEF LatestOK, ProjectionIsNewest
<1>5. DiskIsLatest'
  BY <1>1, <1>2 DEF LatestOK, DiskIsLatest
<1> QED
  BY <1>4, <1>5

\* A new content of one copy is not new, if p has it.
LEMMA OnlyWritten ==
  ASSUME archive' = archive, NEW r \in Roots, \A q \in Roots \ {r} : live'[q] = live[q], NEW p,
         \/ live'[r].has["events"] \cap Edits \subseteq memory[p]
         \/ \E q \in Roots : live'[r].has["events"] = EventsOf(q)
  PROVE  NothingNew(p)
<1>1. SUFFICES ASSUME NEW q \in Roots, NEW d \in Of(q)'
               PROVE  \/ d.has["events"] \cap Edits \subseteq memory[p]
                      \/ \E s \in Roots : \E e \in Of(s) : d.has["events"] \cap Edits \subseteq e.has["events"]
  BY DEF NothingNew
<1>2. CASE d \in Of(q)
  BY <1>2
<1>3. CASE d \notin Of(q)
  <2>1. q = r /\ d = live'[r]
    BY <1>3 DEF Of
  <2>2. \A s \in Roots : live[s] \in Of(s)
    BY DEF Of
  <2> QED
    BY <2>1, <2>2 DEF EventsOf
<1> QED
  BY <1>2, <1>3

\* A file takes its new content.
LEMMA RenameLatest ==
  ASSUME Inv, TypeInv, LatestOK, NEW p \in Procs, Rename(p)
  PROVE  LatestOK'
<1> DEFINE K == {"rename"}
<1>1. At(p, K) /\ K \in SUBSET FileCalls /\ KeepsMind(p) /\ trash' = trash /\ saved' = saved
      /\ archive' = archive
  BY DEF Rename, FileCalls
<1>2. PICK c : c = Current(p)
  OBVIOUS
<1>3. /\ c = todo[p][1] /\ c.do = "rename" /\ c.root \in Roots /\ c.file \in Files
      /\ Root(p) = c.root /\ Current(p).file = c.file
  BY <1>2, NextCall DEF Rename, Root
<1> HIDE DEF K
<1>4. /\ Busy(p) /\ OnPlan(p) /\ todo[p] # <<>> /\ memory' = memory /\ phase' = phase
      /\ memory[p] \in SUBSET Edits /\ saved \subseteq memory[p] \cup Trashed
      /\ archive["user"] = NoDir
      /\ Proceed(p) => \A q \in Procs \ {p} : todo'[q] = todo[q]
  BY <1>1, WorkAt
<1>5. CASE c.file \notin live[c.root].tmp
  <2>1. GiveUp(p) /\ live' = live
    BY <1>3, <1>5 DEF Rename
  <2> QED
    BY <1>1, <2>1, SameEvents, KeptGivenUp
<1>6. CASE c.file \in live[c.root].tmp
  <2> DEFINE w == Wanted(p)
             d == Put(live[c.root], c.file, w)
  <2>1. Set(c.root, d) /\ Proceed(p)
    BY <1>3, <1>6 DEF Rename
  <2>2. w \in Content
    BY WantedTyped DEF Rename, At
  <2>3. live[c.root] \in Dir /\ Now \in Nat
    BY <1>3, DiskNow DEF TypeInv, DiskOK
  <2>4. /\ d.has["events"] = IF c.file = "events" THEN w ELSE EventsOf(c.root)
        /\ d.at["events"] = IF c.file = "events" THEN Now ELSE EventsAt(c.root)
    <3> HIDE DEF w
    <3>1. \A g \in Files : /\ d.has[g] = IF g = c.file THEN w ELSE live[c.root].has[g]
                          /\ d.at[g] = IF g = c.file THEN Now ELSE live[c.root].at[g]
      BY <1>3, <2>2, <2>3, PutShape
    <3> HIDE DEF d
    <3> QED
      BY <3>1 DEF Files, EventsOf, EventsAt
  <2>5. c.file = "events" => w = memory[p]
    BY <1>3 DEF Wanted
  <2> HIDE DEF d, w
  <2>6. live'[c.root] = d /\ \A q \in Roots \ {c.root} : live'[q] = live[q]
    BY <1>3, <2>1, LiveEvents DEF TypeInv
  <2>7. Good(memory[p])
    BY <1>4, EditsAreGood
  <2>8. CASE c.file # "events"
    <3>1. EventsKept
      BY <1>1, <1>3, <2>1, <2>4, <2>8, LiveEvents DEF TypeInv
    <3>2. ~UserEvents(c)
      BY <2>8 DEF UserEvents, WritesEvents
    <3> QED
      BY <1>1, <1>3, <2>1, <3>1, <3>2, KeptProceeds
  <2>9. c.file = "events" => NothingNew(p)
    <3>1. c.file = "events" => live'[c.root].has["events"] \cap Edits \subseteq memory[p]
      BY <2>4, <2>5, <2>6
    <3> QED
      BY <1>1, <1>3, <2>6, <3>1, OnlyWritten
  <2>10. CASE c.file = "events" /\ c.root = "user"
    <3>1. /\ EventsOf("user")' = memory[p] /\ EventsAt("user")' = Now
          /\ live'["workspace"] = live["workspace"]
      BY <2>4, <2>5, <2>6, <2>10 DEF EventsOf, EventsAt, Roots
    <3>2. ProjectionIsNewest' /\ DiskIsLatest'
      BY <1>1, <1>4, <2>7, <3>1, NewUserEvents
    <3>3. Stored(p)'
      BY <1>4, <3>1 DEF Stored
    <3>4. OnPlan(p)'
      BY <1>1, <1>3, <1>4, <2>1, <3>3, PlanProceeds
    <3> QED
      BY <1>1, <1>4, <2>1, <2>9, <2>10, <3>2, <3>4, WorkLatest
  <2>11. CASE c.file = "events" /\ c.root = "workspace"
    <3>1. /\ live'["workspace"].has["events"] = memory[p] /\ live'["user"] = live["user"]
          /\ EventsOf("user")' = EventsOf("user")
      BY <2>4, <2>5, <2>6, <2>11 DEF EventsOf, Roots
    <3>2. Late(c)
      BY <1>3, <2>11 DEF Late, WritesEvents
    <3>3. Stored(p) /\ ~UserEvents(c)
      BY <1>3, <1>4, <3>2, HeadPlan
    <3>4. Stored(p)'
      BY <1>1, <1>4, <3>1, <3>3, SameStored
    <3>5. OnPlan(p)'
      BY <1>1, <1>3, <1>4, <2>1, <3>4, PlanProceeds
    <3>6. ProjectionIsNewest' /\ DiskIsLatest'
      BY <1>1, <1>4, <3>1, <3>3, NewProjection
    <3> QED
      BY <1>1, <1>4, <2>1, <2>9, <2>11, <3>5, <3>6, WorkLatest
  <2> QED
    BY <1>3, <2>8, <2>10, <2>11 DEF Roots
<1> QED
  BY <1>5, <1>6

\* A copy loses its events to a removal.
LEMMA GoneLatest ==
  ASSUME Inv, TypeInv, LatestOK, NEW p \in Procs, NEW kinds \in SUBSET FileCalls, At(p, kinds),
         KeepsMind(p), trash' = trash, saved' = saved, archive' = archive, NEW r \in Roots,
         live'[r].has["events"] = Absent, \A q \in Roots \ {r} : live'[q] = live[q],
         NEW c, c = todo[p][1], c.do = "drop", c.root = r, Proceed(p) \/ todo' = todo
  PROVE  LatestOK'
<1>1. /\ Busy(p) /\ OnPlan(p) /\ todo[p] # <<>> /\ memory' = memory /\ phase' = phase
      /\ \A q \in Procs \ {p} : todo'[q] = todo[q]
  BY WorkAt
<1>2. /\ r = "user" => TakesUser(c) /\ DropsUser(c)
      /\ ~UserEvents(c) /\ c.do # "copy"
  BY DEF TakesUser, DropsUser, UserEvents, WritesEvents
<1>3. r = "user" => saved = {} /\ ~HasLate(todo[p])
  BY <1>1, <1>2, HeadPlan
<1>4. OldOrBlank(r)
  <2>1. ~Good(Absent) /\ Absent \cap Edits = {}
    BY EditsInGood DEF Good
  <2> QED
    BY <2>1 DEF OldOrBlank, Of
<1>5. ProjectionIsNewest' /\ DiskIsLatest' /\ NothingNew(p)
  BY <1>3, <1>4, OldDisk
<1>6. r # "user" => (Stored(p) => Stored(p)')
  <2>1. r # "user" => EventsOf("user")' = EventsOf("user")
    BY DEF EventsOf, Roots
  <2> QED
    BY <1>1, <2>1, SameStored
<1>7. OnPlan(p)'
  <2>1. CASE Proceed(p)
    <3>1. TakesUser(c) \/ (UserEvents(c) \/ Stored(p) => Stored(p)')
      BY <1>2, <1>6
    <3> QED
      BY <1>1, <2>1, <3>1, PlanProceeds
  <2>2. CASE todo' = todo
    <3>1. (HasLate(todo[p]) /\ ~HasUser(todo[p])) /\ Stored(p) => Stored(p)'
      BY <1>3, <1>6
    <3> QED
      BY <1>1, <1>2, <2>2, <3>1, PlanSame
  <2> QED
    BY <2>1, <2>2
<1> QED
  BY <1>1, <1>5, <1>7, WorkLatest

\* A copy is removed, file by file.
LEMMA DropLatest ==
  ASSUME Inv, TypeInv, LatestOK, NEW p \in Procs, Drop(p)
  PROVE  LatestOK'
<1> DEFINE K == {"drop"}
<1>1. At(p, K) /\ K \in SUBSET FileCalls /\ KeepsMind(p) /\ trash' = trash /\ saved' = saved
      /\ archive' = archive
  BY DEF Drop, FileCalls
<1>2. PICK c : c = Current(p)
  OBVIOUS
<1>3. PICK r \in Roots : r = c.root /\ Root(p) = r
  BY <1>1, <1>2, NextCall DEF Root
<1>4. c = todo[p][1] /\ c.do = "drop"
  BY <1>1, <1>2, NextCall
<1> HIDE DEF K
<1>5. live[r] \in Dir /\ DiskOK
  BY DEF TypeInv, DiskOK
<1>6. CASE Written(live[r]) = {}
  <2>1. Set(r, NoDir) /\ Proceed(p)
    BY <1>3, <1>6 DEF Drop
  <2>2. live'[r] = NoDir /\ \A q \in Roots \ {r} : live'[q] = live[q]
    BY <1>5, <2>1, LiveEvents
  <2>3. live'[r].has["events"] = Absent
    BY <2>2, NoEvents
  <2> QED
    BY <1>1, <1>3, <1>4, <2>1, <2>2, <2>3, GoneLatest
<1>7. CASE Written(live[r]) # {}
  <2>1. PICK f \in Written(live[r]) : Set(r, [live[r] EXCEPT !.has[f] = Absent, !.at[f] = 0])
    BY <1>3, <1>7 DEF Drop
  <2>2. todo' = todo
    BY <1>3, <1>7 DEF Drop
  <2>3. f \in Files
    BY DEF Written
  <2> DEFINE e == Without(live[r], f)
  <2>4. \A g \in Files : /\ e.has[g] = IF g = f THEN Absent ELSE live[r].has[g]
                         /\ e.at[g] = IF g = f THEN 0 ELSE live[r].at[g]
    BY <1>5, <2>3, RemovedShape
  <2>5. Set(r, e)
    BY <2>1 DEF Without
  <2> HIDE DEF e
  <2>6. /\ live'[r] = e /\ \A q \in Roots \ {r} : live'[q] = live[q]
        /\ e.has["events"] = EventsOf(r) /\ e.at["events"] = EventsAt(r) => EventsKept
    BY <1>1, <1>5, <2>5, LiveEvents
  <2>7. CASE f = "events"
    <3>1. live'[r].has["events"] = Absent
      BY <2>4, <2>6, <2>7 DEF Files
    <3> QED
      BY <1>1, <1>3, <1>4, <2>2, <2>6, <3>1, GoneLatest
  <2>8. CASE f # "events"
    <3>1. EventsKept
      BY <2>4, <2>6, <2>8 DEF EventsOf, EventsAt, Files
    <3> QED
      BY <1>1, <2>2, <3>1, KeptSame
  <2> QED
    BY <2>7, <2>8
<1> QED
  BY <1>6, <1>7

\* One root goes to the archive, in which a copy may be in the way.
LEMMA ToArchiveLatest ==
  ASSUME Inv, TypeInv, LatestOK, NEW p \in Procs, ToArchive(p)
  PROVE  LatestOK'
<1> DEFINE K == {"archive"}
<1>1. At(p, K) /\ K \in SUBSET FileCalls /\ KeepsMind(p) /\ trash' = trash /\ saved' = saved
  BY DEF ToArchive, FileCalls
<1>2. PICK c : c = Current(p)
  OBVIOUS
<1>3. PICK r \in Roots : r = c.root /\ Root(p) = r
  BY <1>1, <1>2, NextCall DEF Root
<1>4. c = todo[p][1] /\ c.do = "archive" /\ 1 \in 1 .. Len(todo[p])
  BY <1>1, <1>2, NextCall
<1> HIDE DEF K
<1>5. /\ Busy(p) /\ OnPlan(p) /\ todo[p] # <<>> /\ memory' = memory /\ phase' = phase
      /\ archive["user"] = NoDir
      /\ Proceed(p) \/ todo' = todo => \A q \in Procs \ {p} : todo'[q] = todo[q]
  BY <1>1, WorkAt
<1>6. ~UserEvents(c) /\ c.do # "copy" /\ (r = "user" => TakesUser(c) /\ Archives(c, "user"))
  BY <1>3, <1>4 DEF UserEvents, WritesEvents, TakesUser, Archives
<1>7. CASE ~Exists(live[r])
  <2>1. Proceed(p) /\ live' = live /\ archive' = archive
    BY <1>3, <1>7 DEF ToArchive, MoveOver
  <2> QED
    BY <1>1, <1>4, <1>6, <2>1, SameEvents, KeptProceeds
<1>8. CASE Exists(live[r]) /\ Written(archive[r]) # {}
  <2>1. /\ live' = live /\ todo' = todo
        /\ \E f \in Written(archive[r]) :
             archive' = [archive EXCEPT ![r].has[f] = Absent, ![r].at[f] = 0]
    BY <1>3, <1>8 DEF ToArchive, MoveOver
  <2>2. r = "workspace"
    <3>1. Exists(archive[r])
      BY <1>3, <1>8, WrittenExists DEF TypeInv
    <3> QED
      BY <1>3, <1>5, <3>1, EmptyDirs DEF Roots
  <2>3. PICK f \in Files : TakesFile(f)
    <3>1. PICK f \in Written(archive["workspace"]) :
            archive' = [archive EXCEPT !["workspace"].has[f] = Absent, !["workspace"].at[f] = 0]
      BY <2>1, <2>2
    <3>2. archive \in [Roots -> Dir] /\ "workspace" \in Roots
      BY DEF TypeInv, DiskOK, Roots
    <3>3. archive' = [archive EXCEPT !["workspace"] = Without(archive["workspace"], f)]
      BY <3>1, <3>2 DEF Without
    <3> QED
      BY <2>1, <3>1, <3>3 DEF TakesFile, Written
  <2>4. DiskIsLatest' /\ ProjectionIsNewest' /\ NothingNew(p) /\ Once'
    BY <1>1, <2>3, TookFile
  <2>5. archive'["user"] = NoDir
    <3>1. archive' = archive \/ archive' = [archive EXCEPT !["workspace"] = Without(archive["workspace"], f)]
      BY <2>3 DEF TakesFile
    <3> QED
      BY <1>5, <3>1 DEF TypeInv, DiskOK, Roots
  <2>6. NotHalf(p)'
    BY <2>5, EmptyDirs DEF NotHalf
  <2>7. Stored(p) => Stored(p)'
    <3>1. EventsOf("user")' = EventsOf("user")
      BY <2>1 DEF EventsOf
    <3> QED
      BY <1>1, <1>5, <3>1, SameStored
  <2>8. OnPlan(p)'
    BY <1>1, <1>4, <1>5, <1>6, <2>1, <2>7, PlanSame
  <2> QED
    BY <1>1, <1>5, <2>1, <2>4, <2>6, <2>8, WorkLatest
<1>9. CASE Exists(live[r]) /\ Written(archive[r]) = {}
  <2>1. /\ live' = [live EXCEPT ![r] = NoDir] /\ archive' = [archive EXCEPT ![r] = live[r]]
        /\ Proceed(p)
    BY <1>3, <1>9 DEF ToArchive, MoveOver, Proceed
  <2>2. Renames(r)
    BY <1>9, <2>1 DEF Renames
  <2>3. DiskIsLatest' /\ ProjectionIsNewest' /\ NothingNew(p) /\ Once'
    BY <1>1, <2>2, MovedCopy
  <2>4. r # "user" => /\ (Stored(p) => Stored(p)')
                      /\ archive'["user"] = archive["user"]
    <3>1. r # "user" => EventsOf("user")' = EventsOf("user")
      BY <2>1 DEF EventsOf, TypeInv, DiskOK, Roots
    <3>2. r # "user" => archive'["user"] = archive["user"]
      BY <2>1 DEF TypeInv, DiskOK, Roots
    <3> QED
      BY <1>1, <1>5, <3>1, <3>2, SameStored
  <2>5. TakesUser(c) \/ (UserEvents(c) \/ Stored(p) => Stored(p)')
    BY <1>6, <2>4
  <2>6. OnPlan(p)' /\ RestOf(todo[p], c, todo'[p])
    BY <1>1, <1>4, <1>5, <2>1, <2>5, PlanProceeds
  <2>7. NotHalf(p)'
    <3>1. CASE r = "user"
      <4>1. todo'[p] = <<>>
        BY <1>6, <2>6, <3>1 DEF RestOf
      <4>2. Has(todo[p], "archive")
        BY <1>4 DEF Has
      <4>3. phase'[p] = "leaving"
        BY <1>5, <4>2 DEF OnPlan
      <4> QED
        BY <4>1, <4>3 DEF NotHalf
    <3>2. CASE r # "user"
      BY <1>5, <2>4, <3>2, EmptyDirs DEF NotHalf
    <3> QED
      BY <3>1, <3>2
  <2> QED
    BY <1>1, <1>5, <2>1, <2>3, <2>6, <2>7, WorkLatest
<1> QED
  BY <1>7, <1>8, <1>9

\* A file of the projection is copied: the durable copy gets what it lacked.
LEMMA CopyFileLatest ==
  ASSUME Inv, TypeInv, LatestOK, NEW p \in Procs, CopyFile(p)
  PROVE  LatestOK'
<1> DEFINE K == {"copy"}
<1>1. At(p, K) /\ K \in SUBSET FileCalls /\ KeepsMind(p) /\ trash' = trash /\ saved' = saved
      /\ archive' = archive
  BY DEF CopyFile, FileCalls
<1>2. PICK c : c = Current(p)
  OBVIOUS
<1>3. c = todo[p][1] /\ c.do = "copy" /\ c.file \in SUBSET Files /\ c \in TypedCalls
  BY <1>1, <1>2, NextCall
<1> HIDE DEF K
<1>4. /\ Busy(p) /\ OnPlan(p) /\ todo[p] # <<>> /\ memory' = memory /\ phase' = phase
      /\ memory[p] \in SUBSET Edits /\ archive["user"] = NoDir
      /\ Proceed(p) \/ todo' = todo \/ (\E calls : Instead(p, calls))
           => \A q \in Procs \ {p} : todo'[q] = todo[q]
  BY <1>1, WorkAt
<1>5. HasUser(todo[p]) /\ ("events" \in c.file => ~Good(EventsOf("user")))
  BY <1>3, <1>4 DEF OnPlan
<1>6. ~UserEvents(c)
  BY <1>3 DEF UserEvents, WritesEvents
<1>7. PICK f \in c.file :
        LET rest == c.file \ {f} IN
        IF Exists(live["user"]) /\ live["workspace"].has[f] # Absent
          THEN \/ /\ Set("user", Put(live["user"], f, Torn))
                  /\ UNCHANGED todo
               \/ /\ Set("user", Put(live["user"], f, live["workspace"].has[f]))
                  /\ Instead(p, IF rest = {} THEN <<>> ELSE <<Copy(rest)>>)
          ELSE GiveUp(p) /\ UNCHANGED live
  BY <1>2 DEF CopyFile
<1> DEFINE rest == c.file \ {f}
           x == live["workspace"].has[f]
<1>8. CASE GiveUp(p) /\ UNCHANGED live
  BY <1>1, <1>8, SameEvents, KeptGivenUp
<1>9. f \in Files /\ Torn \in Content /\ x \in Content /\ live["user"] \in Dir /\ Now \in Nat
  <2>1. live["workspace"] \in Dir /\ live["user"] \in Dir
    BY DEF TypeInv, DiskOK, Roots
  <2> QED
    BY <1>3, <2>1, DirShape, DiskNow DEF Content, TypeInv
\* What becomes of the user-local events.
<1>10. ASSUME NEW y \in Content, Set("user", Put(live["user"], f, y))
       PROVE  /\ live'["workspace"] = live["workspace"]
              /\ f # "events" => EventsKept
              /\ f = "events" => EventsOf("user")' = y /\ EventsAt("user")' = Now
  <2> DEFINE d == Put(live["user"], f, y)
  <2>1. \A g \in Files : /\ d.has[g] = IF g = f THEN y ELSE live["user"].has[g]
                         /\ d.at[g] = IF g = f THEN Now ELSE live["user"].at[g]
    <3>1. f \in Files /\ y \in Content /\ live["user"] \in Dir /\ Now \in Nat
      BY <1>9, <1>10
    <3> HIDE DEF x
    <3> QED
      BY <3>1, PutShape
  <2>2. Set("user", d)
    BY <1>10
  <2> HIDE DEF d
  <2>3. /\ live'["user"] = d /\ live'["workspace"] = live["workspace"]
        /\ d.has["events"] = EventsOf("user") /\ d.at["events"] = EventsAt("user") => EventsKept
    BY <1>1, <2>2, LiveEvents DEF TypeInv, Roots
  <2> QED
    BY <2>1, <2>3 DEF EventsOf, EventsAt, Files
\* How the calls go on.
<1>11. ASSUME Instead(p, IF rest = {} THEN <<>> ELSE <<Copy(rest)>>)
       PROVE  \/ Proceed(p)
              \/ \E e \in TypedCalls : /\ Instead(p, <<e>>) /\ e.do = "copy" /\ e.file = rest
                                       /\ SameKind(c, e)
  <2>1. CASE rest # {}
    <3> DEFINE e == Copy(rest)
    <3>1. Instead(p, <<e>>) /\ e \in TypedCalls /\ e.do = "copy" /\ e.file = rest
      BY <1>3, <1>11, <2>1 DEF Copy, Call, WorkCalls, TypedCalls, Roots
    <3> HIDE DEF e
    <3>2. SameKind(c, e)
      BY <1>3, <3>1 DEF SameKind, Late, UserEvents, DropsUser, TakesUser, Archives, WritesEvents, WritesUser
    <3> QED
      BY <3>1, <3>2
  <2>2. CASE rest = {}
    <3> DEFINE t == Tail(todo[p])
    <3>1. todo[p] \in Seq(TypedCalls)
      BY DEF TypeInv, TodosOK
    <3>2. t \in Seq(TypedCalls)
      BY <1>4, <3>1, TailItems
    <3>3. todo' = [todo EXCEPT ![p] = <<>> \o t]
      BY <1>11, <2>2 DEF Instead
    <3> HIDE DEF t
    <3>4. <<>> \o t = t
      BY <3>2
    <3> QED
      BY <3>3, <3>4 DEF Proceed, t
  <2> QED
    BY <2>1, <2>2
<1> HIDE DEF rest
<1>12. rest \subseteq c.file /\ (f = "events" => "events" \notin rest)
  BY DEF rest
<1>13. f = "events" => ~Good(EventsOf("user")) /\ Shown("user") = {}
  BY <1>4, <1>5, LiveOnly
<1>14. CASE Set("user", Put(live["user"], f, Torn)) /\ UNCHANGED todo
  <2>1. /\ live'["workspace"] = live["workspace"]
        /\ f # "events" => EventsKept
        /\ f = "events" => EventsOf("user")' = Torn /\ EventsAt("user")' = Now
    BY <1>9, <1>10, <1>14
  <2>2. CASE f # "events"
    BY <1>1, <1>14, <2>1, <2>2, KeptSame
  <2>3. CASE f = "events"
    <3>1. ~Good(EventsOf("user")') /\ Torn \cap Edits = {} /\ ~Good(Torn)
      BY <2>1, <2>3, EditsInGood DEF Good, NothingKnown
    <3>2. PICK y : y = Torn
      OBVIOUS
    <3>3. ProjectionIsNewest' /\ DiskIsLatest'
      BY <1>1, <1>4, <1>13, <2>1, <2>3, <3>1, <3>2, NewUserEvents
    <3>4. NothingNew(p)
      <4>1. live'["user"].has["events"] \cap Edits \subseteq memory[p]
        BY <2>1, <2>3, <3>1 DEF EventsOf
      <4>2. "user" \in Roots /\ \A q \in Roots \ {"user"} : live'[q] = live[q]
        BY <2>1 DEF Roots
      <4> QED
        BY <1>1, <4>1, <4>2, OnlyWritten
    <3>5. OnPlan(p)'
      BY <1>1, <1>3, <1>4, <1>5, <1>14, <3>1, PlanSame
    <3> QED
      BY <1>1, <1>4, <1>14, <3>3, <3>4, <3>5, WorkLatest
  <2> QED
    BY <2>2, <2>3
<1>15. CASE Set("user", Put(live["user"], f, x)) /\ Instead(p, IF rest = {} THEN <<>> ELSE <<Copy(rest)>>)
  <2>1. \/ Proceed(p)
        \/ \E e \in TypedCalls : /\ Instead(p, <<e>>) /\ e.do = "copy" /\ e.file = rest
                                 /\ SameKind(c, e)
    BY <1>11, <1>15
  <2>2. /\ live'["workspace"] = live["workspace"]
        /\ f # "events" => EventsKept
        /\ f = "events" => EventsOf("user")' = EventsOf("workspace") /\ EventsAt("user")' = Now
    BY <1>9, <1>10, <1>15 DEF EventsOf
  <2>3. CASE f # "events"
    <3>1. CASE Proceed(p)
      BY <1>1, <1>3, <1>6, <2>2, <2>3, <3>1, KeptProceeds
    <3>2. ASSUME NEW e \in TypedCalls, Instead(p, <<e>>), e.do = "copy", e.file = rest, SameKind(c, e)
          PROVE  LatestOK'
      <4>1. "events" \in e.file => ~Good(EventsOf("user"))
        BY <1>5, <1>12, <3>2
      <4> QED
        BY <1>1, <1>3, <2>2, <2>3, <3>2, <4>1, KeptInstead
    <3> QED
      BY <2>1, <3>1, <3>2
  <2>4. CASE f = "events"
    <3>1. Good(EventsOf("workspace")) => saved \subseteq EventsOf("workspace") \cup Trashed
      <4>1. Good(EventsOf("workspace")) => live["workspace"] \in Shown("workspace")
        BY DEF Shown, Of, EventsOf
      <4> QED
        BY <1>13, <2>4, <4>1 DEF LatestOK, DiskIsLatest, EventsOf
    <3>2. PICK w : w = EventsOf("workspace")
      OBVIOUS
    <3>3. ProjectionIsNewest' /\ DiskIsLatest'
      BY <1>1, <1>4, <1>13, <2>2, <2>4, <3>1, <3>2, NewUserEvents
    <3>4. NothingNew(p)
      <4>1. live'["user"].has["events"] = EventsOf("workspace")
        BY <2>2, <2>4 DEF EventsOf
      <4>2. /\ "user" \in Roots /\ "workspace" \in Roots
            /\ \A q \in Roots \ {"user"} : live'[q] = live[q]
        BY <2>2 DEF Roots
      <4> QED
        BY <1>1, <4>1, <4>2, OnlyWritten
    <3>5. OnPlan(p)'
      <4>1. CASE Proceed(p)
        BY <1>1, <1>3, <1>4, <1>5, <1>6, <4>1, PlanProceeds
      <4>2. ASSUME NEW e \in TypedCalls, Instead(p, <<e>>), e.do = "copy", e.file = rest, SameKind(c, e)
            PROVE  OnPlan(p)'
        <5>1. "events" \notin e.file
          BY <1>12, <2>4, <4>2
        <5> QED
          BY <1>1, <1>3, <1>4, <1>5, <4>2, <5>1, PlanInstead
      <4> QED
        BY <2>1, <4>1, <4>2
    <3> QED
      BY <1>1, <1>4, <2>1, <3>3, <3>4, <3>5, WorkLatest
  <2> QED
    BY <2>3, <2>4
<1> QED
  BY <1>7, <1>8, <1>14, <1>15 DEF rest

-----------------------------------------------------------------------------
(* The theorem.                                                            *)

\* The events of a copy as jp left it.
LEMMA FirstEvents ==
  ASSUME NEW legacy \in BOOLEAN
  PROVE  /\ FirstCopy(legacy).has["events"] = IF legacy THEN {1, LegacyMark} ELSE {1}
         /\ FirstCopy(legacy).at["events"] = 1
<1> DEFINE has == [metadata |-> {1}, base |-> IF legacy THEN Absent ELSE {},
                   events |-> IF legacy THEN {1, LegacyMark} ELSE {1}]
           at == [metadata |-> 1, base |-> IF legacy THEN 0 ELSE 1, events |-> 1]
           d == FirstCopy(legacy)
           has0 == [f \in Files |-> Absent]
           at0 == [f \in Files |-> 0]
<1>1. d = [EmptyDir EXCEPT !.has = has, !.at = at]
  BY DEF FirstCopy
<1>2. EmptyDir = [there |-> TRUE, has |-> has0, at |-> at0, tmp |-> {}]
  BY DEF EmptyDir
<1>3. has["events"] = (IF legacy THEN {1, LegacyMark} ELSE {1}) /\ at["events"] = 1
  OBVIOUS
<1> HIDE DEF has, at, d, has0, at0
<1>4. d = [there |-> TRUE, has |-> has, at |-> at, tmp |-> {}]
  BY <1>1, <1>2
<1>5. d.has = has /\ d.at = at
  BY <1>4
<1> QED
  BY <1>3, <1>5 DEF d

\* The copies of the start hold the same events, with the same time.
LEMMA InitLatest == Init => LatestOK
<1> SUFFICES ASSUME Init PROVE LatestOK
  OBVIOUS
<1>1. PICK kept \in SUBSET Roots, legacy \in BOOLEAN, archived \in BOOLEAN :
        LET copy == [r \in Roots |-> IF r \in kept THEN FirstCopy(legacy) ELSE NoDir]
            none == [r \in Roots |-> NoDir]
        IN  /\ live = IF archived THEN none ELSE copy
            /\ archive = IF archived THEN copy ELSE none
            /\ saved = IF kept = {} THEN {} ELSE {1}
            /\ edits = Cardinality(saved)
  BY DEF Init
<1>2. \A r \in Roots : \A d \in Of(r) : d = NoDir \/ (d = FirstCopy(legacy) /\ kept # {})
  BY <1>1 DEF Of
<1>3. /\ ~Good(NoDir.has["events"]) /\ NoDir.has["events"] \cap Edits = {}
      /\ FirstCopy(legacy).has["events"] = IF legacy THEN {1, LegacyMark} ELSE {1}
      /\ FirstCopy(legacy).at["events"] = 1
  BY FirstEvents, NoEvents, EditsInGood
<1>4. \A r \in Roots : \A d \in Shown(r) :
        d.has["events"] = (IF legacy THEN {1, LegacyMark} ELSE {1}) /\ d.at["events"] = 1 /\ kept # {}
  BY <1>2, <1>3 DEF Shown
<1>5. ProjectionIsNewest
  <2>1. ~(1 > 1)
    OBVIOUS
  <2> QED
    BY <1>4, <2>1 DEF ProjectionIsNewest, Roots
<1>6. DiskIsLatest
  BY <1>1, <1>4 DEF DiskIsLatest, Roots
<1>7. Once
  BY <1>1, EmptyDirs DEF Once, Roots
<1>8. edits = 0 => Unedited
  <2>1. kept # {} => edits = 1
    BY <1>1, FS_Singleton
  <2>2. SUFFICES ASSUME kept = {} PROVE Unedited
    BY <2>1
  <2>3. \A r \in Roots : \A d \in Of(r) : d.has["events"] \cap Edits = {}
    BY <1>2, <1>3, <2>2
  <2>4. \A p \in Procs : memory[p] \cap Edits = {}
    BY EditsInGood DEF Init
  <2> QED
    BY <1>1, <2>2, <2>3, <2>4 DEF Unedited
<1>9. \A p \in Procs : ~Busy(p)
  BY DEF Init, Busy
<1> QED
  BY <1>5, <1>6, <1>7, <1>8, <1>9 DEF LatestOK, MindPart

\* A step that changes nothing.
LEMMA StillLatest ==
  ASSUME LatestOK, UNCHANGED vars
  PROVE  LatestOK'
<1>1. UNCHANGED <<live, archive, trash, lock, phase, todo, memory, saved, lapses, edits>>
  BY DEF vars, disk, bounds
<1>2. \A q \in Procs : MindPart(q)'
  BY <1>1, SameEvents, KeptMind
<1>3. ProjectionIsNewest' /\ DiskIsLatest'
  BY <1>1, SameEvents, KeptEvents
<1>4. Once' /\ (edits' = 0 => Unedited')
  BY <1>1 DEF LatestOK, Once, Unedited, Of
<1> QED
  BY <1>2, <1>3, <1>4 DEF LatestOK

\* Every step keeps the invariant.
LEMMA NextLatest ==
  ASSUME OneWorks, TypeInv, LatestInv, [Next]_vars
  PROVE  LatestInv'
<1>1. SUFFICES ASSUME Quiet' PROVE LatestOK'
  BY DEF LatestInv
<1>2. Quiet
  BY <1>1, LapsesStay DEF Quiet
<1>3. LatestOK /\ Inv
  BY <1>2 DEF LatestInv, OneWorks, Quiet
<1>4. CASE UNCHANGED vars
  BY <1>3, <1>4, StillLatest
<1>5. ASSUME NEW p \in Procs, Run(p)
      PROVE  LatestOK'
  <2>1. CASE Start(p) \/ Check(p) \/ Probe(p) \/ Trash(p) \/ Index(p) \/ EagerLoad(p)
    BY <1>3, <2>1, StartLatest, CheckLatest, ProbeLatest, TrashLatest, IndexLatest, EagerLoadLatest
  <2>2. CASE \/ Acquire(p) \/ Create(p) \/ Save(p) \/ Project(p) \/ Archive(p) \/ Remove(p)
             \/ Unarchive(p) \/ Leave(p)
    BY <1>1, <1>3, <2>2, AcquireLatest, CreateLatest, SaveLatest, ProjectLatest, ArchiveLatest,
       RemoveLatest, UnarchiveLatest, LeaveLatest
  <2>3. CASE \/ Import(p) \/ CopyFile(p) \/ Mkdir(p) \/ WriteTmp(p) \/ Rename(p) \/ Drop(p)
             \/ Saved(p) \/ ToArchive(p)
    BY <1>3, <2>3, ImportLatest, CopyFileLatest, MkdirLatest, WriteTmpLatest, RenameLatest, DropLatest,
       SavedLatest, ToArchiveLatest
  <2>4. CASE FromArchive(p) \/ Restore(p)
    BY <1>1, <1>3, <2>4, FromArchiveLatest, RestoreLatest
  <2> QED
    BY <1>5, <2>1, <2>2, <2>3, <2>4 DEF Run
<1>6. ASSUME NEW p \in Procs, Crash(p)
      PROVE  LatestOK'
  BY <1>3, <1>6, CrashLatest
<1> QED
  BY <1>4, <1>5, <1>6 DEF Next

\* Who holds the lock knows what was saved.
LEMMA LatestLocked == OneWorks /\ LatestInv => LockedWithLatest
<1> SUFFICES ASSUME OneWorks, LatestInv, lock # NoProc, Quiet
             PROVE  saved \subseteq memory[lock] \cup Trashed
  BY DEF LockedWithLatest, Quiet
<1>1. LatestOK /\ Inv
  BY DEF LatestInv, OneWorks, Quiet
<1>2. lock \in Procs /\ Busy(lock)
  BY <1>1 DEF Inv, Alone
<1>3. Working(lock)
  BY <1>1, <1>2 DEF Inv, ProcInv
<1>4. phase[lock] # "restoring"
  BY <1>3 DEF Working
<1>5. Knows(lock)
  BY <1>1, <1>2 DEF LatestOK, MindPart, Mind
<1> QED
  BY <1>4, <1>5 DEF Knows, InWork

\* A process that locks the conversation works with all that was ever saved but
\* for what cleaning up moved to the trash: however processes read early, lock,
\* save, move, remove, restore from the archive and die in between, as long as
\* none of the lapses of the code, other than a stale trash, has happened.
THEOREM LocksLatest == Spec => []LockedWithLatest
<1>1. Init => LatestInv
  BY InitLatest DEF LatestInv
<1>2. OneWorks /\ TypeInv /\ LatestInv /\ [Next]_vars => LatestInv'
  BY NextLatest
<1>3. OneWorks /\ LatestInv => LockedWithLatest
  BY LatestLocked
<1> QED
  BY <1>1, <1>2, <1>3, StoreInvariant, StoreTypes, PTL DEF Spec

=============================================================================
